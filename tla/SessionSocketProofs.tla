------------------------ MODULE SessionSocketProofs ------------------------
(***************************************************************************)
(* Proofs about the chat sockets of a session, for any number of           *)
(* connections, turns and approval requests and any length of the queue.   *)
(***************************************************************************)
EXTENDS SessionSocket, TLAPS

\* Every step of a connection or a turn keeps the types.
LEMMA NextTyped == TypeOK /\ [Next]_vars => TypeOK'
<1> SUFFICES ASSUME TypeOK, [Next]_vars
             PROVE  TypeOK'
  OBVIOUS
<1> USE ConstantsAssumption DEF TypeOK, Live, socketVars, turnVars, queueVars
<1>1. ASSUME NEW c \in Conn, Socket(c)
      PROVE  TypeOK'
  <2>1. CASE Open(c)         BY <2>1 DEF Open
  <2>2. CASE Leave(c)        BY <2>2 DEF Leave
  <2>3. CASE Close(c)        BY <2>3 DEF Close
  <2>4. CASE CancelFrame(c)
    <3>1. CASE Busy(c)
      <4>1. turnOf[c] \in Run
        BY <3>1 DEF Busy
      <4>2. /\ stop' = [stop EXCEPT ![c] = box[c]]
            /\ loop' = [loop EXCEPT ![c] = "joining"]
            /\ doomed' = doomed \cup {turnOf[c]}
            /\ UNCHANGED <<turnOf, sock, box, owner, at, recycled, told, queueVars>>
        BY <2>4, <3>1 DEF CancelFrame
      <4> QED  BY <4>1, <4>2
    <3>2. CASE ~Busy(c)
      BY <2>4, <3>2, ZenonT(30) DEF CancelFrame
    <3> QED  BY <3>1, <3>2
  <2>5. CASE Join(c)         BY <2>5 DEF Join
  <2>6. CASE Answer(c)       BY <2>6 DEF Answer
  <2>7. CASE Pump(c)
    <3>1. queue' \in [Conn -> Seq(Approval)]
      <4>1. ASSUME NEW q \in Conn, queue[q] # <<>>
            PROVE  Tail(queue[q]) \in Seq(Approval)
        <5>1. queue[q] \in Seq(Approval)
          OBVIOUS
        <5> QED  BY <4>1, <5>1
      <4>2. queue' = [queue EXCEPT ![queueOf[c]] = Tail(queue[queueOf[c]])]
        BY <2>7 DEF Pump
      <4>3. CASE queueOf[c] \in Conn
        BY <2>7, <4>1, <4>2, <4>3 DEF Pump
      <4>4. CASE queueOf[c] \notin Conn
        BY <4>2, <4>4, ZenonT(30)
      <4> QED  BY <4>3, <4>4
    <3>2. asked' \in [Approval -> {"none", "queued", "shown", "lost"}]
      BY <2>7 DEF Pump
    <3> QED  BY <2>7, <3>1, <3>2 DEF Pump
  <2>8. CASE \E r \in Run : UserMessage(c, r)
    BY <2>8 DEF UserMessage
  <2> QED  BY <1>1, <2>1, <2>2, <2>3, <2>4, <2>5, <2>6, <2>7, <2>8 DEF Socket
<1>2. ASSUME NEW r \in Run, Turn(r)
      PROVE  TypeOK'
  <2>1. CASE LoadEnds(r)   BY <2>1 DEF LoadEnds, Goes
  <2>2. CASE Name(r)       BY <2>2 DEF Name, Goes
  <2>3. CASE Stream(r)     BY <2>3 DEF Stream, Goes
  <2>4. CASE LastEvent(r)  BY <2>4 DEF LastEvent, Goes
  <2>5. CASE Complete(r)   BY <2>5 DEF Complete, Goes
  <2>6. CASE Raise(r)      BY <2>6 DEF Raise, Goes
  <2>7. CASE Report(r)
    <3>1. CASE Goes(r, "failing", "persisting")
      BY <2>7, <3>1, ZenonT(30) DEF Report, Goes
    <3>2. CASE Goes(r, "failing", "over") /\ UNCHANGED <<box, told>>
      BY <2>7, <3>2 DEF Report, Goes
    <3> QED  BY <2>7, <3>1, <3>2 DEF Report
  <2>8. CASE Persist(r)    BY <2>8 DEF Persist, Goes
  <2>9. CASE Unwind(r)     BY <2>9 DEF Unwind, Goes
  <2>10. CASE Interrupt(r)
    <3>1. Interrupted(r) \subseteq {"dropped", "unwinding", "failing", "over"}
      BY DEF Interrupted
    <3>2. PICK s \in Interrupted(r) :
            /\ at' = [at EXCEPT ![r] = s]
            /\ box' = IF s = "unwinding" THEN [box EXCEPT ![owner[r]] = None] ELSE box
      BY <2>10 DEF Interrupt
    <3>3. at' \in [Run -> Live \cup {"none", "dropped", "over"}]
      BY <3>1, <3>2
    <3>4. box' \in [Conn -> Run \cup {None}]
      BY <3>2
    <3> QED  BY <2>10, <3>3, <3>4 DEF Interrupt
  <2>11. CASE Recycle(r)   BY <2>11 DEF Recycle
  <2>12. ASSUME NEW a \in Approval, Ask(r, a)
         PROVE  TypeOK'
    <3>1. CASE shared # None /\ Len(queue[shared]) < QueueLimit
      <4>1. shared \in Conn /\ queue[shared] \in Seq(Approval)
        BY <3>1
      <4>2. Append(queue[shared], a) \in Seq(Approval)
        BY <4>1
      <4>3. /\ queue' = [queue EXCEPT ![shared] = Append(queue[shared], a)]
            /\ asked' = [asked EXCEPT ![a] = "queued"]
        BY <2>12, <3>1 DEF Ask
      <4> QED  BY <2>12, <4>1, <4>2, <4>3 DEF Ask
    <3>2. CASE ~(shared # None /\ Len(queue[shared]) < QueueLimit)
      BY <2>12, <3>2 DEF Ask
    <3> QED  BY <3>1, <3>2
  <2> QED
    BY <1>2, <2>1, <2>2, <2>3, <2>4, <2>5, <2>6, <2>7, <2>8, <2>9, <2>10, <2>11, <2>12 DEF Turn
<1>3. CASE UNCHANGED vars
  BY <1>3 DEF vars
<1> QED  BY <1>1, <1>2, <1>3 DEF Next

\* Type correctness of the sockets.
THEOREM TypeCorrect == Spec => []TypeOK
<1>1. Init => TypeOK
  BY ConstantsAssumption DEF Init, TypeOK
<1> QED  BY <1>1, NextTyped, PTL DEF Spec

-----------------------------------------------------------------------------
(* The inductive invariant, one part at a time.                            *)

\* A turn keeps its connection, and a connection is never new again.
LEMMA TurnOwnedKept == TypeOK /\ Inductive /\ [Next]_vars => TurnOwned'
<1> SUFFICES ASSUME TypeOK, Inductive, [Next]_vars
             PROVE  TurnOwned'
  OBVIOUS
<1> USE ConstantsAssumption
    DEF TypeOK, Live, Named, socketVars, turnVars, queueVars, Inductive, TurnOwned
<1>1. ASSUME NEW c \in Conn, Socket(c)
      PROVE  TurnOwned'
  <2>1. CASE Open(c)  BY <2>1 DEF Open
  <2>2. CASE Leave(c)  BY <2>2 DEF Leave
  <2>3. CASE Close(c)  BY <2>3 DEF Close
  <2>4. CASE CancelFrame(c)  BY <2>4 DEF CancelFrame, Busy
  <2>5. CASE Join(c)  BY <2>5 DEF Join, Busy
  <2>6. CASE Answer(c)  BY <2>6 DEF Answer, Reaches
  <2>7. CASE Pump(c)  BY <2>7 DEF Pump
  <2>8. ASSUME NEW r \in Run, UserMessage(c, r)
        PROVE  TurnOwned'
    BY <2>8 DEF UserMessage, Reaches, Busy
  <2> QED  BY <1>1, <2>1, <2>2, <2>3, <2>4, <2>5, <2>6, <2>7, <2>8 DEF Socket
<1>2. ASSUME NEW r \in Run, Turn(r)
      PROVE  TurnOwned'
  <2>1. CASE LoadEnds(r)  BY <2>1 DEF LoadEnds, Goes
  <2>2. CASE Name(r)  BY <2>2 DEF Name, Goes
  <2>3. CASE Stream(r)  BY <2>3 DEF Stream, Goes
  <2>4. CASE LastEvent(r)  BY <2>4 DEF LastEvent, Goes, Reaches
  <2>5. CASE Complete(r)  BY <2>5 DEF Complete, Goes
  <2>6. CASE Raise(r)  BY <2>6 DEF Raise, Goes
  <2>7. CASE Report(r)  BY <2>7 DEF Report, Goes, Reaches
  <2>8. CASE Persist(r)  BY <2>8 DEF Persist, Goes
  <2>9. CASE Unwind(r)  BY <2>9 DEF Unwind, Goes
  <2>10. CASE Interrupt(r)  BY <2>10 DEF Interrupt, Interrupted
  <2>11. CASE Recycle(r)  BY <2>11 DEF Recycle
  <2>12. CASE \E a \in Approval : Ask(r, a)
    BY <2>12 DEF Ask
  <2> QED
    BY <1>2, <2>1, <2>2, <2>3, <2>4, <2>5, <2>6, <2>7, <2>8, <2>9, <2>10, <2>11, <2>12 DEF Turn
<1>3. CASE UNCHANGED vars
  BY <1>3 DEF vars
<1> QED  BY <1>1, <1>2, <1>3 DEF Next

\* While the loop of a connection lives, no second turn of it does.
LEMMA RunningTurnCanBeStoppedKept == TypeOK /\ Inductive /\ [Next]_vars => RunningTurnCanBeStopped'
<1> SUFFICES ASSUME TypeOK, Inductive, [Next]_vars
             PROVE  RunningTurnCanBeStopped'
  OBVIOUS
<1> USE ConstantsAssumption
    DEF TypeOK, Live, Named, socketVars, turnVars, queueVars, Inductive, TurnOwned, RunningTurnCanBeStopped
<1>1. ASSUME NEW c \in Conn, Socket(c)
      PROVE  RunningTurnCanBeStopped'
  <2>1. CASE Open(c)  BY <2>1 DEF Open
  <2>2. CASE Leave(c)  BY <2>2 DEF Leave
  <2>3. CASE Close(c)  BY <2>3 DEF Close
  <2>4. CASE CancelFrame(c)  BY <2>4 DEF CancelFrame, Busy
  <2>5. CASE Join(c)  BY <2>5 DEF Join, Busy
  <2>6. CASE Answer(c)  BY <2>6 DEF Answer, Reaches
  <2>7. CASE Pump(c)  BY <2>7 DEF Pump
  <2>8. ASSUME NEW r \in Run, UserMessage(c, r)
        PROVE  RunningTurnCanBeStopped'
    BY <2>8 DEF UserMessage, Reaches, Busy
  <2> QED  BY <1>1, <2>1, <2>2, <2>3, <2>4, <2>5, <2>6, <2>7, <2>8 DEF Socket
<1>2. ASSUME NEW r \in Run, Turn(r)
      PROVE  RunningTurnCanBeStopped'
  <2>1. CASE LoadEnds(r)  BY <2>1 DEF LoadEnds, Goes
  <2>2. CASE Name(r)  BY <2>2 DEF Name, Goes
  <2>3. CASE Stream(r)  BY <2>3 DEF Stream, Goes
  <2>4. CASE LastEvent(r)  BY <2>4 DEF LastEvent, Goes, Reaches
  <2>5. CASE Complete(r)  BY <2>5 DEF Complete, Goes
  <2>6. CASE Raise(r)  BY <2>6 DEF Raise, Goes
  <2>7. CASE Report(r)
    <3>1. CASE Goes(r, "failing", "persisting") /\ box' = [box EXCEPT ![owner[r]] = None]
      BY <2>7, <3>1 DEF Report, Goes
    <3>2. CASE Goes(r, "failing", "over") /\ UNCHANGED <<box, told>>
      BY <2>7, <3>2 DEF Report, Goes
    <3> QED  BY <2>7, <3>1, <3>2 DEF Report
  <2>8. CASE Persist(r)  BY <2>8 DEF Persist, Goes
  <2>9. CASE Unwind(r)  BY <2>9 DEF Unwind, Goes
  <2>10. CASE Interrupt(r)  BY <2>10 DEF Interrupt, Interrupted
  <2>11. CASE Recycle(r)  BY <2>11 DEF Recycle
  <2>12. CASE \E a \in Approval : Ask(r, a)
    BY <2>12 DEF Ask
  <2> QED
    BY <1>2, <2>1, <2>2, <2>3, <2>4, <2>5, <2>6, <2>7, <2>8, <2>9, <2>10, <2>11, <2>12 DEF Turn
<1>3. CASE UNCHANGED vars
  BY <1>3 DEF vars
<1> QED  BY <1>1, <1>2, <1>3 DEF Next

\* What a connection remembers is a turn of its own.
LEMMA BoxNamedKept == TypeOK /\ Inductive /\ [Next]_vars => BoxNamed'
<1> SUFFICES ASSUME TypeOK, Inductive, [Next]_vars
             PROVE  BoxNamed'
  OBVIOUS
<1> USE ConstantsAssumption
    DEF TypeOK, Live, Named, socketVars, turnVars, queueVars, Inductive, TurnOwned, RunningTurnCanBeStopped, BoxNamed
<1>1. ASSUME NEW c \in Conn, Socket(c)
      PROVE  BoxNamed'
  <2>1. CASE Open(c)  BY <2>1 DEF Open
  <2>2. CASE Leave(c)  BY <2>2 DEF Leave
  <2>3. CASE Close(c)  BY <2>3 DEF Close
  <2>4. CASE CancelFrame(c)
    <3>1. CASE Busy(c)
      BY <2>4, <3>1 DEF CancelFrame, Busy, Reaches
    <3>2. CASE ~Busy(c)
      BY <2>4, <3>2 DEF CancelFrame, Busy, Reaches
    <3> QED  BY <3>1, <3>2
  <2>5. CASE Join(c)  BY <2>5 DEF Join, Busy
  <2>6. CASE Answer(c)  BY <2>6 DEF Answer, Reaches
  <2>7. CASE Pump(c)  BY <2>7 DEF Pump
  <2>8. ASSUME NEW r \in Run, UserMessage(c, r)
        PROVE  BoxNamed'
    BY <2>8 DEF UserMessage, Reaches, Busy
  <2> QED  BY <1>1, <2>1, <2>2, <2>3, <2>4, <2>5, <2>6, <2>7, <2>8 DEF Socket
<1>2. ASSUME NEW r \in Run, Turn(r)
      PROVE  BoxNamed'
  <2>1. CASE LoadEnds(r)  BY <2>1 DEF LoadEnds, Goes
  <2>2. CASE Name(r)  BY <2>2 DEF Name, Goes
  <2>3. CASE Stream(r)  BY <2>3 DEF Stream, Goes
  <2>4. CASE LastEvent(r)  BY <2>4 DEF LastEvent, Goes, Reaches
  <2>5. CASE Complete(r)  BY <2>5 DEF Complete, Goes
  <2>6. CASE Raise(r)  BY <2>6 DEF Raise, Goes
  <2>7. CASE Report(r)
    <3>1. CASE Goes(r, "failing", "persisting") /\ box' = [box EXCEPT ![owner[r]] = None]
      BY <2>7, <3>1 DEF Report, Goes
    <3>2. CASE Goes(r, "failing", "over") /\ UNCHANGED <<box, told>>
      BY <2>7, <3>2 DEF Report, Goes
    <3> QED  BY <2>7, <3>1, <3>2 DEF Report
  <2>8. CASE Persist(r)  BY <2>8 DEF Persist, Goes
  <2>9. CASE Unwind(r)  BY <2>9 DEF Unwind, Goes
  <2>10. CASE Interrupt(r)  BY <2>10 DEF Interrupt, Interrupted
  <2>11. CASE Recycle(r)  BY <2>11 DEF Recycle
  <2>12. CASE \E a \in Approval : Ask(r, a)
    BY <2>12 DEF Ask
  <2> QED
    BY <1>2, <2>1, <2>2, <2>3, <2>4, <2>5, <2>6, <2>7, <2>8, <2>9, <2>10, <2>11, <2>12 DEF Turn
<1>3. CASE UNCHANGED vars
  BY <1>3 DEF vars
<1> QED  BY <1>1, <1>2, <1>3 DEF Next

\* No frame closes the stream of a turn that may still stream.
LEMMA ClosedMeansSilentKept == TypeOK /\ Inductive /\ [Next]_vars => ClosedMeansSilent'
<1> SUFFICES ASSUME TypeOK, Inductive, [Next]_vars
             PROVE  ClosedMeansSilent'
  OBVIOUS
<1> USE ConstantsAssumption
    DEF TypeOK, Live, Named, socketVars, turnVars, queueVars, Inductive, BoxNamed, ClosedMeansSilent
<1>1. ASSUME NEW c \in Conn, Socket(c)
      PROVE  ClosedMeansSilent'
  <2>1. CASE Open(c)  BY <2>1 DEF Open
  <2>2. CASE Leave(c)  BY <2>2 DEF Leave
  <2>3. CASE Close(c)  BY <2>3 DEF Close
  <2>4. CASE CancelFrame(c)  BY <2>4 DEF CancelFrame, Busy
  <2>5. CASE Join(c)  BY <2>5 DEF Join, Busy
  <2>6. CASE Answer(c)  BY <2>6 DEF Answer, Reaches
  <2>7. CASE Pump(c)  BY <2>7 DEF Pump
  <2>8. ASSUME NEW r \in Run, UserMessage(c, r)
        PROVE  ClosedMeansSilent'
    BY <2>8 DEF UserMessage, Reaches, Busy, TurnOwned
  <2> QED  BY <1>1, <2>1, <2>2, <2>3, <2>4, <2>5, <2>6, <2>7, <2>8 DEF Socket
<1>2. ASSUME NEW r \in Run, Turn(r)
      PROVE  ClosedMeansSilent'
  <2>1. CASE LoadEnds(r)  BY <2>1 DEF LoadEnds, Goes
  <2>2. CASE Name(r)  BY <2>2 DEF Name, Goes
  <2>3. CASE Stream(r)  BY <2>3 DEF Stream, Goes
  <2>4. CASE LastEvent(r)  BY <2>4 DEF LastEvent, Goes, Reaches
  <2>5. CASE Complete(r)  BY <2>5 DEF Complete, Goes
  <2>6. CASE Raise(r)  BY <2>6 DEF Raise, Goes
  <2>7. CASE Report(r)  BY <2>7 DEF Report, Goes, Reaches
  <2>8. CASE Persist(r)  BY <2>8 DEF Persist, Goes
  <2>9. CASE Unwind(r)  BY <2>9 DEF Unwind, Goes
  <2>10. CASE Interrupt(r)  BY <2>10 DEF Interrupt, Interrupted
  <2>11. CASE Recycle(r)  BY <2>11 DEF Recycle
  <2>12. CASE \E a \in Approval : Ask(r, a)
    BY <2>12 DEF Ask
  <2> QED
    BY <1>2, <2>1, <2>2, <2>3, <2>4, <2>5, <2>6, <2>7, <2>8, <2>9, <2>10, <2>11, <2>12 DEF Turn
<1>3. CASE UNCHANGED vars
  BY <1>3 DEF vars
<1> QED  BY <1>1, <1>2, <1>3 DEF Next

\* A turn whose client is there comes to its end with a frame.
LEMMA EndToldKept == TypeOK /\ Inductive /\ [Next]_vars => EndTold'
<1> SUFFICES ASSUME TypeOK, Inductive, [Next]_vars
             PROVE  EndTold'
  OBVIOUS
<1> USE ConstantsAssumption
    DEF TypeOK, Live, Named, socketVars, turnVars, queueVars, Inductive, TurnOwned, RunningTurnCanBeStopped, BoxNamed, EndTold, Excused
<1>1. ASSUME NEW c \in Conn, Socket(c)
      PROVE  EndTold'
  <2>1. CASE Open(c)  BY <2>1 DEF Open
  <2>2. CASE Leave(c)  BY <2>2 DEF Leave
  <2>3. CASE Close(c)
    <3>1. SUFFICES ASSUME NEW s \in Run, at[s] # "none", sock'[owner[s]] = "open"
                   PROVE  /\ at[s] \in {"ending", "persisting"} => s \in told
                          /\ at[s] \in {"unwinding", "over"} => Excused(s)'
                          /\ s \in doomed' /\ at[s] \in {"registering", "streaming", "failing"}
                                => Excused(s)'
      BY <2>3 DEF Close
    <3>2. owner[s] # c /\ sock[owner[s]] = "open" /\ owner[s] \in Conn
      BY <2>3, <3>1 DEF Close
    <3>3. Excused(s) => Excused(s)'
      BY <2>3, <3>2 DEF Close
    <3>4. s \in doomed' /\ at[s] \in Live => s \in doomed
      BY <2>3, <3>2 DEF Close
    <3> QED  BY <2>3, <3>1, <3>2, <3>3, <3>4 DEF Close
  <2>4. CASE CancelFrame(c)
    <3>1. SUFFICES ASSUME NEW s \in Run, at[s] # "none", sock[owner[s]] = "open"
                   PROVE  /\ Excused(s) => Excused(s)'
                          /\ s \in doomed' /\ s \notin doomed
                             /\ at[s] \in {"registering", "streaming", "failing"} => Excused(s)'
      BY <2>4, <3>1 DEF CancelFrame
    <3>2. loop[c] = "reading" /\ stop' = [stop EXCEPT ![c] = box[c]]
          /\ told' = told /\ recycled' = recycled /\ owner' = owner
      BY <2>4 DEF CancelFrame
    <3>3. \A d \in Conn \ {c} : loop'[d] = loop[d]
      BY <2>4 DEF CancelFrame
    <3>4. Excused(s) => Excused(s)'
      BY <3>1, <3>2, <3>3
    <3>5. s \in doomed' /\ s \notin doomed /\ at[s] \in {"registering", "streaming", "failing"}
            => Excused(s)'
      <4> SUFFICES ASSUME s \in doomed', s \notin doomed,
                          at[s] \in {"registering", "streaming", "failing"}
                   PROVE  Excused(s)'
        OBVIOUS
      <4>1. Busy(c) /\ s = turnOf[c] /\ owner[s] = c /\ loop'[c] = "joining"
        BY <2>4 DEF CancelFrame, Busy
      <4>2. box[c] = s
        BY <3>1, <4>1
      <4> QED  BY <3>2, <4>1, <4>2
    <3> QED  BY <3>4, <3>5
  <2>5. CASE Join(c)  BY <2>5 DEF Join, Busy
  <2>6. CASE Answer(c)  BY <2>6 DEF Answer, Reaches
  <2>7. CASE Pump(c)  BY <2>7 DEF Pump
  <2>8. ASSUME NEW r \in Run, UserMessage(c, r)
        PROVE  EndTold'
    BY <2>8 DEF UserMessage, Reaches, Busy
  <2> QED  BY <1>1, <2>1, <2>2, <2>3, <2>4, <2>5, <2>6, <2>7, <2>8 DEF Socket
<1>2. ASSUME NEW r \in Run, Turn(r)
      PROVE  EndTold'
  <2>1. CASE LoadEnds(r)  BY <2>1 DEF LoadEnds, Goes
  <2>2. CASE Name(r)  BY <2>2 DEF Name, Goes
  <2>3. CASE Stream(r)  BY <2>3 DEF Stream, Goes
  <2>4. CASE LastEvent(r)  BY <2>4 DEF LastEvent, Goes, Reaches
  <2>5. CASE Complete(r)  BY <2>5 DEF Complete, Goes
  <2>6. CASE Raise(r)  BY <2>6 DEF Raise, Goes
  <2>7. CASE Report(r)  BY <2>7 DEF Report, Goes, Reaches
  <2>8. CASE Persist(r)  BY <2>8 DEF Persist, Goes
  <2>9. CASE Unwind(r)  BY <2>9 DEF Unwind, Goes
  <2>10. CASE Interrupt(r)  BY <2>10 DEF Interrupt, Interrupted
  <2>11. CASE Recycle(r)  BY <2>11 DEF Recycle
  <2>12. CASE \E a \in Approval : Ask(r, a)
    BY <2>12 DEF Ask
  <2> QED
    BY <1>2, <2>1, <2>2, <2>3, <2>4, <2>5, <2>6, <2>7, <2>8, <2>9, <2>10, <2>11, <2>12 DEF Turn
<1>3. CASE UNCHANGED vars
  BY <1>3 DEF vars
<1> QED  BY <1>1, <1>2, <1>3 DEF Next

\* The invariant and the types hold throughout.
LEMMA InductiveHolds == Spec => [](TypeOK /\ Inductive)
<1>1. Init => TypeOK /\ Inductive
  BY ConstantsAssumption
     DEF Init, TypeOK, Live, Inductive, TurnOwned, RunningTurnCanBeStopped, BoxNamed,
         ClosedMeansSilent, EndTold
<1>2. TypeOK /\ Inductive /\ [Next]_vars => (TypeOK /\ Inductive)'
  <2> SUFFICES ASSUME TypeOK, Inductive, [Next]_vars
               PROVE  TypeOK' /\ Inductive'
    OBVIOUS
  <2>1. TypeOK'
    BY NextTyped
  <2>2. TurnOwned' /\ RunningTurnCanBeStopped' /\ BoxNamed'
    BY TurnOwnedKept, RunningTurnCanBeStoppedKept, BoxNamedKept
  <2>3. ClosedMeansSilent' /\ EndTold'
    BY ClosedMeansSilentKept, EndToldKept
  <2> QED  BY <2>1, <2>2, <2>3 DEF Inductive
<1> QED  BY <1>1, <1>2, PTL DEF Spec

\* A stop reaches the turn it is meant for: one turn per connection, and its run id in
\* the box from the registration to the last event.
THEOREM RunningTurnCanBeStoppedHolds == Spec => []RunningTurnCanBeStopped
  BY InductiveHolds, PTL DEF Inductive

\* No event of a run follows the frame that closes its stream.
THEOREM ClosedMeansSilentHolds == Spec => []ClosedMeansSilent
  BY InductiveHolds, PTL DEF Inductive

\* A client that stays gets a closing frame for every run that ended, or is about to,
\* unless the console recycled it.
THEOREM EndsWithFrameHolds == Spec => []EndsWithFrame
<1>1. TypeOK /\ Inductive => EndsWithFrame
  BY ConstantsAssumption DEF TypeOK, Inductive, EndTold, Excused, EndsWithFrame
<1> QED  BY <1>1, InductiveHolds, PTL

-----------------------------------------------------------------------------
(* The queue of approval requests.                                         *)

\* A connection that is there when another closes counts as bereft, and only a close
\* takes the session's entry away.
LEMMA QueueSharedKept == TypeOK /\ QueueShared /\ [Next]_vars => QueueShared'
<1> SUFFICES ASSUME TypeOK, QueueShared, [Next]_vars
             PROVE  QueueShared'
  OBVIOUS
<1> USE ConstantsAssumption DEF TypeOK, QueueShared, socketVars, turnVars, queueVars
<1>1. ASSUME NEW c \in Conn, Socket(c)
      PROVE  QueueShared'
  <2>1. CASE Open(c)         BY <2>1 DEF Open
  <2>2. CASE Leave(c)        BY <2>2 DEF Leave
  <2>3. CASE Close(c)        BY <2>3 DEF Close
  <2>4. CASE CancelFrame(c)  BY <2>4 DEF CancelFrame
  <2>5. CASE Join(c)         BY <2>5 DEF Join
  <2>6. CASE Answer(c)       BY <2>6 DEF Answer
  <2>7. CASE Pump(c)
    <3>1. ASSUME NEW d \in Conn, NEW i \in 1 .. Len(queue'[d])
          PROVE  asked'[queue'[d][i]] # "none"
      <4>1. queue[d] \in Seq(Approval) /\ queue[queueOf[c]] # <<>>
        BY <2>7 DEF Pump
      <4>2. CASE d = queueOf[c]
        <5>1. queue'[d] = Tail(queue[d])
          BY <2>7, <4>2 DEF Pump
        <5>2. i + 1 \in 1 .. Len(queue[d]) /\ queue'[d][i] = queue[d][i + 1]
          BY <4>1, <4>2, <5>1
        <5> QED  BY <2>7, <5>2 DEF Pump
      <4>3. CASE d # queueOf[c]
        BY <2>7, <4>1, <4>3 DEF Pump
      <4> QED  BY <4>2, <4>3
    <3> QED  BY <2>7, <3>1 DEF Pump
  <2>8. CASE \E r \in Run : UserMessage(c, r)
    BY <2>8 DEF UserMessage
  <2> QED  BY <1>1, <2>1, <2>2, <2>3, <2>4, <2>5, <2>6, <2>7, <2>8 DEF Socket
<1>2. ASSUME NEW r \in Run, Turn(r), \A b \in Approval : ~Ask(r, b)
      PROVE  QueueShared'
  <2>1. UNCHANGED <<sock, queueVars>>
    BY <1>2 DEF Turn, LoadEnds, Name, Stream, LastEvent, Complete, Raise, Report, Persist,
                Unwind, Interrupt, Recycle
  <2> QED  BY <2>1
<1>4. ASSUME NEW r \in Run, NEW a \in Approval, Ask(r, a)
      PROVE  QueueShared'
  <2>1. UNCHANGED <<sock, queueOf, shared, outlived>>
    BY <1>4 DEF Ask
  <2>2. ASSUME NEW d \in Conn, NEW i \in 1 .. Len(queue'[d])
        PROVE  asked'[queue'[d][i]] # "none"
    <3>1. queue[d] \in Seq(Approval) /\ asked'[a] # "none"
          /\ \A b \in Approval \ {a} : asked'[b] = asked[b]
      BY <1>4 DEF Ask
    <3>2. CASE queue'[d] = queue[d]
      <4>1. queue[d][i] \in Approval
        BY <3>1, <3>2
      <4> QED  BY <3>1, <3>2, <4>1
    <3>3. CASE queue'[d] = Append(queue[d], a)
      <4>1. CASE i = Len(queue[d]) + 1
        BY <3>1, <3>3, <4>1
      <4>2. CASE i \in 1 .. Len(queue[d])
        <5>1. queue'[d][i] = queue[d][i] /\ queue[d][i] \in Approval
          BY <3>1, <3>3, <4>2
        <5> QED  BY <3>1, <4>2, <5>1
      <4> QED  BY <3>1, <3>3, <4>1, <4>2
    <3> QED  BY <1>4, <3>2, <3>3 DEF Ask
  <2> QED  BY <2>1, <2>2
<1>3. CASE UNCHANGED vars
  BY <1>3 DEF vars
<1> QED  BY <1>1, <1>2, <1>3, <1>4 DEF Next

\* A tab loses an approval request only after another one was closed beside it.
THEOREM MissedOnlyAfterCloseHolds == Spec => MissedOnlyAfterClose
<1>1. Init => TypeOK /\ QueueShared
  BY ConstantsAssumption DEF Init, TypeOK, QueueShared
<1>2. TypeOK /\ QueueShared /\ [Next]_vars => (TypeOK /\ QueueShared)'
  BY NextTyped, QueueSharedKept
<1>3. TypeOK /\ QueueShared /\ [Next]_vars =>
        [\A a \in Approval : \A c \in Conn :
            asked[a] = "none" /\ sock[c] = "open" /\ Len(queue[queueOf[c]]) < QueueLimit
                => asked'[a] \in {"none", "queued"} \/ c \in outlived]_vars
  <2> SUFFICES ASSUME TypeOK, QueueShared, Next,
                      NEW a \in Approval, NEW c \in Conn,
                      asked[a] = "none", sock[c] = "open", c \notin outlived,
                      Len(queue[queueOf[c]]) < QueueLimit
               PROVE  asked'[a] \in {"none", "queued"}
    OBVIOUS
  <2>1. shared = queueOf[c] /\ shared \in Conn
    BY DEF QueueShared
  <2>2. ASSUME NEW d \in Conn, Socket(d), ~Pump(d)
        PROVE  asked' = asked
    BY <2>2 DEF Socket, Open, Leave, Close, CancelFrame, Join, Answer, UserMessage, queueVars
  <2>3. ASSUME NEW d \in Conn, Pump(d)
        PROVE  asked'[a] = "none"
    <3>1. queueOf[d] \in Conn /\ queue[queueOf[d]] # <<>>
      BY <2>3 DEF Pump, QueueShared
    <3>2. queue[queueOf[d]] \in Seq(Approval)
      BY <3>1 DEF TypeOK
    <3>3. Len(queue[queueOf[d]]) > 0 /\ Head(queue[queueOf[d]]) = queue[queueOf[d]][1]
      BY <3>1, <3>2
    <3>4. asked[Head(queue[queueOf[d]])] # "none"
      BY <3>1, <3>2, <3>3 DEF QueueShared
    <3> QED  BY <2>3, <3>4 DEF Pump, TypeOK
  <2>4. ASSUME NEW r \in Run, Turn(r), \A b \in Approval : ~Ask(r, b)
        PROVE  asked' = asked
    BY <2>4 DEF Turn, LoadEnds, Name, Stream, LastEvent, Complete, Raise, Report, Persist,
                Unwind, Interrupt, Recycle, queueVars
  <2>5. ASSUME NEW r \in Run, NEW b \in Approval, Ask(r, b)
        PROVE  asked'[a] \in {"none", "queued"}
    BY <2>1, <2>5, ConstantsAssumption DEF Ask, TypeOK
  <2> QED  BY <2>2, <2>3, <2>4, <2>5 DEF Next
<1> QED  BY <1>1, <1>2, <1>3, PTL DEF Spec, MissedOnlyAfterClose

-----------------------------------------------------------------------------
(* The turns a closed connection leaves behind.                            *)

\* No two turns of a connection live side by side, the closed connection's included.
OneTurn ==
    \A r, s \in Run : at[r] \in Live /\ at[s] \in Live /\ owner[r] = owner[s] => r = s

\* A turn whose connection was closed has its cancellation before it, or it has met it and
\* winds up: it neither loads nor registers nor streams on.
ClosedWindsUp ==
    \A r \in Run : at[r] \in Live /\ sock[owner[r]] = "closed" /\ r \notin doomed
        => at[r] \in {"failing", "unwinding", "persisting"}

\* Where a step of a turn leads: only a turn that lives goes on living, from a stage that
\* winds up to no other, and no turn changes hands.
LEMMA TurnSteps ==
  ASSUME TypeOK, NEW r \in Run, Turn(r)
  PROVE  /\ owner' = owner /\ sock' = sock
         /\ \A s \in Run : at'[s] \in Live => at[s] \in Live
         /\ \A s \in Run : s \in doomed => s \in doomed' \/ at'[s] \notin Live
                                \/ at'[s] \in {"failing", "unwinding"}
         /\ \A s \in Run : s \notin doomed /\ at[s] \in {"failing", "unwinding", "persisting"}
                => at'[s] \notin Live \/ at'[s] \in {"failing", "unwinding", "persisting"}
<1> USE DEF TypeOK, Live, socketVars, Goes
<1>1. CASE LoadEnds(r) \/ Name(r) \/ Stream(r) \/ LastEvent(r)
  BY <1>1 DEF LoadEnds, Name, Stream, LastEvent
<1>2. CASE Complete(r) \/ Raise(r) \/ Report(r)
  BY <1>2 DEF Complete, Raise, Report
<1>3. CASE Persist(r) \/ Unwind(r) \/ Recycle(r)
  BY <1>3 DEF Persist, Unwind, Recycle
<1>4. CASE Interrupt(r)
  BY <1>4 DEF Interrupt, Interrupted
<1>5. CASE \E a \in Approval : Ask(r, a)
  BY <1>5 DEF Ask, turnVars
<1> QED  BY <1>1, <1>2, <1>3, <1>4, <1>5 DEF Turn

\* A message starts a turn when the last one has ended, and a close cancels the turn that
\* has not.
LEMMA TurnsKept ==
  TypeOK /\ Inductive /\ OneTurn /\ ClosedWindsUp /\ [Next]_vars => (OneTurn /\ ClosedWindsUp)'
<1> SUFFICES ASSUME TypeOK, Inductive, OneTurn, ClosedWindsUp, [Next]_vars
             PROVE  OneTurn' /\ ClosedWindsUp'
  OBVIOUS
<1>1. ASSUME NEW r \in Run, Turn(r)
      PROVE  OneTurn' /\ ClosedWindsUp'
  <2>1. OneTurn'
    BY <1>1, TurnSteps DEF OneTurn
  <2>2. ClosedWindsUp'
    BY <1>1, TurnSteps DEF ClosedWindsUp
  <2> QED  BY <2>1, <2>2
<1>2. ASSUME NEW c \in Conn, NEW r \in Run, UserMessage(c, r)
      PROVE  OneTurn' /\ ClosedWindsUp'
  <2>1. \A s \in Run : at[s] \in Live => owner[s] # c
    BY <1>2, ConstantsAssumption
       DEF UserMessage, Busy, Reaches, Inductive, RunningTurnCanBeStopped
  <2>2. /\ owner' = [owner EXCEPT ![r] = c] /\ at' = [at EXCEPT ![r] = "loading"]
        /\ sock[c] = "open" /\ sock' = sock /\ doomed' = doomed
    BY <1>2 DEF UserMessage, Reaches
  <2>3. OneTurn'
    BY <2>1, <2>2 DEF OneTurn, TypeOK
  <2>4. ClosedWindsUp'
    BY <2>2 DEF ClosedWindsUp, TypeOK
  <2> QED  BY <2>3, <2>4
<1>3. ASSUME NEW c \in Conn, Close(c)
      PROVE  OneTurn' /\ ClosedWindsUp'
  <2>1. at' = at /\ owner' = owner /\ sock' = [sock EXCEPT ![c] = "closed"]
        /\ doomed' = doomed \cup {r \in Run : r = turnOf[c] /\ at[r] \in Live}
    BY <1>3 DEF Close
  <2>2. \A r \in Run : at[r] \in Live /\ owner[r] = c => r \in doomed'
    BY <1>3, <2>1 DEF Close, Inductive, RunningTurnCanBeStopped
  <2>3. OneTurn'
    BY <2>1 DEF OneTurn
  <2>4. ClosedWindsUp'
    BY <2>1, <2>2 DEF ClosedWindsUp, TypeOK
  <2> QED  BY <2>3, <2>4
<1>4. ASSUME NEW c \in Conn, Socket(c), ~Close(c), \A r \in Run : ~UserMessage(c, r)
      PROVE  OneTurn' /\ ClosedWindsUp'
  <2>1. at' = at /\ owner' = owner /\ doomed \subseteq doomed'
    BY <1>4 DEF Socket, Open, Leave, CancelFrame, Join, Answer, Pump, turnVars
  <2>2. \A d \in Conn : sock'[d] = "closed" => sock[d] = "closed"
    BY <1>4 DEF Socket, Open, Leave, CancelFrame, Join, Answer, Pump, socketVars, TypeOK
  <2>3. \A r \in Run : at[r] \in Live => owner[r] \in Conn
    BY DEF Inductive, TurnOwned, Live
  <2> QED  BY <2>1, <2>2, <2>3 DEF OneTurn, ClosedWindsUp
<1>5. CASE UNCHANGED vars
  BY <1>5 DEF vars, socketVars, turnVars, OneTurn, ClosedWindsUp
<1> QED  BY <1>1, <1>2, <1>3, <1>4, <1>5 DEF Next

\* Whatever is sent, cancelled, raised or closed and in whatever order, a connection never
\* has two turns at work: the turn that a cancel frame or a failed send has let go of has
\* left Live before its successor starts.
THEOREM OneTurnHolds == Spec => [](OneTurn /\ ClosedWindsUp)
<1>1. Init => OneTurn /\ ClosedWindsUp
  BY DEF Init, OneTurn, ClosedWindsUp, Live
<1> QED  BY <1>1, InductiveHolds, TurnsKept, PTL DEF Spec

-----------------------------------------------------------------------------
(* Where each approval request is.                                         *)

\* Queues stay within their limit and hold requests that nobody has pushed yet, each one
\* once; a request that counts as queued is in a queue.
QueueExact ==
    /\ \A c \in Conn : Len(queue[c]) <= QueueLimit
    /\ \A c \in Conn : \A i \in 1 .. Len(queue[c]) : asked[queue[c][i]] = "queued"
    /\ \A c, d \in Conn : \A i \in 1 .. Len(queue[c]) : \A j \in 1 .. Len(queue[d]) :
          queue[c][i] = queue[d][j] => c = d /\ i = j
    /\ \A a \in Approval : asked[a] = "queued"
          => \E c \in Conn : \E i \in 1 .. Len(queue[c]) : queue[c][i] = a

\* A request goes from "none" to the queue or nowhere, and from the queue to one pump: it
\* is pushed once, or lost once.
RequestStep(a) ==
    /\ asked[a] = "none" => asked'[a] \in {"none", "queued", "lost"}
    /\ asked[a] = "queued" => asked'[a] \in {"queued", "shown", "lost"}
    /\ asked[a] \in {"shown", "lost"} => asked'[a] = asked[a]

\* The tail of a queue is the queue without its first element.
LEMMA TailFacts ==
  ASSUME NEW S, NEW q \in Seq(S), q # <<>>
  PROVE  /\ Tail(q) \in Seq(S) /\ Len(Tail(q)) = Len(q) - 1 /\ Len(q) >= 1
         /\ Head(q) = q[1] /\ Head(q) \in S
         /\ \A i \in 1 .. Len(Tail(q)) : Tail(q)[i] = q[i + 1] /\ i + 1 \in 2 .. Len(q)
         /\ \A i \in 2 .. Len(q) : i - 1 \in 1 .. Len(Tail(q)) /\ q[i] = Tail(q)[i - 1]
  OBVIOUS

\* A request that is appended is the last one; the others stay where they are.
LEMMA AppendFacts ==
  ASSUME NEW S, NEW q \in Seq(S), NEW a \in S
  PROVE  /\ Append(q, a) \in Seq(S) /\ Len(Append(q, a)) = Len(q) + 1
         /\ Append(q, a)[Len(q) + 1] = a
         /\ \A i \in 1 .. Len(q) : Append(q, a)[i] = q[i]
         /\ \A i \in 1 .. Len(Append(q, a)) : i \in 1 .. Len(q) \/ i = Len(q) + 1
         /\ Len(q) + 1 \in 1 .. Len(Append(q, a))
  OBVIOUS

\* A pump takes the request at the head of its queue, which is nowhere else.
LEMMA PumpExact ==
  ASSUME TypeOK, TypeOK', QueueShared, QueueExact, NEW c \in Conn, Pump(c)
  PROVE  QueueExact' /\ \A a \in Approval : RequestStep(a)
<1> DEFINE q == queueOf[c]
           h == Head(queue[q])
<1>1. /\ q \in Conn /\ queue[q] # <<>> /\ queue[q] \in Seq(Approval)
      /\ \A d \in Conn : queue[d] \in Seq(Approval) /\ Len(queue[d]) \in Nat
  BY DEF Pump, QueueShared, TypeOK
<1>2. /\ queue'[q] = Tail(queue[q])
      /\ \A d \in Conn \ {q} : queue'[d] = queue[d]
  BY <1>1 DEF Pump, TypeOK
<1>3. /\ h \in Approval /\ h = queue[q][1] /\ 1 \in 1 .. Len(queue[q])
      /\ \A i \in 1 .. Len(queue'[q]) : queue'[q][i] = queue[q][i + 1] /\ i + 1 \in 2 .. Len(queue[q])
      /\ \A i \in 2 .. Len(queue[q]) : i - 1 \in 1 .. Len(queue'[q]) /\ queue[q][i] = queue'[q][i - 1]
      /\ Len(queue'[q]) = Len(queue[q]) - 1
  BY <1>1, <1>2, TailFacts
<1>4. /\ asked[h] = "queued" /\ asked'[h] \in {"shown", "lost"}
      /\ \A a \in Approval \ {h} : asked'[a] = asked[a]
  <2>1. asked[queue[q][1]] = "queued"
    BY <1>1, <1>3 DEF QueueExact
  <2>2. asked' = [asked EXCEPT ![h] = IF Reaches(c) THEN "shown" ELSE "lost"]
    BY DEF Pump
  <2> QED  BY <1>3, <2>1, <2>2 DEF TypeOK
<1> HIDE DEF q, h
<1>5. ASSUME NEW d \in Conn, NEW i \in 1 .. Len(queue'[d])
      PROVE  \E k \in 1 .. Len(queue[d]) :
                /\ queue'[d][i] = queue[d][k]
                /\ k = IF d = q THEN i + 1 ELSE i
                /\ d = q => k # 1
  <2>1. CASE d = q
    <3>1. i + 1 \in 2 .. Len(queue[q]) /\ queue'[d][i] = queue[q][i + 1]
      BY <1>3, <2>1
    <3>2. i + 1 \in 1 .. Len(queue[q]) /\ i + 1 # 1
      BY <3>1, <1>1
    <3> QED  BY <2>1, <3>1, <3>2
  <2>2. CASE d # q
    BY <1>2, <2>2
  <2> QED  BY <2>1, <2>2
<1>6. ASSUME NEW d \in Conn
      PROVE  Len(queue'[d]) <= QueueLimit
  <2>1. CASE d = q
    BY <1>1, <1>3, <2>1, ConstantsAssumption DEF QueueExact
  <2>2. CASE d # q
    BY <1>2, <2>2 DEF QueueExact
  <2> QED  BY <2>1, <2>2
<1>7. ASSUME NEW d \in Conn, NEW i \in 1 .. Len(queue'[d])
      PROVE  asked'[queue'[d][i]] = "queued"
  <2>1. PICK k \in 1 .. Len(queue[d]) : queue'[d][i] = queue[d][k] /\ (d = q => k # 1)
    BY <1>5
  <2>2. queue[d][k] # h
    BY <1>1, <1>3, <2>1 DEF QueueExact
  <2>3. queue[d][k] \in Approval
    BY <1>1
  <2> QED  BY <1>4, <2>1, <2>2, <2>3 DEF QueueExact
<1>8. ASSUME NEW d \in Conn, NEW e \in Conn,
             NEW i \in 1 .. Len(queue'[d]), NEW j \in 1 .. Len(queue'[e]),
             queue'[d][i] = queue'[e][j]
      PROVE  d = e /\ i = j
  <2>1. PICK k \in 1 .. Len(queue[d]) : queue'[d][i] = queue[d][k] /\ k = IF d = q THEN i + 1 ELSE i
    BY <1>5
  <2>2. PICK l \in 1 .. Len(queue[e]) : queue'[e][j] = queue[e][l] /\ l = IF e = q THEN j + 1 ELSE j
    BY <1>5
  <2>3. queue[d][k] = queue[e][l]
    BY <1>8, <2>1, <2>2
  <2>5. d = e /\ k = l
    BY <2>3 DEF QueueExact
  <2>4. i \in Nat /\ j \in Nat
    BY <1>8, TypeOK' DEF TypeOK
  <2> QED  BY <2>1, <2>2, <2>4, <2>5
<1>9. ASSUME NEW a \in Approval, asked'[a] = "queued"
      PROVE  \E d \in Conn : \E i \in 1 .. Len(queue'[d]) : queue'[d][i] = a
  <2>1. a # h /\ asked[a] = "queued"
    BY <1>4, <1>9
  <2>2. PICK d \in Conn : \E i \in 1 .. Len(queue[d]) : queue[d][i] = a
    BY <2>1 DEF QueueExact
  <2>3. PICK i \in 1 .. Len(queue[d]) : queue[d][i] = a
    BY <2>2
  <2>4. CASE d = q
    <3>1. i \in 2 .. Len(queue[q])
      BY <1>1, <1>3, <2>1, <2>3, <2>4
    <3>2. i - 1 \in 1 .. Len(queue'[d]) /\ queue'[d][i - 1] = a
      BY <1>3, <2>3, <2>4, <3>1
    <3> QED  BY <3>2
  <2>5. CASE d # q
    BY <1>2, <2>3, <2>5
  <2> QED  BY <2>4, <2>5
<1>10. \A a \in Approval : RequestStep(a)
  BY <1>4 DEF RequestStep, TypeOK
<1> QED  BY <1>6, <1>7, <1>8, <1>9, <1>10 DEF QueueExact

\* A request enters the session's queue at its end, when there is room.
LEMMA AskExact ==
  ASSUME TypeOK, TypeOK', QueueExact, NEW r \in Run, NEW b \in Approval, Ask(r, b)
  PROVE  QueueExact' /\ \A a \in Approval : RequestStep(a)
<1>1. \A d \in Conn : queue[d] \in Seq(Approval) /\ Len(queue[d]) \in Nat
  BY DEF TypeOK
<1>2. asked[b] = "none" /\ \A a \in Approval \ {b} : asked'[a] = asked[a]
  BY DEF Ask, TypeOK
<1>3. \A d \in Conn : \A i \in 1 .. Len(queue[d]) : queue[d][i] \in Approval \ {b}
  BY <1>1, <1>2 DEF QueueExact
<1>4. CASE queue' = queue /\ asked'[b] = "lost"
  <2>1. QueueExact'
    BY <1>1, <1>2, <1>3, <1>4 DEF QueueExact
  <2>2. \A a \in Approval : RequestStep(a)
    BY <1>2, <1>4 DEF RequestStep, TypeOK
  <2> QED  BY <2>1, <2>2
<1>5. CASE /\ shared \in Conn /\ Len(queue[shared]) < QueueLimit
           /\ queue' = [queue EXCEPT ![shared] = Append(queue[shared], b)]
           /\ asked'[b] = "queued"
  <2> DEFINE n == Len(queue[shared]) + 1
  <2>1. /\ queue'[shared] = Append(queue[shared], b)
        /\ \A d \in Conn \ {shared} : queue'[d] = queue[d]
    BY <1>5 DEF TypeOK
  <2>2. /\ Len(queue'[shared]) = n /\ queue'[shared][n] = b /\ n \in 1 .. Len(queue'[shared])
        /\ \A i \in 1 .. Len(queue[shared]) :
              i \in 1 .. Len(queue'[shared]) /\ queue'[shared][i] = queue[shared][i]
        /\ \A i \in 1 .. Len(queue'[shared]) : i \in 1 .. Len(queue[shared]) \/ i = n
    BY <1>1, <1>5, <2>1, AppendFacts
  <2>3. n <= QueueLimit
    BY <1>1, <1>5, ConstantsAssumption
  <2> HIDE DEF n
  <2>4. ASSUME NEW d \in Conn, NEW i \in 1 .. Len(queue'[d])
        PROVE  \/ i \in 1 .. Len(queue[d]) /\ queue'[d][i] = queue[d][i]
               \/ d = shared /\ i = n /\ queue'[d][i] = b
    BY <1>5, <2>1, <2>2
  <2>5. \A d \in Conn : Len(queue'[d]) <= QueueLimit
    BY <1>5, <2>1, <2>2, <2>3 DEF QueueExact
  <2>6. ASSUME NEW d \in Conn, NEW i \in 1 .. Len(queue'[d])
        PROVE  asked'[queue'[d][i]] = "queued"
    BY <1>2, <1>3, <1>5, <2>4 DEF QueueExact
  <2>7. ASSUME NEW d \in Conn, NEW e \in Conn,
               NEW i \in 1 .. Len(queue'[d]), NEW j \in 1 .. Len(queue'[e]),
               queue'[d][i] = queue'[e][j]
        PROVE  d = e /\ i = j
    BY <1>3, <2>4, <2>7 DEF QueueExact
  <2>8. ASSUME NEW a \in Approval, asked'[a] = "queued"
        PROVE  \E d \in Conn : \E i \in 1 .. Len(queue'[d]) : queue'[d][i] = a
    <3>1. CASE a = b
      BY <1>5, <2>2, <3>1
    <3>2. CASE a # b
      <4>1. PICK d \in Conn : \E i \in 1 .. Len(queue[d]) : queue[d][i] = a
        BY <1>2, <2>8, <3>2 DEF QueueExact
      <4>2. PICK i \in 1 .. Len(queue[d]) : queue[d][i] = a
        BY <4>1
      <4>3. i \in 1 .. Len(queue'[d]) /\ queue'[d][i] = a
        BY <2>1, <2>2, <4>2
      <4> QED  BY <4>3
    <3> QED  BY <3>1, <3>2
  <2>9. \A a \in Approval : RequestStep(a)
    BY <1>2, <1>5 DEF RequestStep, TypeOK
  <2> QED  BY <2>5, <2>6, <2>7, <2>8, <2>9 DEF QueueExact
<1> QED  BY <1>4, <1>5, ConstantsAssumption DEF Ask, TypeOK

\* Two tabs that pump one queue, a tab that closes and a turn that outlives its tab push
\* each approval request at most once, and no request vanishes from a queue unpushed.
THEOREM RequestPushedOnce ==
  Spec => []QueueExact /\ [][\A a \in Approval : RequestStep(a)]_vars
<1>1. Init => TypeOK /\ QueueShared /\ QueueExact
  BY ConstantsAssumption DEF Init, TypeOK, QueueShared, QueueExact
<1>2. TypeOK /\ QueueShared /\ QueueExact /\ [Next]_vars =>
        /\ TypeOK' /\ QueueShared' /\ QueueExact'
        /\ [\A a \in Approval : RequestStep(a)]_vars
  <2> SUFFICES ASSUME TypeOK, QueueShared, QueueExact, [Next]_vars
               PROVE  QueueExact' /\ [\A a \in Approval : RequestStep(a)]_vars
    BY NextTyped, QueueSharedKept
  <2>1. TypeOK'
    BY NextTyped
  <2>2. ASSUME NEW c \in Conn, Pump(c)
        PROVE  QueueExact' /\ \A a \in Approval : RequestStep(a)
    BY <2>1, <2>2, PumpExact
  <2>3. ASSUME NEW r \in Run, NEW b \in Approval, Ask(r, b)
        PROVE  QueueExact' /\ \A a \in Approval : RequestStep(a)
    BY <2>1, <2>3, AskExact
  <2>4. CASE UNCHANGED <<queue, asked>>
    <3>1. QueueExact'
      BY <2>4 DEF QueueExact
    <3>2. \A a \in Approval : RequestStep(a)
      BY <2>4 DEF RequestStep, TypeOK
    <3> QED  BY <3>1, <3>2
  <2>5. ASSUME NEW c \in Conn, Socket(c), ~Pump(c)
        PROVE  UNCHANGED <<queue, asked>>
    BY <2>5 DEF Socket, Open, Leave, Close, CancelFrame, Join, Answer, UserMessage, queueVars
  <2>6. ASSUME NEW r \in Run, Turn(r), \A b \in Approval : ~Ask(r, b)
        PROVE  UNCHANGED <<queue, asked>>
    BY <2>6 DEF Turn, LoadEnds, Name, Stream, LastEvent, Complete, Raise, Report, Persist,
                Unwind, Interrupt, Recycle, queueVars
  <2>7. CASE UNCHANGED vars
    BY <2>4, <2>7 DEF vars, queueVars
  <2> QED  BY <2>2, <2>3, <2>4, <2>5, <2>6, <2>7 DEF Next
<1> QED  BY <1>1, <1>2, PTL DEF Spec

=============================================================================
