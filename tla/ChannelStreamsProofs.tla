------------------------ MODULE ChannelStreamsProofs ------------------------
(***************************************************************************)
(* Proofs about the stream supervisor, for any channels, configurations    *)
(* and editing requests.                                                   *)
(***************************************************************************)
EXTENDS ChannelStreams, TLAPS

PassState == [pc : {"off", "ready", "listed", "visiting", "stopping"},
              rows : [Channel -> Maybe],
              todo : SUBSET Channel,
              at : SUBSET Channel]

\* A pass that is off is in a state of a pass.
LEMMA OffTyped == Off \in PassState
BY DEF Off, PassState, Empty, Maybe

\* What _start_channel_locked does to a well-typed table.
LEMMA StartKeeps ==
    ASSUME TypeOK, NEW c \in Channel, NEW v \in Maybe, Start(c, v)
    PROVE  /\ entry' \in [Channel -> Runnable \cup {None}]
           /\ skip' \in [Channel -> (Config \ Runnable) \cup {None}]
           /\ ended' = ended
           /\ SkippedHasNoStream => SkippedHasNoStream'
<1> USE ConstantsAssumption DEF TypeOK, SkippedHasNoStream
<1>1. CASE entry[c] # None \/ v = None
  BY <1>1 DEF Start, table
<1>2. CASE ~(entry[c] # None \/ v = None)
  <2>1. CASE v \in Runnable
    <3>1. entry' = [entry EXCEPT ![c] = v] /\ skip' = [skip EXCEPT ![c] = None] /\ ended' = ended
      BY <1>2, <2>1 DEF Start, table
    <3> QED  BY <2>1, <3>1
  <2>2. CASE v \notin Runnable
    <3>1. entry' = entry /\ skip' = [skip EXCEPT ![c] = v] /\ ended' = ended
      BY <1>2, <2>2 DEF Start, table
    <3>2. entry[c] = None /\ v \in Config \ Runnable
      BY <1>2, <2>2 DEF Maybe
    <3> QED  BY <3>1, <3>2
  <2> QED  BY <2>1, <2>2
<1> QED  BY <1>1, <1>2

\* What the first half of stop_channel does to it.
LEMMA PopKeeps ==
    ASSUME TypeOK, NEW c \in Channel, Pop(c)
    PROVE  /\ entry' \in [Channel -> Runnable \cup {None}]
           /\ skip' \in [Channel -> (Config \ Runnable) \cup {None}]
           /\ ended' \subseteq Channel
           /\ SkippedHasNoStream => SkippedHasNoStream'
BY DEF TypeOK, SkippedHasNoStream, Pop

\* A pass keeps types and markers, and touches nothing once it is off.
LEMMA ReconcileKeeps ==
    ASSUME Inductive, NEW p \in Pass, Reconcile(p)
    PROVE  /\ TypeOK' /\ SkippedHasNoStream'
           /\ StopLeavesNothing' /\ StoppedIsStill'
<1> USE ConstantsAssumption DEF Inductive
<1>0. pass[p].pc # "off"
  BY DEF Reconcile, List, ListFails, Prune, Visit, Replace, EndPass
<1>1. StopLeavesNothing' /\ StoppedIsStill'
  <2>1. ~(up \in {"stopping", "stopped"} /\ ~swallowed)
    BY <1>0 DEF StoppedIsStill
  <2>2. up' = up /\ swallowed' = swallowed
    BY DEF Reconcile, List, ListFails, Prune, Visit, Replace, EndPass, life
  <2> QED  BY <2>1, <2>2 DEF StopLeavesNothing, StoppedIsStill
<1>2. CASE List(p)
  BY <1>1, <1>2 DEF List, TypeOK, SkippedHasNoStream, table, life
<1>3. CASE ListFails(p)
  BY <1>1, <1>3 DEF ListFails, TypeOK, SkippedHasNoStream, table, life, Off, Empty, Maybe
<1>4. CASE Prune(p)
  <2>1. TypeOK'
    <3>1. entry' \in [Channel -> Runnable \cup {None}]
      BY <1>4 DEF Prune, TypeOK
    <3>2. skip' \in [Channel -> (Config \ Runnable) \cup {None}]
      BY <1>4 DEF Prune, TypeOK
    <3>3. ended' \subseteq Channel
      BY <1>4 DEF Prune, TypeOK
    <3>4. pass' \in [Pass -> PassState]
      <4>1. pass \in [Pass -> PassState]
        BY DEF TypeOK, PassState
      <4>2. [pass[p] EXCEPT !.pc = "visiting"] \in PassState
        BY <4>1 DEF PassState
      <4>3. pass' = [pass EXCEPT ![p] = [pass[p] EXCEPT !.pc = "visiting"]]
        BY <1>4, <4>1 DEF Prune
      <4> QED  BY <4>1, <4>2, <4>3
    <3> QED  BY <1>4, <3>1, <3>2, <3>3, <3>4 DEF Prune, TypeOK, PassState, life
  <2>2. SkippedHasNoStream'
    BY <1>4 DEF Prune, TypeOK, SkippedHasNoStream
  <2> QED  BY <1>1, <2>1, <2>2
<1>5. ASSUME NEW c \in Channel, Visit(p, c)
      PROVE  TypeOK' /\ SkippedHasNoStream'
  <2> DEFINE v == pass[p].rows[c]
  <2>1. v \in Maybe
    BY DEF TypeOK
  <2>2. CASE skip[c] # v /\ entry[c] \notin {None, v}
    <3>1. Pop(c)
      BY <1>5, <2>2 DEF Visit
    <3>2. /\ entry' \in [Channel -> Runnable \cup {None}]
          /\ skip' \in [Channel -> (Config \ Runnable) \cup {None}]
          /\ ended' \subseteq Channel
          /\ SkippedHasNoStream'
      BY <3>1, PopKeeps
    <3> QED  BY <1>5, <2>2, <3>2, SMTT(20) DEF Visit, TypeOK, life
  <2>3. CASE ~(skip[c] # v /\ entry[c] \notin {None, v})
    <3>1. /\ entry' \in [Channel -> Runnable \cup {None}]
          /\ skip' \in [Channel -> (Config \ Runnable) \cup {None}]
          /\ ended' = ended
          /\ SkippedHasNoStream'
      <4>1. CASE skip[c] # v /\ entry[c] = None
        BY <1>5, <2>1, <2>3, <4>1, StartKeeps DEF Visit
      <4>2. CASE ~(skip[c] # v /\ entry[c] = None)
        BY <1>5, <2>3, <4>2 DEF Visit, table, TypeOK, SkippedHasNoStream
      <4> QED  BY <4>1, <4>2
    <3>2. pass' = [pass EXCEPT ![p].todo = @ \ {c}]
      BY <1>5, <2>3 DEF Visit
    <3>3. UNCHANGED <<row, handler, life, edits>>
      BY <1>5 DEF Visit
    <3>4. ended' \subseteq Channel
      BY <3>1 DEF TypeOK
    <3>5. pass' \in [Pass -> PassState]
      <4>1. pass \in [Pass -> PassState]
        BY DEF TypeOK, PassState
      <4>2. [pass[p] EXCEPT !.todo = pass[p].todo \ {c}] \in PassState
        BY <4>1 DEF PassState
      <4>3. pass' = [pass EXCEPT ![p] = [pass[p] EXCEPT !.todo = pass[p].todo \ {c}]]
        BY <3>2, <4>1
      <4> QED  BY <4>1, <4>2, <4>3
    <3> QED  BY <3>1, <3>3, <3>4, <3>5 DEF TypeOK, PassState, life
  <2> QED  BY <2>2, <2>3
<1>6. CASE Replace(p)
  <2>1. PICK c \in pass[p].at : Start(c, pass[p].rows[c])
    BY <1>6 DEF Replace
  <2>2. c \in Channel /\ pass[p].rows[c] \in Maybe
    BY DEF TypeOK
  <2>3. /\ entry' \in [Channel -> Runnable \cup {None}]
        /\ skip' \in [Channel -> (Config \ Runnable) \cup {None}]
        /\ ended' = ended
        /\ SkippedHasNoStream'
    BY <2>1, <2>2, StartKeeps
  <2> QED  BY <1>1, <1>6, <2>3, SMTT(20) DEF Replace, TypeOK, life
<1>7. CASE EndPass(p)
  BY <1>1, <1>7 DEF EndPass, TypeOK, SkippedHasNoStream, table, life, Ready, Off, Empty, Maybe
<1> QED  BY <1>1, <1>2, <1>3, <1>4, <1>5, <1>6, <1>7 DEF Reconcile

\* So does a request, which is idle once the process stops.
LEMMA EditKeeps ==
    ASSUME Inductive, NEW h \in Handler, Edit(h)
    PROVE  Inductive'
<1> USE ConstantsAssumption DEF Inductive
<1>1. ASSUME NEW c \in Channel, NEW v \in Maybe, Commit(h, c, v)
      PROVE  Inductive'
  <2>1. TypeOK'
    BY <1>1 DEF Commit, TypeOK, table, life, Free, Maybe
  <2>2. SkippedHasNoStream' /\ StopLeavesNothing'
    BY <1>1 DEF Commit, SkippedHasNoStream, StopLeavesNothing, table, life
  <2>3. StoppedIsStill'
    <3>1. up' = up /\ swallowed' = swallowed /\ pass' = pass /\ entry' = entry /\ ended' = ended
      BY <1>1 DEF Commit, table, life
    <3>2. CASE up = "up"
      BY <3>1, <3>2 DEF StoppedIsStill
    <3>3. CASE up # "up"
      BY <1>1, <3>1, <3>3 DEF StoppedIsStill, Commit, Free, TypeOK
    <3> QED  BY <3>2, <3>3
  <2> QED  BY <2>1, <2>2, <2>3
<1>2. CASE Notify(h)
  <2>1. ~(up \in {"stopping", "stopped"} /\ ~swallowed)
    BY <1>2 DEF Notify, StoppedIsStill
  <2>2. up' = up /\ swallowed' = swallowed
    BY <1>2 DEF Notify, life
  <2>3. PICK c \in handler[h].at :
          IF entry[c] # None
            THEN /\ Pop(c)
                 /\ handler' = [handler EXCEPT ![h].pc = "stopping"]
            ELSE /\ handler' = [handler EXCEPT ![h] = Free]
                 /\ IF Asked(h) # None
                      THEN Start(c, Asked(h))
                      ELSE skip' = [skip EXCEPT ![c] = None] /\ UNCHANGED <<entry, ended>>
    BY <1>2 DEF Notify
  <2>4. c \in Channel /\ Asked(h) \in Maybe
    BY DEF TypeOK, Asked, Maybe
  <2>5. handler' \in [Handler -> [pc : {"idle", "committed", "stopping"},
                                  at : SUBSET Channel, config : Maybe]]
    BY <2>3, SMTT(20) DEF TypeOK, Free, Maybe
  <2>6. /\ entry' \in [Channel -> Runnable \cup {None}]
        /\ skip' \in [Channel -> (Config \ Runnable) \cup {None}]
        /\ ended' \subseteq Channel
        /\ SkippedHasNoStream'
    <3>1. CASE entry[c] # None
      BY <2>3, <2>4, <3>1, PopKeeps
    <3>2. CASE entry[c] = None /\ Asked(h) # None
      <4>1. ended \subseteq Channel
        BY DEF TypeOK
      <4> QED  BY <2>3, <2>4, <3>2, <4>1, StartKeeps
    <3>3. CASE entry[c] = None /\ Asked(h) = None
      BY <2>3, <2>4, <3>3 DEF TypeOK, SkippedHasNoStream
    <3> QED  BY <3>1, <3>2, <3>3
  <2>7. TypeOK'
    BY <1>2, <2>5, <2>6 DEF Notify, TypeOK, life
  <2> QED  BY <2>1, <2>2, <2>6, <2>7 DEF StopLeavesNothing, StoppedIsStill
<1>3. CASE Restart(h)
  <2>1. ~(up \in {"stopping", "stopped"} /\ ~swallowed)
    BY <1>3 DEF Restart, StoppedIsStill
  <2>2. up' = up /\ swallowed' = swallowed
    BY <1>3 DEF Restart, life
  <2>3. PICK c \in handler[h].at : Start(c, Asked(h))
    BY <1>3 DEF Restart
  <2>4. c \in Channel /\ Asked(h) \in Maybe
    BY DEF TypeOK, Asked, Maybe
  <2>5. /\ entry' \in [Channel -> Runnable \cup {None}]
        /\ skip' \in [Channel -> (Config \ Runnable) \cup {None}]
        /\ ended' = ended
        /\ SkippedHasNoStream'
    BY <2>3, <2>4, StartKeeps
  <2>6. TypeOK'
    BY <1>3, <2>5 DEF Restart, TypeOK, life, Free, Maybe
  <2> QED  BY <2>1, <2>2, <2>5, <2>6 DEF StopLeavesNothing, StoppedIsStill
<1>4. CASE Abandon(h)
  <2>1. TypeOK'
    BY <1>4 DEF Abandon, TypeOK, table, life, Free, Maybe
  <2> QED
    BY <1>4, <2>1 DEF Abandon, SkippedHasNoStream, StopLeavesNothing, StoppedIsStill, table, life,
                      Free, TypeOK
<1> QED  BY <1>1, <1>2, <1>3, <1>4 DEF Edit

\* And so does the life of the process.
LEMMA LifeKeeps ==
    ASSUME Inductive, StartAll \/ StopAll \/ StopReturns \/ Exit
    PROVE  Inductive'
<1> USE ConstantsAssumption DEF Inductive
<1>1. CASE StartAll
  <2>1. TypeOK'
    BY <1>1 DEF StartAll, TypeOK, table, Ready, Off, Empty, Maybe
  <2> QED
    BY <1>1, <2>1 DEF StartAll, SkippedHasNoStream, StopLeavesNothing, StoppedIsStill, table
<1>2. CASE StopAll
  <2>1. TypeOK'
    <3>1. pass' \in [Pass -> PassState]
      BY <1>2, OffTyped DEF StopAll, TypeOK, PassState, Pass
    <3>2. ended' \subseteq Channel /\ swallowed' \in BOOLEAN /\ stops' \in 0..MaxStops
      BY <1>2 DEF StopAll, TypeOK
    <3> QED  BY <1>2, <3>1, <3>2 DEF StopAll, TypeOK, PassState
  <2>2. SkippedHasNoStream' /\ StopLeavesNothing'
    BY <1>2 DEF StopAll, SkippedHasNoStream, StopLeavesNothing
  <2>3. StoppedIsStill'
    <3> SUFFICES ASSUME ~swallowed'
                 PROVE  /\ \A p \in Pass : pass'[p].pc = "off"
                        /\ \A h \in Handler : handler'[h].pc = "idle"
                        /\ \A c \in Channel : entry'[c] # None => c \in ended'
      BY DEF StoppedIsStill
    <3>1. pass["supervisor"].pc # "stopping"
      BY <1>2 DEF StopAll
    <3>2. pass'["supervisor"] = Off /\ pass'["boot"] = Off
      BY <1>2, <3>1 DEF StopAll, TypeOK, Pass
    <3>3. \A p \in Pass : pass'[p].pc = "off"
      BY <3>2 DEF Off, Pass
    <3> QED  BY <1>2, <3>3 DEF StopAll
  <2> QED  BY <2>1, <2>2, <2>3
<1>3. CASE StopReturns
  <2>1. TypeOK'
    BY <1>3 DEF StopReturns, TypeOK, Empty
  <2>2. SkippedHasNoStream' /\ StopLeavesNothing' /\ StoppedIsStill'
    BY <1>3 DEF StopReturns, SkippedHasNoStream, StopLeavesNothing, StoppedIsStill, Empty
  <2> QED  BY <2>1, <2>2
<1>4. CASE Exit
  <2>1. TypeOK'
    <3>1. pass' \in [Pass -> PassState]
      BY <1>4, OffTyped DEF Exit
    <3>2. handler' \in [Handler -> [pc : {"idle", "committed", "stopping"},
                                    at : SUBSET Channel, config : Maybe]]
      BY <1>4 DEF Exit, Free, Maybe
    <3>3. stops' \in 0..MaxStops
      BY <1>4 DEF Exit, TypeOK
    <3> QED  BY <1>4, <3>1, <3>2, <3>3 DEF Exit, TypeOK, PassState, Empty
  <2> QED
    BY <1>4, <2>1 DEF Exit, SkippedHasNoStream, StopLeavesNothing, StoppedIsStill, Empty
<1> QED  BY <1>1, <1>2, <1>3, <1>4

\* The strengthened invariant holds in every reachable state.
THEOREM InductiveHolds == Spec => []Inductive
<1>1. Init => Inductive
  <2> SUFFICES ASSUME Init
               PROVE  Inductive
    OBVIOUS
  <2> USE ConstantsAssumption DEF Init
  <2>1. pass \in [Pass -> PassState]
    BY OffTyped
  <2>2. handler \in [Handler -> [pc : {"idle", "committed", "stopping"},
                                 at : SUBSET Channel, config : Maybe]]
    BY DEF Free, Maybe
  <2>3. TypeOK
    <3>1. row \in [Channel -> Maybe] /\ up = "down" /\ edits \in 0..MaxEdits /\ stops \in 0..MaxStops
      OBVIOUS
    <3>2. /\ entry \in [Channel -> Runnable \cup {None}]
          /\ skip \in [Channel -> (Config \ Runnable) \cup {None}]
      BY DEF Empty
    <3> QED  BY <2>1, <2>2, <3>1, <3>2 DEF TypeOK, PassState
  <2> QED  BY <2>3 DEF Inductive, SkippedHasNoStream, StopLeavesNothing, StoppedIsStill, Empty
<1>2. Inductive /\ [Next]_vars => Inductive'
  <2> SUFFICES ASSUME Inductive, [Next]_vars
               PROVE  Inductive'
    OBVIOUS
  <2>1. CASE \E p \in Pass : Reconcile(p)
    BY <2>1, ReconcileKeeps DEF Inductive
  <2>2. CASE \E h \in Handler : Edit(h)
    BY <2>2, EditKeeps
  <2>3. CASE StartAll \/ StopAll \/ StopReturns \/ Exit
    BY <2>3, LifeKeeps
  <2>4. CASE UNCHANGED vars
    BY <2>4 DEF vars, Inductive, TypeOK, SkippedHasNoStream, StopLeavesNothing, StoppedIsStill
  <2> QED  BY <2>1, <2>2, <2>3, <2>4 DEF Next
<1> QED  BY <1>1, <1>2, PTL DEF Spec

\* Table, passes and requests are well typed: only configurations that can run here run,
\* and only others are marked.
THEOREM TypeCorrect == Spec => []TypeOK
<1>1. Inductive => TypeOK
  BY DEF Inductive
<1> QED  BY <1>1, InductiveHolds, PTL

\* No marker stands beside a stream.
THEOREM SkippedHasNoStreamHolds == Spec => []SkippedHasNoStream
<1>1. Inductive => SkippedHasNoStream
  BY DEF Inductive
<1> QED  BY <1>1, InductiveHolds, PTL

\* A stop_all that did not cancel the supervisor inside stop_channel leaves no stream.
THEOREM StopLeavesNothingHolds == Spec => []StopLeavesNothing
<1>1. Inductive => StopLeavesNothing
  BY DEF Inductive
<1> QED  BY <1>1, InductiveHolds, PTL

-----------------------------------------------------------------------------
(* How far a stop_all that was swallowed can go wrong.  The supervisor it  *)
(* cancelled inside stop_channel finishes the pass it is in, with the rows *)
(* that pass had read, and starts no other.                                *)

\* Where passes and requests can be in each part of the process's life: while the runtime is
\* up the supervisor runs, whatever fails; once stop_all was called nothing runs but the rest
\* of the supervisor's pass; and in a process that is down nothing does.
Phases ==
    /\ up = "up" => pass["supervisor"].pc # "off"
    /\ up = "down" => /\ entry = Empty /\ stray = {} /\ ~swallowed
                      /\ \A p \in Pass : pass[p].pc = "off"
                      /\ \A h \in Handler : handler[h].pc = "idle"
    /\ up \in {"stopping", "stopped"} =>
          /\ pass["boot"].pc = "off"
          /\ \A h \in Handler : handler[h].pc = "idle"
          /\ pass["supervisor"].pc \in {"off", "stopping", "visiting"}

\* What may enter the table after stop_all was called: a channel the interrupted pass listed,
\* with the configuration it was listed with, and only when the cancellation was swallowed.
FromInterruptedPass(c) ==
    up \in {"stopping", "stopped"} /\ entry'[c] \notin {entry[c], None}
        => swallowed /\ entry'[c] = pass["supervisor"].rows[c]

\* A step of a pass keeps the phases.
LEMMA ReconcileKeepsPhases ==
    ASSUME TypeOK, Phases, NEW p \in Pass, Reconcile(p)
    PROVE  Phases'
<1>1. /\ up' = up /\ stray' = stray /\ swallowed' = swallowed /\ handler' = handler
      /\ \A q \in Pass \ {p} : pass'[q] = pass[q]
  BY DEF Reconcile, List, ListFails, Prune, Visit, Replace, EndPass, life, TypeOK
<1>2. pass[p].pc # "off"
  BY DEF Reconcile, List, ListFails, Prune, Visit, Replace, EndPass
<1>3. up # "down"
  BY <1>2 DEF Phases
<1>4. CASE up = "up"
  <2>1. ASSUME p = "supervisor"
        PROVE  pass'[p].pc # "off"
    <3>1. CASE List(p)
      BY <3>1 DEF List, TypeOK
    <3>2. ~ListFails(p)
      BY <2>1 DEF ListFails
    <3>3. CASE Prune(p)
      BY <3>3 DEF Prune, TypeOK
    <3>4. ASSUME NEW c \in Channel, Visit(p, c)
          PROVE  pass'[p].pc # "off"
      <4>1. CASE skip[c] # pass[p].rows[c] /\ entry[c] \notin {None, pass[p].rows[c]}
        BY <3>4, <4>1 DEF Visit, TypeOK
      <4>2. CASE ~(skip[c] # pass[p].rows[c] /\ entry[c] \notin {None, pass[p].rows[c]})
        BY <1>2, <3>4, <4>2 DEF Visit, TypeOK
      <4> QED  BY <4>1, <4>2
    <3>5. CASE Replace(p)
      BY <3>5 DEF Replace, TypeOK
    <3>6. CASE EndPass(p)
      BY <1>4, <2>1, <3>6 DEF EndPass, TypeOK, Ready, Off
    <3> QED  BY <3>1, <3>2, <3>3, <3>4, <3>5, <3>6 DEF Reconcile
  <2>2. "supervisor" \in Pass
    BY DEF Pass
  <2>3. pass'["supervisor"].pc # "off"
    BY <1>1, <1>4, <2>1, <2>2 DEF Phases
  <2> QED  BY <1>1, <1>4, <2>3 DEF Phases
<1>5. CASE up \in {"stopping", "stopped"}
  <2>1. p = "supervisor" /\ pass[p].pc \in {"stopping", "visiting"}
    BY <1>2, <1>5 DEF Phases, Pass
  <2>2. pass'["boot"] = pass["boot"]
    BY <1>1, <2>1 DEF Pass
  <2>3. pass'[p].pc \in {"off", "stopping", "visiting"}
    <3>1. ASSUME NEW c \in Channel, Visit(p, c)
          PROVE  pass'[p].pc \in {"off", "stopping", "visiting"}
      <4>1. CASE skip[c] # pass[p].rows[c] /\ entry[c] \notin {None, pass[p].rows[c]}
        BY <3>1, <4>1 DEF Visit, TypeOK
      <4>2. CASE ~(skip[c] # pass[p].rows[c] /\ entry[c] \notin {None, pass[p].rows[c]})
        BY <2>1, <3>1, <4>2 DEF Visit, TypeOK
      <4> QED  BY <4>1, <4>2
    <3>2. CASE Replace(p)
      BY <3>2 DEF Replace, TypeOK
    <3>3. CASE EndPass(p)
      BY <1>5, <3>3 DEF EndPass, TypeOK, Off
    <3>4. ~List(p) /\ ~ListFails(p) /\ ~Prune(p)
      BY <2>1 DEF List, ListFails, Prune
    <3> QED  BY <3>1, <3>2, <3>3, <3>4 DEF Reconcile
  <2> QED  BY <1>1, <1>5, <2>1, <2>2, <2>3 DEF Phases
<1> QED  BY <1>3, <1>4, <1>5 DEF TypeOK

\* So does a request: it is told of a runtime only while there is one.
LEMMA EditKeepsPhases ==
    ASSUME TypeOK, Phases, NEW h \in Handler, Edit(h)
    PROVE  Phases'
<1>1. up' = up /\ stray' = stray /\ swallowed' = swallowed /\ pass' = pass
  BY DEF Edit, Commit, Notify, Restart, Abandon, life
<1>2. CASE up = "up"
  BY <1>1, <1>2 DEF Phases
<1>3. CASE up # "up"
  <2>1. handler[h].pc = "idle"
    BY <1>3 DEF Phases, TypeOK
  <2>2. PICK c \in Channel, v \in Maybe : Commit(h, c, v)
    BY <2>1 DEF Edit, Notify, Restart, Abandon
  <2>3. entry' = entry /\ handler' = [handler EXCEPT ![h] = Free]
    BY <1>3, <2>2 DEF Commit, table
  <2>4. \A g \in Handler : handler'[g].pc = IF g = h THEN "idle" ELSE handler[g].pc
    BY <2>3 DEF TypeOK, Free
  <2> QED  BY <1>1, <1>3, <2>3, <2>4 DEF Phases
<1> QED  BY <1>2, <1>3

\* And so does the life of the process.
LEMMA LifeKeepsPhases ==
    ASSUME TypeOK, Phases, StartAll \/ StopAll \/ StopReturns \/ Exit
    PROVE  Phases'
<1> USE DEF Phases, Pass
<1>1. CASE StartAll
  BY <1>1 DEF StartAll, table, Ready, Off
<1>2. CASE StopAll
  <2>1. pass'["boot"].pc = "off" /\ pass'["supervisor"].pc \in {"off", "stopping"}
    BY <1>2 DEF StopAll, TypeOK, Off
  <2> QED  BY <1>2, <2>1 DEF StopAll
<1>3. CASE StopReturns
  BY <1>3 DEF StopReturns
<1>4. CASE Exit
  BY <1>4 DEF Exit, Off, Free
<1> QED  BY <1>1, <1>2, <1>3, <1>4

\* A stream enters the table only by Start, with the configuration Start was given.
LEMMA OnlyStartEnters ==
    ASSUME TypeOK, NEW c \in Channel, NEW d \in Channel, NEW v, Start(d, v),
           entry'[c] \notin {entry[c], None}
    PROVE  c = d /\ entry'[c] = v
BY DEF Start, table, TypeOK

\* After stop_all only the interrupted pass can start a stream.
LEMMA StepIsFromInterruptedPass ==
    ASSUME Inductive, Phases, [Next]_vars, NEW c \in Channel
    PROVE  FromInterruptedPass(c)
<1> SUFFICES ASSUME up \in {"stopping", "stopped"}, entry'[c] \notin {entry[c], None}
             PROVE  swallowed /\ entry'[c] = pass["supervisor"].rows[c]
  BY DEF FromInterruptedPass
<1>1. TypeOK
  BY DEF Inductive
<1>2. ASSUME NEW p \in Pass, Reconcile(p)
      PROVE  swallowed /\ entry'[c] = pass["supervisor"].rows[c]
  <2>1. pass[p].pc # "off"
    BY <1>2 DEF Reconcile, List, ListFails, Prune, Visit, Replace, EndPass
  <2>2. swallowed
    BY <2>1 DEF Inductive, StoppedIsStill
  <2>3. p = "supervisor"
    BY <2>1 DEF Phases, Pass
  <2>4. ~List(p) /\ ~ListFails(p) /\ ~EndPass(p)
    BY DEF List, ListFails, EndPass, table
  <2>5. ~Prune(p)
    BY <1>1 DEF Prune, TypeOK
  <2>6. ASSUME NEW d \in Channel, Visit(p, d)
        PROVE  entry'[c] = pass[p].rows[c]
    <3>1. CASE skip[d] # pass[p].rows[d] /\ entry[d] \notin {None, pass[p].rows[d]}
      <4>1. Pop(d)
        BY <2>6, <3>1 DEF Visit
      <4> QED  BY <1>1, <4>1 DEF Pop, TypeOK
    <3>2. CASE ~(skip[d] # pass[p].rows[d] /\ entry[d] \notin {None, pass[p].rows[d]})
      <4>1. Start(d, pass[p].rows[d])
        BY <2>6, <3>2 DEF Visit, table
      <4> QED  BY <1>1, <4>1, OnlyStartEnters
    <3> QED  BY <3>1, <3>2
  <2>7. CASE Replace(p)
    <3>1. PICK d \in pass[p].at : Start(d, pass[p].rows[d])
      BY <2>7 DEF Replace
    <3>2. d \in Channel
      BY <1>1 DEF TypeOK
    <3> QED  BY <1>1, <2>2, <2>3, <3>1, <3>2, OnlyStartEnters
  <2> QED  BY <1>2, <2>2, <2>3, <2>4, <2>5, <2>6, <2>7 DEF Reconcile
<1>3. ASSUME NEW h \in Handler
      PROVE  ~Edit(h)
  <2>1. handler[h].pc = "idle"
    BY DEF Phases
  <2> QED  BY <2>1 DEF Edit, Commit, Notify, Restart, Abandon, table
<1>4. ~StartAll /\ ~StopAll /\ ~StopReturns /\ ~Exit
  <2>1. Empty[c] = None
    BY DEF Empty
  <2> QED  BY <2>1 DEF StartAll, StopAll, StopReturns, Exit, table
<1>5. ~UNCHANGED vars
  BY DEF vars
<1> QED  BY <1>2, <1>3, <1>4, <1>5 DEF Next

\* The phases hold in every reachable state: no failure of a pass ends the supervisor while
\* the runtime is up.
THEOREM PhasesHold == Spec => []Phases
<1>1. Init => Phases
  <2> SUFFICES ASSUME Init
               PROVE  Phases
    OBVIOUS
  <2>1. (\A p \in Pass : pass[p].pc = "off") /\ (\A h \in Handler : handler[h].pc = "idle")
    BY DEF Init, Off, Free
  <2> QED  BY <2>1 DEF Init, Phases
<1>2. TypeOK /\ Phases /\ [Next]_vars => Phases'
  <2> SUFFICES ASSUME TypeOK, Phases, [Next]_vars
               PROVE  Phases'
    OBVIOUS
  <2>1. CASE UNCHANGED vars
    BY <2>1 DEF vars, Phases
  <2> QED  BY <2>1, ReconcileKeepsPhases, EditKeepsPhases, LifeKeepsPhases DEF Next
<1> QED  BY <1>1, <1>2, TypeCorrect, PTL DEF Spec

\* Whatever a stop_all could not prevent was listed by the one pass it interrupted: a stream
\* that starts after the call has the row that pass had read for its channel, and none starts
\* at all when the cancellation reached the supervisor outside stop_channel.
THEOREM StopIsLast == Spec => [][\A c \in Channel : FromInterruptedPass(c)]_vars
<1>1. Inductive /\ Phases /\ [Next]_vars => [\A c \in Channel : FromInterruptedPass(c)]_vars
  BY StepIsFromInterruptedPass
<1> QED  BY <1>1, InductiveHolds, PhasesHold, PTL DEF Spec
=============================================================================
