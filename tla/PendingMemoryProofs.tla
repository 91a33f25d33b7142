------------------------ MODULE PendingMemoryProofs ------------------------
(***************************************************************************)
(* Proofs about the queue of deferred memory writes, for any number of     *)
(* rows, sessions and passes and any limits.                               *)
(***************************************************************************)
EXTENDS PendingMemory, FiniteSetTheorems, TLAPS

-----------------------------------------------------------------------------
(* Sequences of rows.                                                      *)

\* What a query returns names rows of the asked-for set, each once.
LEMMA OldestList ==
    ASSUME NEW S \in SUBSET Row, NEW list \in Oldest(S)
    PROVE  list \in Seq(Row) /\ Range(list) \subseteq S /\ \A r \in Row : Once(list, r)
<1> DEFINE first == {r \in S : Cardinality({q \in S : q < r}) < Limit}
<1>1. /\ list \in [1 .. Cardinality(first) -> first]
      /\ \A i, j \in DOMAIN list : i < j => list[i] < list[j]
  BY DEF Oldest
<1>2. first \subseteq S /\ first \subseteq Row
  OBVIOUS
<1>3. IsFiniteSet(Row)
  BY ConstantsAssumption, FS_Interval DEF Row
<1>4. IsFiniteSet(first)
  BY <1>2, <1>3, FS_Subset
<1>5. Cardinality(first) \in Nat
  BY <1>4, FS_CardinalityType
<1> HIDE DEF first
<1>6. list \in Seq(Row)
  BY <1>1, <1>2, <1>5
<1>7. Range(list) \subseteq S
  BY <1>1, <1>2 DEF Range
<1>8. ASSUME NEW i \in DOMAIN list, NEW j \in DOMAIN list, list[i] = list[j]
      PROVE  i = j
  <2>1. i \in Int /\ j \in Int
    BY <1>1, <1>5
  <2>2. list[i] \in Row /\ list[j] \in Row
    BY <1>1, <1>2
  <2>3. list[i] \in Int /\ list[j] \in Int
    BY <2>2, ConstantsAssumption DEF Row
  <2>4. ~(i < j) /\ ~(j < i)
    BY <1>1, <1>8, <2>3
  <2> QED  BY <2>1, <2>4
<1> QED  BY <1>6, <1>7, <1>8 DEF Once

\* A row comes once in two lists that each name it once, if not both do.
LEMMA Joined ==
    ASSUME NEW s \in Seq(Row), NEW t \in Seq(Row)
    PROVE  /\ s \o t \in Seq(Row)
           /\ Range(s \o t) = Range(s) \cup Range(t)
           /\ \A r \in Row : Once(s, r) /\ Once(t, r) /\ r \notin Range(s) \cap Range(t)
                 => Once(s \o t, r)
<1>1. /\ s \o t \in Seq(Row)
      /\ Len(s \o t) = Len(s) + Len(t)
      /\ \A i \in 1 .. Len(s) : (s \o t)[i] = s[i]
      /\ \A i \in Len(s) + 1 .. Len(s) + Len(t) : (s \o t)[i] = t[i - Len(s)]
  OBVIOUS
<1>2. Len(s) \in Nat /\ Len(t) \in Nat /\ DOMAIN s = 1 .. Len(s) /\ DOMAIN t = 1 .. Len(t)
  OBVIOUS
<1>3. DOMAIN (s \o t) = 1 .. Len(s) + Len(t)
  BY <1>1
<1> DEFINE u == s \o t
<1>4. ASSUME NEW i \in DOMAIN u
      PROVE  \/ i \in DOMAIN s /\ u[i] = s[i]
             \/ i - Len(s) \in DOMAIN t /\ u[i] = t[i - Len(s)]
  BY <1>1, <1>2, <1>3
<1>5. ASSUME NEW i \in DOMAIN s
      PROVE  i \in DOMAIN u /\ u[i] = s[i]
  BY <1>1, <1>2, <1>3
<1>6. ASSUME NEW i \in DOMAIN t
      PROVE  i + Len(s) \in DOMAIN u /\ u[i + Len(s)] = t[i]
  <2>1. i + Len(s) \in Len(s) + 1 .. Len(s) + Len(t) /\ i + Len(s) - Len(s) = i
    BY <1>2
  <2> QED  BY <1>1, <1>2, <1>3, <2>1
<1>7. DOMAIN u \subseteq Int
  BY <1>2, <1>3
<1>8. u \in Seq(Row)
  BY <1>1
<1> HIDE DEF u
<1>9. Range(u) = Range(s) \cup Range(t)
  BY <1>4, <1>5, <1>6 DEF Range
<1>10. ASSUME NEW r \in Row, Once(s, r), Once(t, r), r \notin Range(s) \cap Range(t),
              NEW i \in DOMAIN u, NEW j \in DOMAIN u, u[i] = r, u[j] = r
       PROVE  i = j
  <2>1. CASE i \in DOMAIN s /\ u[i] = s[i] /\ j \in DOMAIN s /\ u[j] = s[j]
    BY <1>10, <2>1 DEF Once
  <2>2. CASE /\ i - Len(s) \in DOMAIN t /\ u[i] = t[i - Len(s)]
             /\ j - Len(s) \in DOMAIN t /\ u[j] = t[j - Len(s)]
    <3>1. i - Len(s) = j - Len(s)
      BY <1>10, <2>2 DEF Once
    <3> QED  BY <1>2, <1>7, <3>1
  <2>3. CASE i \in DOMAIN s /\ u[i] = s[i] /\ j - Len(s) \in DOMAIN t /\ u[j] = t[j - Len(s)]
    BY <1>10, <2>3 DEF Range
  <2>4. CASE j \in DOMAIN s /\ u[j] = s[j] /\ i - Len(s) \in DOMAIN t /\ u[i] = t[i - Len(s)]
    BY <1>10, <2>4 DEF Range
  <2> QED  BY <1>4, <2>1, <2>2, <2>3, <2>4
<1> QED  BY <1>8, <1>9, <1>10 DEF Once, u

\* Taking the head off a list.
LEMMA Shortened ==
    ASSUME NEW s \in Seq(Row), s # <<>>
    PROVE  /\ Head(s) \in Row /\ Head(s) \in Range(s)
           /\ Tail(s) \in Seq(Row)
           /\ Range(Tail(s)) \subseteq Range(s)
           /\ \A r \in Row : Once(s, r) => Once(Tail(s), r)
           /\ Once(s, Head(s)) => Head(s) \notin Range(Tail(s))
<1>1. /\ Len(s) \in Nat /\ Len(s) > 0 /\ DOMAIN s = 1 .. Len(s)
      /\ Head(s) = s[1] /\ Head(s) \in Row
      /\ Tail(s) \in Seq(Row) /\ Len(Tail(s)) = Len(s) - 1
      /\ \A i \in 1 .. Len(s) - 1 : Tail(s)[i] = s[i + 1]
  OBVIOUS
<1>2. DOMAIN Tail(s) = 1 .. Len(s) - 1
  BY <1>1
<1>3. ASSUME NEW i \in DOMAIN Tail(s)
      PROVE  i \in Int /\ i > 0 /\ i + 1 \in DOMAIN s /\ Tail(s)[i] = s[i + 1]
  BY <1>1, <1>2
<1>4. 1 \in DOMAIN s
  BY <1>1
<1>5. Range(Tail(s)) \subseteq Range(s)
  BY <1>3 DEF Range
<1>6. ASSUME NEW r \in Row, Once(s, r)
      PROVE  Once(Tail(s), r)
  <2> SUFFICES ASSUME NEW i \in DOMAIN Tail(s), NEW j \in DOMAIN Tail(s),
                      Tail(s)[i] = r, Tail(s)[j] = r
               PROVE  i = j
    BY DEF Once
  <2>1. i + 1 = j + 1
    BY <1>3, <1>6 DEF Once
  <2> QED  BY <1>3, <2>1
<1>7. ASSUME Once(s, Head(s)), Head(s) \in Range(Tail(s))
      PROVE  FALSE
  <2>1. PICK i \in DOMAIN Tail(s) : Tail(s)[i] = Head(s)
    BY <1>7 DEF Range
  <2>2. i + 1 = 1
    BY <1>1, <1>3, <1>4, <1>7, <2>1 DEF Once
  <2> QED  BY <1>3, <2>2
<1> QED  BY <1>1, <1>4, <1>5, <1>6, <1>7 DEF Range

\* The last of a list that is not empty is in it.
LEMMA LastIn ==
    ASSUME NEW s \in Seq(Row), s # <<>>
    PROVE  Last(s) \in Row /\ Last(s) \in Range(s)
BY DEF Last, Range

-----------------------------------------------------------------------------
(* The steps of the session and of the user.                               *)

\* None stands apart from what a pass reads and writes.
LEMMA VersionTyped ==
    ASSUME NEW s \in State, NEW n \in Nat
    PROVE  /\ [status |-> s, failures |-> n] \in Version
           /\ [status |-> s, failures |-> n] # None
<1>1. [status |-> s, failures |-> n] \in Version
  BY DEF Version
<1> QED  BY <1>1, ConstantsAssumption

\* Nothing depends on who is quiet or how old the rows are.
LEMMA TimeKeeps ==
    ASSUME Inductive, Age \/ \E s \in Session : Quieten(s) \/ Reply(s)
    PROVE  Inductive'
<1>1. /\ UNCHANGED <<rowVars, passVars, asking, raced>>
      /\ quiet' \in SUBSET Session
      /\ old' \in 0 .. Rows
      /\ upsets' \in 0 .. MaxUpsets
  BY ConstantsAssumption DEF Inductive, TypeOK, Quieten, Reply, Age
<1> QED
  BY <1>1 DEF Inductive, TypeOK, Stages, ReadFirst, Alone, OnceAhead, Counted, PromotedOnce, Ahead,
              rowVars, passVars

\* A new row is in nobody's hands and has made nothing.
LEMMA QueueKeeps ==
    ASSUME Inductive, NEW r \in Row, Queue(r)
    PROVE  Inductive'
<1> USE DEF Inductive
<1>1. /\ status[r] = "none" /\ status' = [status EXCEPT ![r] = "pending"]
      /\ UNCHANGED <<failures, copies, quiet, old, passVars, asking, raced, upsets>>
  BY DEF Queue
<1>2. TypeOK'
  BY <1>1 DEF TypeOK, State, passVars
<1>3. Stages' /\ ReadFirst' /\ OnceAhead' /\ Counted'
  BY <1>1 DEF Stages, ReadFirst, OnceAhead, Counted, Ahead, passVars
<1>4. Alone'
  BY <1>1 DEF Alone, TypeOK, passVars
<1>5. PromotedOnce'
  BY <1>1 DEF PromotedOnce, TypeOK
<1> QED  BY <1>2, <1>3, <1>4, <1>5

\* A cancellation that reads a row while a pass has it races for it ...
LEMMA CancelReadKeeps ==
    ASSUME Inductive, NEW r \in Row, CancelRead(r)
    PROVE  Inductive'
<1> USE DEF Inductive
<1>1. /\ status[r] = "pending" /\ asking' = asking \cup {r}
      /\ raced' = IF \E p \in Pass : seen[p][r] # None THEN raced \cup {r} ELSE raced
      /\ UNCHANGED <<rowVars, quiet, old, passVars, upsets>>
  BY DEF CancelRead
<1>2. raced \subseteq raced'
  BY <1>1
<1>3. TypeOK'
  BY <1>1 DEF TypeOK, passVars, rowVars
<1>4. Stages' /\ ReadFirst'
  BY <1>1 DEF Stages, ReadFirst, Ahead, passVars
<1>5. OnceAhead' /\ Counted' /\ PromotedOnce'
  BY <1>1, <1>2 DEF OnceAhead, Counted, PromotedOnce, Ahead, passVars, rowVars
<1>6. Alone'
  <2>1. ASSUME r \notin raced'
        PROVE  \A p \in Pass : seen[p][r] = None
    BY <1>1, <2>1
  <2> QED  BY <1>1, <1>2, <2>1 DEF Alone, passVars, rowVars
<1> QED  BY <1>3, <1>4, <1>5, <1>6

\* ... and one that does not finds it PENDING still when it writes.
LEMMA CancelWriteKeeps ==
    ASSUME Inductive, NEW r \in Row, CancelWrite(r)
    PROVE  Inductive'
<1> USE DEF Inductive
<1>1. /\ r \in asking /\ asking' = asking \ {r} /\ status' = [status EXCEPT ![r] = "skipped"]
      /\ UNCHANGED <<failures, copies, quiet, old, passVars, raced, upsets>>
  BY DEF CancelWrite
<1>2. TypeOK'
  BY <1>1 DEF TypeOK, State, Settled, passVars
<1>3. Stages' /\ ReadFirst' /\ OnceAhead' /\ Counted'
  BY <1>1 DEF Stages, ReadFirst, OnceAhead, Counted, Ahead, passVars
<1>4. r \notin raced => status[r] = "pending" /\ \A p \in Pass : seen[p][r] = None
  BY <1>1 DEF Alone
<1>5. Alone'
  BY <1>1, <1>4 DEF Alone, TypeOK, passVars
<1>6. PromotedOnce'
  BY <1>1, <1>4 DEF PromotedOnce, TypeOK
<1> QED  BY <1>2, <1>3, <1>5, <1>6

-----------------------------------------------------------------------------
(* A pass reads rows.                                                      *)

\* The rows it reads are open, none twice, and those it shares count as raced for.
LEMMA TakeKeeps ==
    ASSUME Inductive, NEW p \in Pass, NEW list \in Seq(Row), \A r \in Row : Once(list, r),
           NEW stage \in {"retrying", "checking", "applying"}, Take(p, list, stage),
           UNCHANGED <<rowVars, quiet, old, kept, mine, added, verdict, asking, upsets>>,
           at[p] \in {"idle", "visiting", "retrying"},
           \A r \in Range(list) : status[r] \in {"pending", "failed"},
           stage = "retrying" => /\ at[p] = "visiting"
                                 /\ \A r \in Range(list) : status[r] = "pending",
           at[p] = "retrying" => \A r \in Range(list) : status[r] = "failed"
    PROVE  Inductive'
<1> USE DEF Inductive
<1>1. /\ at' = [at EXCEPT ![p] = stage]
      /\ todo' = [todo EXCEPT ![p] = todo[p] \o list]
      /\ raced' = raced \cup Shared(p, Range(list))
      /\ \A q \in Pass \ {p} : seen'[q] = seen[q]
      /\ \A r \in Row : r \notin Range(list) => seen'[p][r] = seen[p][r]
      /\ \A r \in Row : seen[p][r] # None => seen'[p][r] = seen[p][r]
  BY DEF Take, TypeOK
<1>2. \A r \in Row : r \in Range(list) => seen'[p][r] # None
  <2>1. ASSUME NEW r \in Row
        PROVE  [status |-> status[r], failures |-> failures[r]] # None
    BY VersionTyped DEF TypeOK
  <2> QED  BY <2>1 DEF Take, TypeOK
<1>3. Range(list) \subseteq Row
  BY DEF Range
<1>4. TypeOK'
  <2>1. ASSUME NEW r \in Row
        PROVE  [status |-> status[r], failures |-> failures[r]] \in Version
    BY VersionTyped DEF TypeOK
  <2>2. seen' \in [Pass -> [Row -> Version \cup {None}]]
    BY <2>1 DEF Take, TypeOK
  <2>3. todo[p] \in Seq(Row)
    BY DEF TypeOK
  <2>4. todo' \in [Pass -> Seq(Row)]
    BY <1>1, <2>3, Joined DEF TypeOK
  <2>5. raced' \in SUBSET Row
    BY <1>1, <1>3 DEF Shared, TypeOK
  <2> QED  BY <1>1, <2>2, <2>4, <2>5 DEF TypeOK, rowVars
<1>5. /\ todo[p] \in Seq(Row)
      /\ kept[p] = <<>> /\ Range(kept[p]) = {}
      /\ todo'[p] = todo[p] \o list
      /\ Range(todo'[p]) = Range(todo[p]) \cup Range(list)
      /\ verdict[p] = "none"
      /\ \A r \in Row : mine[p][r] = None /\ added[p][r] = 0
  <2>1. todo[p] \in Seq(Row) /\ todo'[p] = todo[p] \o list
    BY <1>1 DEF TypeOK
  <2>2. kept[p] = <<>>
    BY DEF Stages
  <2>3. Range(kept[p]) = {}
    BY <2>2 DEF Range
  <2> QED  BY <2>1, <2>2, <2>3, Joined DEF Stages
<1>6. \A q \in Pass \ {p} : todo'[q] = todo[q] /\ at'[q] = at[q]
  BY <1>1 DEF TypeOK
<1>7. UNCHANGED <<status, failures, copies, kept, mine, added, verdict, asking>>
  BY DEF rowVars
<1>8. Stages'
  BY <1>1, <1>5, <1>6, <1>7, SMTT(20) DEF Stages, TypeOK
<1>9. ReadFirst'
  BY <1>1, <1>2, <1>5, <1>6, <1>7 DEF ReadFirst, Ahead
<1>10. ASSUME NEW r \in Row, r \notin raced', r \in Range(list)
       PROVE  /\ r \notin raced /\ r \notin asking
              /\ \A q \in Pass \ {p} : seen[q][r] = None
              /\ seen[p][r] = None
              /\ r \notin Range(todo[p])
  <2>1. r \notin raced /\ r \notin asking /\ \A q \in Pass \ {p} : seen[q][r] = None
    BY <1>1, <1>10 DEF Shared
  <2>2. seen[p][r] = None
    <3>1. CASE at[p] = "retrying"
      BY <1>10, <2>1, <3>1 DEF Alone
    <3>2. CASE at[p] # "retrying"
      BY <3>2 DEF Stages
    <3> QED  BY <3>1, <3>2
  <2> QED  BY <2>1, <2>2 DEF ReadFirst, Ahead
<1>11. raced \subseteq raced'
  BY <1>1
<1>12. Alone'
  <2> SUFFICES ASSUME NEW r \in Row, r \notin raced'
               PROVE  /\ \A q, v \in Pass : seen'[q][r] # None /\ seen'[v][r] # None => q = v
                      /\ \A q \in Pass : seen'[q][r] # None =>
                            /\ status[r] \in {"pending", "failed"}
                            /\ at'[q] = "retrying" => status[r] = "pending"
                      /\ r \in asking => status[r] = "pending" /\ \A q \in Pass : seen'[q][r] = None
    BY <1>7 DEF Alone
  <2>1. CASE r \in Range(list)
    <3>1. \A q \in Pass : seen'[q][r] # None => q = p
      BY <1>1, <1>10, <2>1
    <3>2. status[r] \in {"pending", "failed"} /\ (at'[p] = "retrying" => status[r] = "pending")
      BY <1>1, <2>1 DEF TypeOK
    <3> QED  BY <1>10, <2>1, <3>1, <3>2
  <2>2. CASE r \notin Range(list)
    <3>1. \A q \in Pass : seen'[q][r] = seen[q][r]
      BY <1>1, <2>2
    <3>2. \A q \in Pass : seen[q][r] # None /\ at'[q] = "retrying" => at[q] = "retrying" \/ q = p
      BY <1>6
    <3>3. seen[p][r] # None /\ at'[p] = "retrying" => FALSE
      BY <1>1 DEF Stages, TypeOK
    <3> QED  BY <1>11, <3>1, <3>2, <3>3 DEF Alone
  <2> QED  BY <2>1, <2>2
<1>13. OnceAhead'
  <2> SUFFICES ASSUME NEW r \in Row, r \notin raced', NEW q \in Pass
               PROVE  /\ Once(todo'[q], r) /\ Once(kept'[q], r)
                      /\ r \notin Range(todo'[q]) \cap Range(kept'[q])
                      /\ r \in Ahead(q)' /\ mine'[q][r] # None => mine'[q][r].status = "pending"
    BY DEF OnceAhead
  <2>1. CASE q = p
    <3>1. Once(todo[p], r) /\ Once(kept[p], r)
      BY <1>11 DEF OnceAhead
    <3>2. r \notin Range(todo[p]) \cap Range(list)
      BY <1>10
    <3>3. Once(todo'[p], r)
      BY <1>5, <3>1, <3>2, Joined
    <3> QED  BY <1>5, <1>7, <2>1, <3>1, <3>3
  <2>2. CASE q # p
    BY <1>6, <1>7, <1>11, <2>2 DEF OnceAhead, Ahead
  <2> QED  BY <2>1, <2>2
<1>14. Counted'
  BY <1>5, <1>6, <1>7, <1>11 DEF Counted
<1>15. PromotedOnce'
  BY <1>7, <1>11 DEF PromotedOnce
<1> QED  BY <1>4, <1>8, <1>9, <1>12, <1>13, <1>14, <1>15

\* The queries of hooks and sweeps are such reads.
LEMMA ReadingKeeps ==
    ASSUME Inductive, NEW p \in Pass,
           (\E s \in Session : HookList(p, s)) \/ SweepList(p) \/ SweepRetry(p)
    PROVE  Inductive'
<1>1. ASSUME NEW s \in Session, HookList(p, s)
      PROVE  Inductive'
  <2> DEFINE wanted == {r \in Row : status[r] = "pending" /\ SessionOf[r] = s}
  <2>1. PICK list \in Oldest(wanted) : Take(p, list, "applying")
    BY <1>1 DEF HookList
  <2>2. list \in Seq(Row) /\ Range(list) \subseteq wanted /\ \A r \in Row : Once(list, r)
    BY OldestList
  <2>3. /\ at[p] = "idle"
        /\ UNCHANGED <<rowVars, quiet, old, kept, mine, added, verdict, asking, upsets>>
    BY <1>1 DEF HookList
  <2> QED  BY <2>1, <2>2, <2>3, TakeKeeps
<1>2. CASE SweepList(p)
  <2> DEFINE wanted == {r \in 1 .. old : status[r] = "pending"}
  <2>0. wanted \subseteq Row
    BY ConstantsAssumption DEF Inductive, TypeOK, Row
  <2>1. PICK list \in Oldest(wanted) : Take(p, list, "retrying")
    BY <1>2 DEF SweepList
  <2>2. list \in Seq(Row) /\ Range(list) \subseteq wanted /\ \A r \in Row : Once(list, r)
    BY <2>0, OldestList
  <2>3. /\ at[p] = "visiting"
        /\ UNCHANGED <<rowVars, quiet, old, kept, mine, added, verdict, asking, upsets>>
    BY <1>2 DEF SweepList
  <2> QED  BY <2>1, <2>2, <2>3, TakeKeeps
<1>3. CASE SweepRetry(p)
  <2> DEFINE wanted == {r \in 1 .. old : status[r] = "failed" /\ failures[r] < MaxFailures}
  <2>0. wanted \subseteq Row
    BY ConstantsAssumption DEF Inductive, TypeOK, Row
  <2>1. PICK list \in Oldest(wanted) : Take(p, list, "checking")
    BY <1>3 DEF SweepRetry
  <2>2. list \in Seq(Row) /\ Range(list) \subseteq wanted /\ \A r \in Row : Once(list, r)
    BY <2>0, OldestList
  <2>3. /\ at[p] = "retrying"
        /\ UNCHANGED <<rowVars, quiet, old, kept, mine, added, verdict, asking, upsets>>
    BY <1>3 DEF SweepRetry
  <2> QED  BY <2>1, <2>2, <2>3, TakeKeeps
<1> QED  BY <1>1, <1>2, <1>3

-----------------------------------------------------------------------------
(* A pass works on what it has read.                                       *)

\* A sweep that begins holds nothing.
LEMMA VisitKeeps ==
    ASSUME Inductive, NEW p \in Pass, Visit(p)
    PROVE  Inductive'
<1> USE DEF Inductive
<1>1. /\ at[p] = "idle" /\ at' = [at EXCEPT ![p] = "visiting"]
      /\ UNCHANGED <<status, failures, copies, quiet, old, todo, kept, seen, mine, added, verdict,
                     asking, raced, upsets>>
  BY DEF Visit, rowVars
<1>2. TypeOK'
  BY <1>1 DEF TypeOK
<1>3. Stages'
  BY <1>1 DEF Stages, TypeOK
<1>4. ReadFirst' /\ OnceAhead' /\ Counted' /\ PromotedOnce'
  BY <1>1 DEF ReadFirst, OnceAhead, Counted, PromotedOnce, Ahead
<1>5. Alone'
  BY <1>1 DEF Alone, TypeOK
<1> QED  BY <1>2, <1>3, <1>4, <1>5

\* A row that is checked moves from one list to the other, or out.
LEMMA CheckKeeps ==
    ASSUME Inductive, NEW p \in Pass, Check(p)
    PROVE  Inductive'
<1> USE DEF Inductive
<1> DEFINE x == Head(todo[p])
<1>1. /\ at[p] = "checking" /\ todo[p] # <<>>
      /\ todo' = [todo EXCEPT ![p] = Tail(todo[p])]
      /\ kept' = kept \/ kept' = [kept EXCEPT ![p] = Append(kept[p], x)]
      /\ UNCHANGED <<status, failures, copies, quiet, old, at, seen, mine, added, verdict, asking,
                     raced, upsets>>
  BY DEF Check, rowVars
<1>2. todo[p] \in Seq(Row) /\ kept[p] \in Seq(Row)
  BY DEF TypeOK
<1>3. /\ x \in Row /\ x \in Range(todo[p])
      /\ Tail(todo[p]) \in Seq(Row)
      /\ Range(Tail(todo[p])) \subseteq Range(todo[p])
      /\ \A r \in Row : Once(todo[p], r) => Once(Tail(todo[p]), r)
      /\ Once(todo[p], x) => x \notin Range(Tail(todo[p]))
  BY <1>1, <1>2, Shortened
<1>4. /\ <<x>> \in Seq(Row)
      /\ Append(kept[p], x) = kept[p] \o <<x>>
      /\ Range(<<x>>) = {x}
      /\ \A r \in Row : Once(<<x>>, r)
  <2>1. <<x>> \in Seq(Row) /\ Append(kept[p], x) = kept[p] \o <<x>>
    BY <1>2, <1>3
  <2>2. DOMAIN <<x>> = {1} /\ <<x>>[1] = x
    OBVIOUS
  <2> QED  BY <2>1, <2>2 DEF Range, Once
<1>5. /\ Append(kept[p], x) \in Seq(Row)
      /\ Range(Append(kept[p], x)) = Range(kept[p]) \cup {x}
      /\ \A r \in Row : Once(kept[p], r) /\ r \notin Range(kept[p]) \cap {x}
            => Once(Append(kept[p], x), r)
  BY <1>2, <1>4, Joined, ZenonT(30)
<1> HIDE DEF x
<1>6. /\ todo'[p] = Tail(todo[p])
      /\ kept'[p] = kept[p] \/ kept'[p] = Append(kept[p], x)
      /\ \A q \in Pass \ {p} : todo'[q] = todo[q] /\ kept'[q] = kept[q]
  BY <1>1 DEF TypeOK
<1>7. TypeOK'
  BY <1>1, <1>3, <1>5, ZenonT(30) DEF TypeOK
<1>8. Stages'
  BY <1>1, <1>6 DEF Stages
<1>9. \A q \in Pass : \A r \in Row : r \in Ahead(q)' => r \in Ahead(q)
  BY <1>3, <1>5, <1>6 DEF Ahead
<1>10. ReadFirst' /\ Alone' /\ PromotedOnce'
  BY <1>1, <1>9 DEF ReadFirst, Alone, PromotedOnce
<1>11. OnceAhead'
  <2> SUFFICES ASSUME NEW r \in Row, r \notin raced, NEW q \in Pass
               PROVE  /\ Once(todo'[q], r) /\ Once(kept'[q], r)
                      /\ r \notin Range(todo'[q]) \cap Range(kept'[q])
                      /\ r \in Ahead(q)' /\ mine'[q][r] # None => mine'[q][r].status = "pending"
    BY <1>1 DEF OnceAhead
  <2>1. /\ Once(todo[q], r) /\ Once(kept[q], r)
        /\ r \notin Range(todo[q]) \cap Range(kept[q])
        /\ r \in Ahead(q) /\ mine[q][r] # None => mine[q][r].status = "pending"
    BY DEF OnceAhead
  <2>2. CASE q = p
    BY <1>1, <1>3, <1>5, <1>6, <1>9, <2>1, <2>2
  <2>3. CASE q # p
    BY <1>1, <1>6, <1>9, <2>1, <2>3
  <2> QED  BY <2>2, <2>3
<1>12. Counted'
  <2>1. verdict[p] = "none"
    BY <1>1 DEF Stages
  <2> QED  BY <1>1, <1>6, <2>1 DEF Counted
<1> QED  BY <1>7, <1>8, <1>10, <1>11, <1>12

\* A FAILED row that is kept becomes PENDING, for this pass, before its turn.
LEMMA ResetKeeps ==
    ASSUME Inductive, NEW p \in Pass, Reset(p)
    PROVE  Inductive'
<1> USE DEF Inductive
<1> DEFINE x == Last(kept[p])
           row == [status |-> "pending", failures |-> failures[x]]
<1>1. /\ at[p] = "checking" /\ kept[p] # <<>>
      /\ mine' = [mine EXCEPT ![p][x] = row]
      /\ seen' = [seen EXCEPT ![p][x] = row]
      /\ UNCHANGED <<status, failures, copies, quiet, old, at, todo, kept, added, verdict, asking,
                     raced, upsets>>
  BY DEF Reset, ToReset, rowVars
<1>2. x \in Row /\ x \in Range(kept[p])
  BY <1>1, LastIn DEF TypeOK
<1>3. row \in Version /\ row # None /\ row.status = "pending"
  BY <1>2, VersionTyped DEF TypeOK, State
<1>4. seen[p][x] # None
  BY <1>2 DEF ReadFirst, Ahead
<1>5. x \notin raced /\ mine[p][x] # None => mine[p][x].status = "pending"
  BY <1>2 DEF OnceAhead, Ahead
<1> HIDE DEF x, row
<1>6. /\ mine'[p][x] = row /\ seen'[p][x] = row
      /\ \A q \in Pass : \A r \in Row : q # p \/ r # x =>
            mine'[q][r] = mine[q][r] /\ seen'[q][r] = seen[q][r]
  BY <1>1, <1>2 DEF TypeOK
<1>7. TypeOK'
  BY <1>1, <1>2, <1>3 DEF TypeOK
<1>8. Stages'
  BY <1>1, <1>6 DEF Stages
<1>9. \A q \in Pass : \A r \in Row : seen'[q][r] # None <=> seen[q][r] # None
  BY <1>3, <1>4, <1>6
<1>10. ReadFirst'
  BY <1>1, <1>4, <1>6, <1>9 DEF ReadFirst, Ahead
<1>11. Alone'
  BY <1>1, <1>9 DEF Alone
<1>12. OnceAhead'
  BY <1>1, <1>3, <1>6 DEF OnceAhead, Ahead
<1>13. Counted'
  BY <1>1, <1>2, <1>3, <1>5, <1>6 DEF Counted
<1>14. PromotedOnce'
  BY <1>1 DEF PromotedOnce
<1> QED  BY <1>7, <1>8, <1>10, <1>11, <1>12, <1>13, <1>14

\* What was kept is now to be promoted.
LEMMA PromoteKeeps ==
    ASSUME Inductive, NEW p \in Pass, Promote(p)
    PROVE  Inductive'
<1> USE DEF Inductive
<1>1. /\ at[p] = "checking" /\ todo[p] = <<>>
      /\ at' = [at EXCEPT ![p] = "applying"]
      /\ todo' = [todo EXCEPT ![p] = kept[p]]
      /\ kept' = [kept EXCEPT ![p] = <<>>]
      /\ UNCHANGED <<status, failures, copies, quiet, old, seen, mine, added, verdict, asking, raced,
                     upsets>>
  BY DEF Promote, rowVars
<1>2. /\ todo'[p] = kept[p] /\ kept'[p] = <<>> /\ at'[p] = "applying"
      /\ \A q \in Pass \ {p} : todo'[q] = todo[q] /\ kept'[q] = kept[q] /\ at'[q] = at[q]
  BY <1>1 DEF TypeOK
<1>3. Range(<<>>) = {} /\ \A r \in Row : Once(<<>>, r)
  BY DEF Range, Once
<1>4. verdict[p] = "none"
  BY <1>1 DEF Stages
<1>5. \A q \in Pass : Ahead(q)' = Ahead(q)
  BY <1>1, <1>2, <1>3 DEF Ahead
<1>6. TypeOK'
  BY <1>1 DEF TypeOK
<1>7. Stages'
  BY <1>1, <1>2, <1>4 DEF Stages
<1>8. ReadFirst' /\ Alone' /\ PromotedOnce'
  BY <1>1, <1>2, <1>5 DEF ReadFirst, Alone, PromotedOnce
<1>9. OnceAhead'
  BY <1>1, <1>2, <1>3, <1>5 DEF OnceAhead
<1>10. Counted'
  BY <1>1, <1>2, <1>4 DEF Counted
<1> QED  BY <1>6, <1>7, <1>8, <1>9, <1>10

\* A memory is made of the row in hand, at most one.
LEMMA ApplyKeeps ==
    ASSUME Inductive, NEW p \in Pass, NEW v \in {"promoted", "skipped", "failed"}, Apply(p, v)
    PROVE  Inductive'
<1> USE DEF Inductive
<1> DEFINE x == Head(todo[p])
<1>1. /\ at[p] = "applying" /\ todo[p] # <<>> /\ verdict[p] = "none"
      /\ added' = IF v = "promoted" THEN [added EXCEPT ![p][x] = added[p][x] + 1] ELSE added
      /\ verdict' = [verdict EXCEPT ![p] = v]
      /\ UNCHANGED <<status, failures, copies, quiet, old, at, todo, kept, seen, mine, asking, raced,
                     upsets>>
  BY DEF Apply, rowVars
<1>2. x \in Row /\ x \in Range(todo[p])
  BY <1>1, Shortened DEF TypeOK
<1>3. seen[p][x] # None
  BY <1>2 DEF ReadFirst, Ahead
<1>4. x \notin raced => added[p][x] = 0
  BY <1>1, <1>2 DEF OnceAhead, Counted, Ahead
<1> HIDE DEF x
<1>5. /\ verdict'[p] = v
      /\ added'[p][x] = IF v = "promoted" THEN added[p][x] + 1 ELSE added[p][x]
      /\ \A q \in Pass \ {p} : verdict'[q] = verdict[q]
      /\ \A q \in Pass : \A r \in Row : q # p \/ r # x => added'[q][r] = added[q][r]
  BY <1>1, <1>2 DEF TypeOK
<1>6. TypeOK'
  <2>1. added[p][x] + 1 \in Nat
    BY <1>2 DEF TypeOK
  <2>2. added' \in [Pass -> [Row -> Nat]]
    BY <1>1, <1>2, <2>1 DEF TypeOK
  <2> QED  BY <1>1, <2>2 DEF TypeOK
<1>7. Stages'
  BY <1>1, <1>5 DEF Stages
<1>8. ReadFirst' /\ Alone' /\ OnceAhead' /\ PromotedOnce'
  BY <1>1, <1>3, <1>5 DEF ReadFirst, Alone, OnceAhead, PromotedOnce, Ahead
<1>9. Counted'
  <2> SUFFICES ASSUME NEW r \in Row, r \notin raced, NEW q \in Pass
               PROVE  added'[q][r] =
                        IF \/ verdict'[q] = "promoted" /\ Head(todo[q]) = r
                           \/ mine[q][r] # None /\ mine[q][r].status = "promoted"
                        THEN 1 ELSE 0
    BY <1>1 DEF Counted
  <2>1. CASE q # p
    BY <1>5, <2>1 DEF Counted
  <2>2. CASE q = p /\ r # x
    BY <1>1, <1>5, <2>2 DEF Counted, x
  <2>3. CASE q = p /\ r = x
    <3>1. mine[p][x] # None => mine[p][x].status = "pending"
      BY <1>2, <2>3 DEF OnceAhead, Ahead
    <3> QED  BY <1>4, <1>5, <2>3, <3>1 DEF x
  <2> QED  BY <2>1, <2>2, <2>3
<1> QED  BY <1>6, <1>7, <1>8, <1>9

\* The row in hand is marked and comes no more.
LEMMA MarkKeeps ==
    ASSUME Inductive, NEW p \in Pass, Mark(p)
    PROVE  Inductive'
<1> USE DEF Inductive
<1> DEFINE x == Head(todo[p])
           row == Outcome(p, x)
<1>1. /\ at[p] = "applying" /\ verdict[p] # "none" /\ todo[p] # <<>> /\ kept[p] = <<>>
      /\ mine' = [mine EXCEPT ![p][x] = row]
      /\ todo' = [todo EXCEPT ![p] = Tail(todo[p])]
      /\ verdict' = [verdict EXCEPT ![p] = "none"]
      /\ UNCHANGED <<status, failures, copies, quiet, old, at, kept, seen, added, asking, raced, upsets>>
  BY DEF Mark, rowVars, Stages
<1>2. /\ x \in Row /\ x \in Range(todo[p])
      /\ Tail(todo[p]) \in Seq(Row)
      /\ Range(Tail(todo[p])) \subseteq Range(todo[p])
      /\ \A r \in Row : Once(todo[p], r) => Once(Tail(todo[p]), r)
      /\ Once(todo[p], x) => x \notin Range(Tail(todo[p]))
  BY <1>1, Shortened DEF TypeOK
<1>3. seen[p][x] # None
  BY <1>2 DEF ReadFirst, Ahead
<1>4. row \in Version /\ row # None /\ (row.status = "promoted" <=> verdict[p] = "promoted")
  <2> DEFINE stored == IF mine[p][x] # None THEN mine[p][x].failures ELSE failures[x]
             count == IF mine[p][x] # None THEN mine[p][x].failures + 1
                      ELSE seen[p][x].failures + 1
  <2>1. seen[p][x] \in Version /\ failures[x] \in Nat
    BY <1>2, <1>3 DEF TypeOK
  <2>2. mine[p][x] # None => mine[p][x] \in Version
    BY <1>2 DEF TypeOK
  <2>3. stored \in Nat /\ count \in Nat
    BY <2>1, <2>2 DEF Version
  <2>4. CASE verdict[p] # "failed"
    <3>1. row = [status |-> verdict[p], failures |-> stored]
      BY <2>4 DEF Outcome
    <3>2. verdict[p] \in State
      BY <1>1, <2>4 DEF TypeOK, State, Settled
    <3> QED  BY <2>3, <2>4, <3>1, <3>2, VersionTyped
  <2>5. CASE verdict[p] = "failed" /\ count < MaxFailures
    <3>1. row = [status |-> "failed", failures |-> count]
      BY <2>5 DEF Outcome
    <3> QED  BY <2>3, <2>5, <3>1, VersionTyped DEF State
  <2>6. CASE verdict[p] = "failed" /\ ~(count < MaxFailures)
    <3>1. row = [status |-> "skipped", failures |-> count]
      BY <2>6 DEF Outcome
    <3> QED  BY <2>3, <2>6, <3>1, VersionTyped DEF State, Settled
  <2> QED  BY <2>4, <2>5, <2>6
<1> HIDE DEF x, row
<1>5. /\ mine'[p][x] = row /\ todo'[p] = Tail(todo[p]) /\ verdict'[p] = "none"
      /\ \A q \in Pass \ {p} : todo'[q] = todo[q] /\ verdict'[q] = verdict[q]
      /\ \A q \in Pass : \A r \in Row : q # p \/ r # x => mine'[q][r] = mine[q][r]
  BY <1>1, <1>2 DEF TypeOK
<1>6. Range(kept[p]) = {}
  BY <1>1 DEF Range
<1>7. TypeOK'
  BY <1>1, <1>2, <1>4 DEF TypeOK
<1>8. Stages'
  BY <1>1, <1>5 DEF Stages
<1>9. \A q \in Pass : \A r \in Row : r \in Ahead(q)' => r \in Ahead(q)
  BY <1>1, <1>2, <1>5 DEF Ahead
<1>10. ReadFirst' /\ Alone' /\ PromotedOnce'
  BY <1>1, <1>3, <1>5, <1>9 DEF ReadFirst, Alone, PromotedOnce
<1>11. OnceAhead'
  <2> SUFFICES ASSUME NEW r \in Row, r \notin raced, NEW q \in Pass
               PROVE  /\ Once(todo'[q], r) /\ Once(kept'[q], r)
                      /\ r \notin Range(todo'[q]) \cap Range(kept'[q])
                      /\ r \in Ahead(q)' /\ mine'[q][r] # None => mine'[q][r].status = "pending"
    BY <1>1 DEF OnceAhead
  <2>1. /\ Once(todo[q], r) /\ Once(kept[q], r)
        /\ r \notin Range(todo[q]) \cap Range(kept[q])
        /\ r \in Ahead(q) /\ mine[q][r] # None => mine[q][r].status = "pending"
    BY DEF OnceAhead
  <2>2. CASE q # p
    BY <1>1, <1>5, <1>9, <2>1, <2>2
  <2>3. CASE q = p /\ r # x
    BY <1>1, <1>2, <1>5, <1>6, <1>9, <2>1, <2>3
  <2>4. CASE q = p /\ r = x
    <3>1. r \notin Ahead(p)'
      BY <1>1, <1>2, <1>5, <1>6, <2>1, <2>4 DEF Ahead
    <3> QED  BY <1>1, <1>2, <1>5, <1>6, <2>1, <2>4, <3>1
  <2> QED  BY <2>2, <2>3, <2>4
<1>12. Counted'
  <2> SUFFICES ASSUME NEW r \in Row, r \notin raced, NEW q \in Pass
               PROVE  added[q][r] =
                        IF \/ verdict'[q] = "promoted" /\ Head(todo'[q]) = r
                           \/ mine'[q][r] # None /\ mine'[q][r].status = "promoted"
                        THEN 1 ELSE 0
    BY <1>1 DEF Counted
  <2>1. CASE q # p
    BY <1>5, <2>1 DEF Counted
  <2>2. CASE q = p /\ r # x
    BY <1>5, <2>2 DEF Counted, x
  <2>3. CASE q = p /\ r = x
    <3>1. mine[p][x] # None => mine[p][x].status = "pending"
      BY <1>2, <2>3 DEF OnceAhead, Ahead
    <3>2. added[p][x] = IF verdict[p] = "promoted" THEN 1 ELSE 0
      BY <1>2, <2>3, <3>1 DEF Counted, x
    <3> QED  BY <1>4, <1>5, <2>3, <3>2
  <2> QED  BY <2>1, <2>2, <2>3
<1> QED  BY <1>7, <1>8, <1>10, <1>11, <1>12

-----------------------------------------------------------------------------
(* The end of a pass.                                                      *)

\* A pass that is rolled back holds nothing and has changed nothing.
LEMMA EndKeeps ==
    ASSUME Inductive, NEW p \in Pass, End(p), UNCHANGED <<quiet, old, asking, raced>>,
           TypeOK', PromotedOnce',
           \A r \in Row \ raced : r \in asking => status'[r] = status[r],
           \A r \in Row \ raced : \A q \in Pass \ {p} :
              seen[q][r] # None => status'[r] = status[r]
    PROVE  Inductive'
<1> USE DEF Inductive
<1>1. /\ at'[p] = "idle" /\ todo'[p] = <<>> /\ kept'[p] = <<>> /\ verdict'[p] = "none"
      /\ \A r \in Row : seen'[p][r] = None /\ mine'[p][r] = None /\ added'[p][r] = 0
      /\ \A q \in Pass \ {p} :
            /\ at'[q] = at[q] /\ todo'[q] = todo[q] /\ kept'[q] = kept[q]
            /\ seen'[q] = seen[q] /\ mine'[q] = mine[q] /\ added'[q] = added[q]
            /\ verdict'[q] = verdict[q]
  BY DEF End, TypeOK
<1>2. Range(<<>>) = {} /\ \A r \in Row : Once(<<>>, r)
  BY DEF Range, Once
<1>3. Ahead(p)' = {} /\ \A q \in Pass \ {p} : Ahead(q)' = Ahead(q)
  BY <1>1, <1>2 DEF Ahead
<1>4. Stages' /\ ReadFirst'
  BY <1>1, <1>3 DEF Stages, ReadFirst
<1>5. OnceAhead' /\ Counted'
  BY <1>1, <1>2, <1>3 DEF OnceAhead, Counted
<1>6. Alone'
  <2> SUFFICES ASSUME NEW r \in Row, r \notin raced
               PROVE  /\ \A q, v \in Pass : seen'[q][r] # None /\ seen'[v][r] # None => q = v
                      /\ \A q \in Pass : seen'[q][r] # None =>
                            /\ status'[r] \in {"pending", "failed"}
                            /\ at'[q] = "retrying" => status'[r] = "pending"
                      /\ r \in asking => status'[r] = "pending" /\ \A q \in Pass : seen'[q][r] = None
    BY DEF Alone
  <2>1. \A q \in Pass : seen'[q][r] # None => q # p /\ seen[q][r] # None
    BY <1>1
  <2> QED  BY <1>1, <2>1 DEF Alone
<1> QED  BY <1>4, <1>5, <1>6

\* What End leaves is well typed.
LEMMA EndTyped ==
    ASSUME TypeOK, NEW p \in Pass, End(p)
    PROVE  /\ at' \in [Pass -> {"idle", "visiting", "retrying", "checking", "applying"}]
           /\ todo' \in [Pass -> Seq(Row)]
           /\ kept' \in [Pass -> Seq(Row)]
           /\ seen' \in [Pass -> [Row -> Version \cup {None}]]
           /\ mine' \in [Pass -> [Row -> Version \cup {None}]]
           /\ added' \in [Pass -> [Row -> Nat]]
           /\ verdict' \in [Pass -> {"none", "promoted", "skipped", "failed"}]
<1>1. <<>> \in Seq(Row)
  OBVIOUS
<1> QED  BY <1>1 DEF End, TypeOK

\* Rolled back by a failure, or to end a deadlock.
LEMMA RollbackKeeps ==
    ASSUME Inductive, NEW p \in Pass, Abort(p) \/ Deadlock(p)
    PROVE  Inductive'
<1> USE DEF Inductive
<1>1. /\ End(p) /\ UNCHANGED <<status, failures, copies, quiet, old, asking, raced>>
      /\ upsets' \in 0 .. MaxUpsets
  BY ConstantsAssumption DEF Abort, Deadlock, rowVars, TypeOK
<1>2. TypeOK'
  BY <1>1, EndTyped DEF TypeOK
<1>3. PromotedOnce'
  BY <1>1 DEF PromotedOnce
<1> QED  BY <1>1, <1>2, <1>3, EndKeeps

\* A commit changes a row that was not raced for only if it was open, and then counts its memory.
LEMMA CommitKeeps ==
    ASSUME Inductive, NEW p \in Pass, Commit(p)
    PROVE  /\ Inductive'
           /\ \A r \in Row \ raced : seen[p][r] = None => status'[r] = status[r]
<1> USE DEF Inductive
<1>1. /\ at[p] = "applying" /\ todo[p] = <<>> /\ End(p)
      /\ UNCHANGED <<quiet, old, asking, raced, upsets>>
  BY DEF Commit
<1>2. ASSUME NEW r \in Row
      PROVE  /\ status'[r] = IF mine[p][r] = None THEN status[r] ELSE mine[p][r].status
             /\ failures'[r] = IF mine[p][r] = None THEN failures[r] ELSE mine[p][r].failures
             /\ copies'[r] = copies[r] + added[p][r]
             /\ status'[r] \in State /\ failures'[r] \in Nat /\ copies'[r] \in Nat
  <2>1. mine[p][r] \in Version \cup {None} /\ copies[r] \in Nat /\ added[p][r] \in Nat
    BY DEF TypeOK
  <2>2. mine[p][r] # None => mine[p][r].status \in State /\ mine[p][r].failures \in Nat
    BY <2>1 DEF Version
  <2> QED  BY <2>1, <2>2 DEF Commit, TypeOK
<1>3. TypeOK'
  <2>1. /\ status' \in [Row -> State] /\ failures' \in [Row -> Nat] /\ copies' \in [Row -> Nat]
    BY <1>2 DEF Commit
  <2> QED  BY <1>1, <2>1, EndTyped DEF TypeOK
<1>4. verdict[p] = "none"
  BY <1>1 DEF Stages
<1>5. ASSUME NEW r \in Row, r \notin raced, seen[p][r] = None
      PROVE  status'[r] = status[r] /\ copies'[r] = copies[r]
  <2>1. mine[p][r] = None /\ added[p][r] = 0 /\ copies[r] \in Nat
    BY <1>5 DEF ReadFirst, TypeOK
  <2> QED  BY <1>2, <2>1
<1>6. PromotedOnce'
  <2> SUFFICES ASSUME NEW r \in Row, r \notin raced
               PROVE  copies'[r] = IF status'[r] = "promoted" THEN 1 ELSE 0
    BY <1>1 DEF PromotedOnce
  <2>1. CASE seen[p][r] = None
    BY <1>5, <2>1 DEF PromotedOnce
  <2>2. CASE seen[p][r] # None
    <3>1. status[r] \in {"pending", "failed"}
      BY <2>2 DEF Alone
    <3>2. copies[r] = 0
      BY <3>1 DEF PromotedOnce
    <3>3. added[p][r] = IF mine[p][r] # None /\ mine[p][r].status = "promoted" THEN 1 ELSE 0
      BY <1>4 DEF Counted
    <3> QED  BY <1>2, <3>1, <3>2, <3>3
  <2> QED  BY <2>1, <2>2
<1>7. \A r \in Row \ raced : r \in asking => status'[r] = status[r]
  BY <1>5 DEF Alone
<1>8. \A r \in Row \ raced : \A q \in Pass \ {p} : seen[q][r] # None => status'[r] = status[r]
  BY <1>5 DEF Alone
<1>9. Inductive'
  BY <1>1, <1>3, <1>6, <1>7, <1>8, EndKeeps
<1> QED  BY <1>5, <1>9

-----------------------------------------------------------------------------
(* The theorems.                                                           *)

\* What one pass does.
LEMMA PassKeeps ==
    ASSUME Inductive, NEW p \in Pass, Advance(p) \/ Abort(p)
    PROVE  Inductive'
<1>1. ASSUME NEW v \in {"promoted", "skipped", "failed"}, Apply(p, v)
      PROVE  Inductive'
  BY <1>1, ApplyKeeps
<1> QED
  BY <1>1, ReadingKeeps, CheckKeeps, ResetKeeps, PromoteKeeps, MarkKeeps, CommitKeeps, RollbackKeeps
     DEF Advance

\* The strengthened invariant holds in every reachable state.
THEOREM InductiveHolds == Spec => []Inductive
<1>1. Init => Inductive
  <2> SUFFICES ASSUME Init
               PROVE  Inductive
    OBVIOUS
  <2>1. <<>> \in Seq(Row) /\ Range(<<>>) = {} /\ \A r \in Row : Once(<<>>, r)
    BY DEF Range, Once
  <2>2. upsets \in 0 .. MaxUpsets /\ old \in 0 .. Rows
    BY ConstantsAssumption DEF Init
  <2>3. TypeOK
    BY <2>1, <2>2 DEF Init, TypeOK, State
  <2>4. Stages /\ ReadFirst /\ Alone /\ OnceAhead /\ Counted /\ PromotedOnce
    BY <2>1 DEF Init, Stages, ReadFirst, Alone, OnceAhead, Counted, PromotedOnce, Ahead
  <2> QED  BY <2>3, <2>4 DEF Inductive
<1>2. Inductive /\ [Next]_vars => Inductive'
  <2> SUFFICES ASSUME Inductive, [Next]_vars
               PROVE  Inductive'
    OBVIOUS
  <2>1. CASE \E r \in Row : Queue(r) \/ CancelRead(r) \/ CancelWrite(r)
    BY <2>1, QueueKeeps, CancelReadKeeps, CancelWriteKeeps
  <2>2. CASE Age \/ \E s \in Session : Quieten(s) \/ Reply(s)
    BY <2>2, TimeKeeps
  <2>3. CASE \E p \in Hook, s \in Session : HookList(p, s)
    BY <2>3, ReadingKeeps DEF Hook
  <2>4. CASE \E p \in Sweep : Visit(p)
    BY <2>4, VisitKeeps, ConstantsAssumption
  <2>5. CASE \E p \in Pass : Advance(p) \/ Abort(p)
    BY <2>5, PassKeeps
  <2>6. CASE UNCHANGED vars
    BY <2>6 DEF vars, rowVars, passVars, Inductive, TypeOK, Stages, ReadFirst, Alone, OnceAhead,
                Counted, PromotedOnce, Ahead
  <2> QED  BY <2>1, <2>2, <2>3, <2>4, <2>5, <2>6 DEF Next
<1> QED  BY <1>1, <1>2, PTL DEF Spec

\* Rows, passes and what they hold are well typed; a pass never marks a row it has not read.
THEOREM TypeCorrect == Spec => []TypeOK
<1>1. Inductive => TypeOK
  BY DEF Inductive
<1> QED  BY <1>1, InductiveHolds, PTL

\* A row that was not raced for makes one memory when it is promoted and none otherwise.
THEOREM PromotedOnceHolds == Spec => []PromotedOnce
<1>1. Inductive => PromotedOnce
  BY DEF Inductive
<1> QED  BY <1>1, InductiveHolds, PTL

\* A read takes up open rows only, and changes no row.
LEMMA TakeLeavesSettled ==
    ASSUME Inductive, NEW p \in Pass,
           (\E s \in Session : HookList(p, s)) \/ SweepList(p) \/ SweepRetry(p),
           NEW r \in Row, status[r] \in Settled
    PROVE  Readers(r)' \subseteq Readers(r) /\ UNCHANGED <<rowVars, asking>>
<1>1. PICK list, stage : /\ Take(p, list, stage)
                         /\ \A x \in Range(list) : status[x] \in {"pending", "failed"}
  <2>1. ASSUME NEW S \in SUBSET Row, NEW list \in Oldest(S),
               \A x \in S : status[x] \in {"pending", "failed"}
        PROVE  \A x \in Range(list) : status[x] \in {"pending", "failed"}
    BY <2>1, OldestList
  <2>2. ASSUME NEW s \in Session, HookList(p, s)
        PROVE  \E list : /\ Take(p, list, "applying")
                         /\ \A x \in Range(list) : status[x] \in {"pending", "failed"}
    <3> DEFINE wanted == {x \in Row : status[x] = "pending" /\ SessionOf[x] = s}
    <3>1. PICK list \in Oldest(wanted) : Take(p, list, "applying")
      BY <2>2 DEF HookList
    <3> QED  BY <2>1, <3>1
  <2>3. 1 .. old \subseteq Row
    BY ConstantsAssumption DEF Inductive, TypeOK, Row
  <2>4. ASSUME SweepList(p)
        PROVE  \E list : /\ Take(p, list, "retrying")
                         /\ \A x \in Range(list) : status[x] \in {"pending", "failed"}
    <3> DEFINE wanted == {x \in 1 .. old : status[x] = "pending"}
    <3>1. PICK list \in Oldest(wanted) : Take(p, list, "retrying")
      BY <2>4 DEF SweepList
    <3>2. wanted \in SUBSET Row
      BY <2>3
    <3> QED  BY <2>1, <3>1, <3>2
  <2>5. ASSUME SweepRetry(p)
        PROVE  \E list : /\ Take(p, list, "checking")
                         /\ \A x \in Range(list) : status[x] \in {"pending", "failed"}
    <3> DEFINE wanted == {x \in 1 .. old : status[x] = "failed" /\ failures[x] < MaxFailures}
    <3>1. PICK list \in Oldest(wanted) : Take(p, list, "checking")
      BY <2>5 DEF SweepRetry
    <3>2. wanted \in SUBSET Row
      BY <2>3
    <3> QED  BY <2>1, <3>1, <3>2
  <2> QED  BY <2>2, <2>4, <2>5
<1>2. r \notin Range(list)
  BY <1>1 DEF Settled
<1>3. \A q \in Pass : seen'[q][r] = seen[q][r]
  BY <1>1, <1>2 DEF Take, Inductive, TypeOK
<1>4. UNCHANGED <<rowVars, asking>>
  BY DEF HookList, SweepList, SweepRetry
<1> QED  BY <1>3, <1>4 DEF Readers

\* A pass that ends lets go of its rows, and can have changed only rows it held.
LEMMA EndLeavesSettled ==
    ASSUME Inductive, NEW p \in Pass, Commit(p) \/ Abort(p) \/ Deadlock(p),
           NEW r \in Row
    PROVE  /\ Readers(r)' = Readers(r) \ {p}
           /\ asking' = asking
           /\ p \in Readers(r) \/ UNCHANGED <<status[r], failures[r], copies[r]>>
<1>1. /\ End(p) /\ asking' = asking
      /\ \/ UNCHANGED rowVars
         \/ /\ status'[r] = IF mine[p][r] = None THEN status[r] ELSE mine[p][r].status
            /\ failures'[r] = IF mine[p][r] = None THEN failures[r] ELSE mine[p][r].failures
            /\ copies'[r] = copies[r] + added[p][r]
  BY DEF Commit, Abort, Deadlock
<1>2. Readers(r)' = Readers(r) \ {p}
  BY <1>1 DEF Readers, End, Inductive, TypeOK
<1>3. p \in Readers(r) \/ (mine[p][r] = None /\ added[p][r] = 0 /\ copies[r] \in Nat)
  BY DEF Readers, Inductive, ReadFirst, TypeOK
<1> QED  BY <1>1, <1>2, <1>3 DEF rowVars

\* A settled row is taken up by nobody, and written again only by those who hold it since
\* before it settled, by each once at most.
THEOREM SettledStaysHolds == Spec => SettledStays
<1> DEFINE Stays(r) == /\ Readers(r)' \subseteq Readers(r)
                       /\ r \in asking' => r \in asking
                       /\ \/ UNCHANGED <<status[r], failures[r], copies[r]>>
                          \/ Readers(r)' # Readers(r)
                          \/ r \in asking \ asking'
<1>1. Inductive /\ [Next]_vars => [\A r \in Row : status[r] \in Settled => Stays(r)]_vars
  <2> SUFFICES ASSUME Inductive, [Next]_vars, NEW r \in Row, status[r] \in Settled
               PROVE  Stays(r)
    OBVIOUS
  <2>1. ASSUME NEW x \in Row, Queue(x) \/ CancelRead(x) \/ CancelWrite(x)
        PROVE  Stays(r)
    <3>1. Readers(r)' = Readers(r)
      BY <2>1 DEF Queue, CancelRead, CancelWrite, passVars, Readers
    <3>2. CASE Queue(x)
      BY <3>1, <3>2 DEF Queue, Settled, Inductive, TypeOK
    <3>3. CASE CancelRead(x)
      BY <3>1, <3>3 DEF CancelRead, Settled, rowVars
    <3>4. CASE CancelWrite(x)
      BY <3>1, <3>4 DEF CancelWrite, Inductive, TypeOK
    <3> QED  BY <2>1, <3>2, <3>3, <3>4
  <2>2. CASE UNCHANGED <<rowVars, asking>> /\ Readers(r)' \subseteq Readers(r)
    BY <2>2 DEF rowVars
  <2>3. CASE \E s \in Session : Quieten(s) \/ Reply(s)
    BY <2>2, <2>3 DEF Quieten, Reply, passVars, Readers
  <2>4. CASE Age
    BY <2>2, <2>4 DEF Age, passVars, Readers
  <2>5. CASE \E p \in Sweep : Visit(p)
    BY <2>2, <2>5 DEF Visit, Readers
  <2>6. ASSUME NEW p \in Pass, (\E s \in Session : HookList(p, s)) \/ SweepList(p) \/ SweepRetry(p)
        PROVE  Stays(r)
    BY <2>2, <2>6, TakeLeavesSettled
  <2>7. ASSUME NEW p \in Pass, Commit(p) \/ Abort(p) \/ Deadlock(p)
        PROVE  Stays(r)
    <3>1. /\ Readers(r)' = Readers(r) \ {p} /\ asking' = asking
          /\ p \in Readers(r) \/ UNCHANGED <<status[r], failures[r], copies[r]>>
      BY <2>7, EndLeavesSettled
    <3> QED  BY <3>1
  <2>8. ASSUME NEW p \in Pass, Check(p) \/ Promote(p) \/ Mark(p)
                               \/ \E v \in {"promoted", "skipped", "failed"} : Apply(p, v)
        PROVE  Stays(r)
    BY <2>2, <2>8 DEF Check, Promote, Mark, Apply, Readers
  <2>9. ASSUME NEW p \in Pass, Reset(p)
        PROVE  Stays(r)
    <3> DEFINE x == Last(kept[p])
    <3>1. kept[p] # <<>> /\ kept[p] \in Seq(Row)
      BY <2>9 DEF Reset, ToReset, Inductive, TypeOK
    <3>2. x \in Row /\ seen[p][x] # None
      BY <3>1, LastIn DEF Inductive, ReadFirst, Ahead
    <3>3. \A q \in Pass : seen'[q][r] = seen[q][r] \/ (q = p /\ r = x)
      BY <2>9, <3>2 DEF Reset, Inductive, TypeOK
    <3>4. Readers(r)' \subseteq Readers(r)
      BY <3>2, <3>3 DEF Readers
    <3>5. UNCHANGED <<rowVars, asking>>
      BY <2>9 DEF Reset
    <3> QED  BY <2>2, <3>4, <3>5
  <2>10. CASE UNCHANGED vars
    BY <2>2, <2>10 DEF vars, passVars, Readers
  <2> QED
    BY <2>1, <2>3, <2>4, <2>5, <2>6, <2>7, <2>8, <2>9, <2>10 DEF Next, Advance, Hook
<1> QED  BY <1>1, InductiveHolds, PTL DEF Spec, SettledStays

-----------------------------------------------------------------------------
(* How often a row is tried.                                               *)

\* A row that was not raced for is given up after MaxFailures failures, and one that FAILED
\* before is always one the sweep's query for retries may return.
RetriesBounded ==
    \A r \in Row \ raced :
        /\ failures[r] <= MaxFailures
        /\ status[r] = "failed" => failures[r] < MaxFailures

\* The count is the committed one wherever such a row is in hand, and an open row is below
\* the ceiling, committed or not.
TriesCounted ==
    \A r \in Row \ raced :
        /\ failures[r] <= MaxFailures
        /\ status[r] \notin Settled => failures[r] < MaxFailures
        /\ \A p \in Pass :
              /\ seen[p][r] # None => seen[p][r].failures = failures[r]
              /\ mine[p][r] # None =>
                    /\ mine[p][r].failures <= MaxFailures
                    /\ mine[p][r].status \notin Settled => mine[p][r].failures < MaxFailures

\* A read gives the committed count of a row to an object that was not loaded before.
LEMMA TakeCounts ==
    ASSUME TypeOK, TriesCounted, NEW p \in Pass, NEW list, NEW stage, Take(p, list, stage),
           UNCHANGED <<rowVars, mine>>
    PROVE  TriesCounted'
<1>1. raced \subseteq raced' /\ UNCHANGED <<status, failures, mine>>
  BY DEF Take, rowVars
<1>2. ASSUME NEW r \in Row, NEW q \in Pass
      PROVE  \/ seen'[q][r] = seen[q][r]
             \/ seen'[q][r] = [status |-> status[r], failures |-> failures[r]]
  BY DEF Take, TypeOK
<1>3. ASSUME NEW r \in Row, r \notin raced', NEW q \in Pass, seen'[q][r] # None
      PROVE  seen'[q][r].failures = failures[r]
  <2>1. CASE seen'[q][r] = seen[q][r]
    BY <1>1, <1>3, <2>1 DEF TriesCounted
  <2>2. CASE seen'[q][r] = [status |-> status[r], failures |-> failures[r]]
    BY <2>2
  <2> QED  BY <1>2, <2>1, <2>2
<1> QED  BY <1>1, <1>3 DEF TriesCounted

\* A row is reset with the committed count.
LEMMA ResetCounts ==
    ASSUME Inductive, TriesCounted, NEW p \in Pass, Reset(p)
    PROVE  TriesCounted'
<1> DEFINE x == Last(kept[p])
           row == [status |-> "pending", failures |-> failures[x]]
<1>1. /\ kept[p] # <<>>
      /\ mine' = [mine EXCEPT ![p][x] = row]
      /\ seen' = [seen EXCEPT ![p][x] = row]
      /\ UNCHANGED <<status, failures, raced>>
  BY DEF Reset, ToReset, rowVars
<1>2. x \in Row /\ x \in Range(kept[p])
  BY <1>1, LastIn DEF Inductive, TypeOK
<1>3. seen[p][x] # None
  BY <1>2 DEF Inductive, ReadFirst, Ahead
<1>4. x \notin raced => failures[x] < MaxFailures /\ failures[x] <= MaxFailures
  BY <1>2, <1>3 DEF Inductive, Alone, TriesCounted, Settled
<1>5. row.status = "pending" /\ row.failures = failures[x]
  OBVIOUS
<1> HIDE DEF x, row
<1>6. /\ mine'[p][x] = row /\ seen'[p][x] = row
      /\ \A q \in Pass : \A r \in Row : q # p \/ r # x =>
            mine'[q][r] = mine[q][r] /\ seen'[q][r] = seen[q][r]
  BY <1>1, <1>2 DEF Inductive, TypeOK
<1> QED  BY <1>1, <1>4, <1>5, <1>6 DEF TriesCounted

\* The count a pass writes is at most one above the committed one, which is below the
\* ceiling as long as the row is open.
LEMMA MarkCounts ==
    ASSUME Inductive, TriesCounted, NEW p \in Pass, Mark(p)
    PROVE  TriesCounted'
<1> DEFINE x == Head(todo[p])
           row == Outcome(p, x)
<1>1. /\ todo[p] # <<>> /\ verdict[p] \in {"promoted", "skipped", "failed"}
      /\ mine' = [mine EXCEPT ![p][x] = row]
      /\ UNCHANGED <<status, failures, seen, raced>>
  BY DEF Mark, rowVars, Inductive, Stages, TypeOK
<1>2. x \in Row /\ x \in Range(todo[p])
  BY <1>1, Shortened DEF Inductive, TypeOK
<1>3. seen[p][x] # None
  BY <1>2 DEF Inductive, ReadFirst, Ahead
<1> DEFINE stored == IF mine[p][x] # None THEN mine[p][x].failures ELSE failures[x]
           count == IF mine[p][x] # None THEN mine[p][x].failures + 1
                    ELSE seen[p][x].failures + 1
<1>4. x \notin raced => stored < MaxFailures /\ count = stored + 1
  <2>1. x \notin raced => seen[p][x].failures = failures[x] /\ failures[x] < MaxFailures
    BY <1>2, <1>3 DEF Inductive, Alone, TriesCounted, Settled
  <2>2. x \notin raced /\ mine[p][x] # None => mine[p][x].failures < MaxFailures
    BY <1>2 DEF Inductive, OnceAhead, Ahead, TriesCounted, Settled
  <2> QED  BY <2>1, <2>2
<1>5. stored \in Nat /\ MaxFailures \in Nat
  <2>1. failures[x] \in Nat /\ mine[p][x] \in Version \cup {None}
    BY <1>2 DEF Inductive, TypeOK
  <2> QED  BY <2>1, ConstantsAssumption DEF Version
<1>6. x \notin raced => /\ row.failures <= MaxFailures
                        /\ row.status \notin Settled => row.failures < MaxFailures
  <2> SUFFICES ASSUME x \notin raced
               PROVE  /\ row.failures <= MaxFailures
                      /\ row.status \notin Settled => row.failures < MaxFailures
    OBVIOUS
  <2>1. CASE verdict[p] # "failed"
    <3>1. row = [status |-> verdict[p], failures |-> stored]
      BY <2>1 DEF Outcome
    <3>2. row.status = verdict[p] /\ row.failures = stored
      BY <3>1
    <3> HIDE DEF stored, row
    <3> QED  BY <1>1, <1>4, <1>5, <2>1, <3>2 DEF Settled
  <2>2. CASE verdict[p] = "failed" /\ count < MaxFailures
    <3>1. row = [status |-> "failed", failures |-> count]
      BY <2>2 DEF Outcome
    <3>2. row.failures = count
      BY <3>1
    <3> HIDE DEF stored, count, row
    <3> QED  BY <1>4, <1>5, <2>2, <3>2
  <2>3. CASE verdict[p] = "failed" /\ ~(count < MaxFailures)
    <3>1. row = [status |-> "skipped", failures |-> count]
      BY <2>3 DEF Outcome
    <3>2. row.status = "skipped" /\ row.failures = count
      BY <3>1
    <3> HIDE DEF stored, count, row
    <3> QED  BY <1>4, <1>5, <3>2 DEF Settled
  <2> QED  BY <2>1, <2>2, <2>3
<1> HIDE DEF x, row
<1>7. /\ mine'[p][x] = row
      /\ \A q \in Pass : \A r \in Row : q # p \/ r # x => mine'[q][r] = mine[q][r]
  BY <1>1, <1>2 DEF Inductive, TypeOK
<1> QED  BY <1>1, <1>6, <1>7 DEF TriesCounted

\* A pass that ends holds nothing, and its commit publishes counts within the ceiling.
LEMMA EndCounts ==
    ASSUME Inductive, TriesCounted, NEW p \in Pass, Commit(p) \/ Abort(p) \/ Deadlock(p)
    PROVE  TriesCounted'
<1>1. /\ End(p) /\ raced' = raced
      /\ \A r \in Row : \/ status'[r] = status[r] /\ failures'[r] = failures[r]
                        \/ /\ mine[p][r] # None
                           /\ status'[r] = mine[p][r].status
                           /\ failures'[r] = mine[p][r].failures
  BY DEF Commit, Abort, Deadlock, rowVars
<1>2. \A q \in Pass : \A r \in Row :
         \/ q = p /\ seen'[q][r] = None /\ mine'[q][r] = None
         \/ q # p /\ seen'[q][r] = seen[q][r] /\ mine'[q][r] = mine[q][r]
  BY <1>1 DEF End, Inductive, TypeOK
<1>3. ASSUME NEW r \in Row, r \notin raced, NEW q \in Pass, seen'[q][r] # None
      PROVE  seen'[q][r].failures = failures'[r]
  <2>1. q # p /\ seen[q][r] # None /\ seen'[q][r] = seen[q][r]
    BY <1>2, <1>3
  <2>2. seen[p][r] = None
    BY <1>3, <2>1 DEF Inductive, Alone
  <2>3. failures'[r] = failures[r]
    BY <1>1, <2>2 DEF Inductive, ReadFirst
  <2> QED  BY <1>3, <2>1, <2>3 DEF TriesCounted
<1>4. ASSUME NEW r \in Row, r \notin raced
      PROVE  /\ failures'[r] <= MaxFailures
             /\ status'[r] \notin Settled => failures'[r] < MaxFailures
  BY <1>1, <1>4 DEF TriesCounted
<1> QED  BY <1>1, <1>2, <1>3, <1>4 DEF TriesCounted

\* The other steps of a pass leave the counts alone.
LEMMA PassCounts ==
    ASSUME Inductive, TriesCounted, NEW p \in Pass, Advance(p) \/ Abort(p)
    PROVE  TriesCounted'
<1>1. CASE SweepList(p) \/ SweepRetry(p)
  <2>1. PICK list, stage : Take(p, list, stage)
    BY <1>1 DEF SweepList, SweepRetry
  <2>2. UNCHANGED <<rowVars, mine>>
    BY <1>1 DEF SweepList, SweepRetry
  <2> QED  BY <2>1, <2>2, TakeCounts DEF Inductive
<1>2. CASE UNCHANGED <<status, failures, seen, mine, raced>>
  BY <1>2 DEF TriesCounted
<1>3. CASE Check(p) \/ Promote(p) \/ \E v \in {"promoted", "skipped", "failed"} : Apply(p, v)
  BY <1>2, <1>3 DEF Check, Promote, Apply, rowVars
<1> QED
  BY <1>1, <1>3, ResetCounts, MarkCounts, EndCounts DEF Advance

\* A memory that keeps failing is tried MaxFailures times, however the tries are spread over
\* hooks and sweeps and however often they roll back, and no FAILED row is left that the
\* query for retries passes over.
THEOREM RetriesBoundedHolds == Spec => []RetriesBounded
<1>1. Init => TriesCounted
  BY ConstantsAssumption DEF Init, TriesCounted
<1>2. Inductive /\ TriesCounted /\ [Next]_vars => TriesCounted'
  <2> SUFFICES ASSUME Inductive, TriesCounted, [Next]_vars
               PROVE  TriesCounted'
    OBVIOUS
  <2>1. ASSUME NEW r \in Row, Queue(r) \/ CancelRead(r) \/ CancelWrite(r)
        PROVE  TriesCounted'
    <3>1. /\ UNCHANGED <<failures, seen, mine>> /\ raced \subseteq raced'
          /\ \A x \in Row : status'[x] \notin Settled => status[x] \notin Settled
      BY <2>1 DEF Queue, CancelRead, CancelWrite, rowVars, passVars, Settled, Inductive, TypeOK
    <3> QED  BY <3>1 DEF TriesCounted
  <2>2. CASE Age \/ \E s \in Session : Quieten(s) \/ Reply(s)
    BY <2>2 DEF Quieten, Reply, Age, rowVars, passVars, TriesCounted
  <2>3. ASSUME NEW p \in Hook, NEW s \in Session, HookList(p, s)
        PROVE  TriesCounted'
    <3>1. PICK list : Take(p, list, "applying")
      BY <2>3 DEF HookList
    <3>2. UNCHANGED <<rowVars, mine>>
      BY <2>3 DEF HookList
    <3> QED  BY <3>1, <3>2, TakeCounts DEF Inductive, Hook
  <2>4. CASE \E p \in Sweep : Visit(p)
    BY <2>4 DEF Visit, rowVars, TriesCounted
  <2>5. CASE \E p \in Pass : Advance(p) \/ Abort(p)
    BY <2>5, PassCounts
  <2>6. CASE UNCHANGED vars
    BY <2>6 DEF vars, rowVars, passVars, TriesCounted
  <2> QED  BY <2>1, <2>2, <2>3, <2>4, <2>5, <2>6 DEF Next
<1>3. TriesCounted => RetriesBounded
  BY DEF TriesCounted, RetriesBounded, Settled
<1> QED  BY <1>1, <1>2, <1>3, InductiveHolds, PTL DEF Spec
=============================================================================
