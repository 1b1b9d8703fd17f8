--------------------------- MODULE JobTableProofs ---------------------------
(***************************************************************************)
(* Lemmas about the transactions of JobTable, for any number of jobs and   *)
(* assets and any limits: what each of them does to the invariants of the  *)
(* table, to answers given, and to the jobs that are running.              *)
(***************************************************************************)
EXTENDS JobTable, FiniteSetTheorems, WellFoundedInduction, TLAPS

-----------------------------------------------------------------------------
(* Finite sets of naturals.                                                *)

\* Every non-empty set of naturals has a least element.
LEMMA LeastNatural ==
  ASSUME NEW T \in SUBSET Nat, T # {}
  PROVE  \E n \in T : \A m \in T : n <= m
<1>1. PICK n \in T : \A m \in T : ~ (<<m, n>> \in OpToRel(<, Nat))
  BY NatLessThanWellFounded, WFMin
<1>2. ASSUME NEW m \in T PROVE n <= m
  <2>1. <<m, n>> \in Nat \X Nat
    OBVIOUS
  <2>2. ~ (m < n)
    BY <1>1, <2>1 DEF OpToRel
  <2> QED BY <2>2
<1> QED BY <1>2

\* Max picks the greatest element: the one with the fewest above it.
LEMMA MaxIsGreatest ==
  ASSUME NEW S \in SUBSET Nat, IsFiniteSet(S), S # {}
  PROVE  Max(S) \in S /\ \A x \in S : Max(S) >= x
<1> DEFINE above(x) == {y \in S : y > x}
           counts == {Cardinality(above(x)) : x \in S}
<1>1. \A x \in S : IsFiniteSet(above(x)) /\ Cardinality(above(x)) \in Nat
  BY FS_Subset, FS_CardinalityType
<1>2. counts \in SUBSET Nat /\ counts # {}
  BY <1>1
<1>3. PICK n \in counts : \A m \in counts : n <= m
  <2> HIDE DEF counts
  <2> QED BY <1>2, LeastNatural
<1>4. PICK x \in S : n = Cardinality(above(x))
  OBVIOUS
<1>5. ASSUME NEW y \in S, y > x PROVE FALSE
  <2>1. above(y) \in SUBSET above(x) /\ y \in above(x) /\ y \notin above(y)
    <3>1. x \in Nat /\ y \in Nat /\ \A z \in S : z \in Nat
      OBVIOUS
    <3>2. \A z \in S : z > y => z > x
      BY <1>5, <3>1
    <3>3. ~ (y > y)
      BY <3>1
    <3> QED BY <1>5, <3>2, <3>3
  <2>2. Cardinality(above(x)) <= Cardinality(above(y))
    BY <1>3, <1>4
  <2>3. /\ Cardinality(above(y)) <= Cardinality(above(x))
        /\ Cardinality(above(x)) = Cardinality(above(y)) => above(x) = above(y)
    <3> HIDE DEF above
    <3> QED BY <1>1, <2>1, FS_Subset
  <2>4. Cardinality(above(x)) \in Nat /\ Cardinality(above(y)) \in Nat
    BY <1>1
  <2> HIDE DEF above
  <2> QED BY <2>1, <2>2, <2>3, <2>4
<1>6. \A y \in S : x >= y
  BY <1>5
<1> QED BY <1>6 DEF Max

-----------------------------------------------------------------------------
(* The operators on rows.                                                  *)

LEMMA SetsOfIds ==
  ASSUME NEW S \in SUBSET Ids
  PROVE  IsFiniteSet(S) /\ Cardinality(S) \in Nat /\ S \in SUBSET Nat
<1>1. IsFiniteSet(Ids) /\ Ids \in SUBSET Nat
  BY TableAssumption, FS_Interval DEF Ids
<1> QED BY <1>1, FS_Subset, FS_CardinalityType

LEMMA NowType ==
  ASSUME NEW rows \in Rows
  PROVE  Now(rows) \in Nat
<1> DEFINE times == {rows[j].finishedAt : j \in Ids}
           f == [j \in Ids |-> rows[j].finishedAt]
<1>1. f \in Surjection(Ids, times)
  BY DEF Surjection
<1>2. IsFiniteSet(times)
  <2> HIDE DEF f, times
  <2> QED BY <1>1, SetsOfIds, FS_Surjection
<1>3. times \in SUBSET Nat
  BY DEF Rows, Row
<1>4. IsFiniteSet({0} \cup times) /\ {0} \cup times \in SUBSET Nat
  <2>1. {0} \cup times = times \cup {0}
    OBVIOUS
  <2> HIDE DEF times
  <2> QED BY <1>2, <1>3, <2>1, FS_AddElement
<1>5. Max({0} \cup times) \in Nat
  <2> HIDE DEF times
  <2> QED BY <1>4, MaxIsGreatest
<1> QED BY <1>5 DEF Now

LEMMA NoRowType == NoRow \in Row /\ NoRow.state = "none"
BY DEF NoRow, Row, NoRequest

LEMMA AnsweredType ==
  ASSUME NEW row \in Row, NEW outcome \in TerminalStates, NEW now \in Nat
  PROVE  /\ Answered(row, outcome, now) \in Row
         /\ Answered(row, outcome, now).state \in TerminalStates
         /\ row.cancelRequested => Answered(row, outcome, now).state = "cancelled"
BY DEF Answered, Row, TerminalStates

\* A prune leaves a row as it is, or takes a terminal one away.
LEMMA PrunedRows ==
  ASSUME NEW rows \in Rows, NEW cutoff
  PROVE  /\ Pruned(rows, cutoff) \in Rows
         /\ \A j \in Ids : \/ Pruned(rows, cutoff)[j] = rows[j]
                           \/ /\ rows[j].state \in TerminalStates
                              /\ Pruned(rows, cutoff)[j] = NoRow
BY NoRowType DEF Pruned, Rows, Terminal

\* A prune leaves at most MaxTerminal terminal rows: all but the oldest of
\* those it leaves finished after that one.
LEMMA PruneBounds ==
  ASSUME NEW rows \in Rows, NEW cutoff
  PROVE  Cardinality(Terminal(Pruned(rows, cutoff))) <= MaxTerminal
<1> DEFINE K == Terminal(Pruned(rows, cutoff))
<1>1. K \in SUBSET Ids /\ IsFiniteSet(K) /\ Cardinality(K) \in Nat
  BY SetsOfIds DEF Terminal
<1>2. \A j \in K : /\ rows[j].state \in TerminalStates
                   /\ rows[j].finishedAt \in Nat
                   /\ Cardinality(FinishedAfter(rows, j)) < MaxTerminal
  <2> TAKE j \in K
  <2>1. j \in Ids /\ Pruned(rows, cutoff)[j].state \in TerminalStates
    BY DEF Terminal
  <2>2. Pruned(rows, cutoff)[j] # NoRow
    BY <2>1, NoRowType DEF TerminalStates
  <2>3. rows[j].state \in TerminalStates /\ rows[j].finishedAt \in Nat
    BY <2>1, <2>2, PrunedRows DEF Rows, Row
  <2>4. ~(Cardinality(FinishedAfter(rows, j)) >= MaxTerminal)
    BY <2>1, <2>2, <2>3 DEF Pruned, Terminal
  <2>5. Cardinality(FinishedAfter(rows, j)) \in Nat
    BY SetsOfIds DEF FinishedAfter, Terminal
  <2> QED BY <2>3, <2>4, <2>5, TableAssumption
<1>3. CASE K = {}
  BY <1>3, FS_EmptySet, TableAssumption
<1>4. CASE K # {}
  <2> DEFINE F == {rows[j].finishedAt : j \in K}
  <2>1. F \in SUBSET Nat /\ F # {}
    BY <1>2, <1>4
  <2>2. PICK f \in F : \A g \in F : f <= g
    <3> HIDE DEF F
    <3> QED BY <2>1, LeastNatural
  <2> DEFINE L == {j \in K : rows[j].finishedAt = f}
  <2>3. L \in SUBSET Nat /\ L # {}
    BY <1>1, <2>2, SetsOfIds
  <2>4. PICK m \in L : \A k \in L : m <= k
    <3> HIDE DEF L
    <3> QED BY <2>3, LeastNatural
  <2>5. m \in K /\ m \in Nat
    BY <2>3, <2>4
  <2>6. K \ {m} \in SUBSET FinishedAfter(rows, m)
    <3> SUFFICES ASSUME NEW k \in K, k # m PROVE k \in FinishedAfter(rows, m)
      OBVIOUS
    <3>1. k \in Ids /\ k \in Nat /\ k \in Terminal(rows)
      BY <1>1, <1>2, SetsOfIds DEF Terminal
    <3>2. rows[m].finishedAt = f /\ f \in Nat
      BY <2>1, <2>2, <2>4
    <3>3. rows[k].finishedAt \in Nat /\ f <= rows[k].finishedAt
      BY <1>2, <2>2
    <3>4. rows[k].finishedAt = f => k > m
      BY <2>4, <2>5, <3>1
    <3> HIDE DEF K, F, L
    <3> QED BY <3>1, <3>2, <3>3, <3>4 DEF FinishedAfter
  <2>7. FinishedAfter(rows, m) \in SUBSET Ids
    BY DEF FinishedAfter, Terminal
  <2>8. /\ IsFiniteSet(FinishedAfter(rows, m))
        /\ Cardinality(FinishedAfter(rows, m)) \in Nat
        /\ Cardinality(FinishedAfter(rows, m)) < MaxTerminal
    BY <1>2, <2>5, <2>7, SetsOfIds
  <2>9. Cardinality(K \ {m}) <= Cardinality(FinishedAfter(rows, m))
    <3> HIDE DEF K
    <3> QED BY <2>6, <2>8, FS_Subset
  <2>10. Cardinality(K \ {m}) = Cardinality(K) - 1
    <3> HIDE DEF K
    <3> QED BY <1>1, <2>5, FS_RemoveElement
  <2>11. Cardinality(K) <= MaxTerminal
    <3> HIDE DEF K
    <3> QED BY <1>1, <2>8, <2>9, <2>10, TableAssumption
  <2> QED BY <2>11
<1> QED BY <1>3, <1>4

-----------------------------------------------------------------------------
(* The inductive invariant of a table, and what a transaction does to one. *)

Unborn == \A j \in Ids : j > created => job[j].state = "none"

TableInv == TableTypeOK /\ Unborn /\ OneActivePerRequest /\ TableIsBounded

\* No row appears, no active job appears, and an active job is the same request.
Shrinks(rows, next) ==
  /\ next \in Rows
  /\ \A j \in Ids :
       /\ next[j].state # "none" => rows[j].state # "none"
       /\ next[j].state \in ActiveStates =>
            rows[j].state \in ActiveStates /\ next[j].request = rows[j].request

\* The action of CancelIsFinal.
KeepsAnswers(rows, next) ==
  \A j \in Ids :
    /\ rows[j].state = "running" /\ rows[j].cancelRequested =>
         \/ next[j].state = "running" /\ next[j].cancelRequested
         \/ next[j].state \in {"cancelled", "none"}
    /\ rows[j].state \in TerminalStates => next[j] \in {rows[j], NoRow}

\* The jobs of S that were running, or gone, stay so.
KeepsRunning(rows, next, S) ==
  \A j \in S :
    rows[j].state \in {"running", "none"} =>
      \/ next[j].state = "none"
      \/ next[j].state = "running" /\ rows[j].state = "running"
         /\ next[j].request = rows[j].request

LEMMA ShrinkingKeepsTableInv ==
  ASSUME TableInv, Shrinks(job, job'), created' = created
  PROVE  TableInv'
<1> USE DEF TableInv
<1>1. TableTypeOK'
  BY DEF TableTypeOK, Shrinks
<1>2. Unborn'
  BY DEF Unborn, Shrinks
<1>3. OneActivePerRequest'
  BY DEF OneActivePerRequest, ActiveMl, Active, Shrinks
<1>4. TableIsBounded'
  <2>1. /\ Active(job') \in SUBSET Active(job)
        /\ ActiveMl(job') \in SUBSET ActiveMl(job)
        /\ Existing(job') \in SUBSET Existing(job)
    BY DEF Shrinks, Active, ActiveMl, Existing
  <2>2. /\ Active(job) \in SUBSET Ids /\ Active(job') \in SUBSET Ids
        /\ ActiveMl(job) \in SUBSET Ids /\ ActiveMl(job') \in SUBSET Ids
        /\ Existing(job) \in SUBSET Ids /\ Existing(job') \in SUBSET Ids
    BY DEF Active, ActiveMl, Existing
  <2>3. /\ Cardinality(Active(job')) <= Cardinality(Active(job))
        /\ Cardinality(ActiveMl(job')) <= Cardinality(ActiveMl(job))
        /\ Cardinality(Existing(job')) <= Cardinality(Existing(job))
    BY <2>1, <2>2, SetsOfIds, FS_Subset
  <2>4. /\ Cardinality(Active(job)) \in Nat /\ Cardinality(Active(job')) \in Nat
        /\ Cardinality(ActiveMl(job)) \in Nat /\ Cardinality(ActiveMl(job')) \in Nat
        /\ Cardinality(Existing(job)) \in Nat /\ Cardinality(Existing(job')) \in Nat
    BY <2>2, SetsOfIds
  <2> QED BY <2>3, <2>4, TableAssumption DEF TableIsBounded
<1> QED BY <1>1, <1>2, <1>3, <1>4

\* A statement followed by a prune shrinks the table and keeps answers and
\* running jobs if the statement does.
LEMMA PruningKeeps ==
  ASSUME NEW rows \in Rows, NEW between, NEW next, NEW now, NEW S \in SUBSET Ids,
         Shrinks(rows, between), KeepsAnswers(rows, between),
         KeepsRunning(rows, between, S), next \in Prunings(between, now)
  PROVE  Shrinks(rows, next) /\ KeepsAnswers(rows, next) /\ KeepsRunning(rows, next, S)
<1>1. between \in Rows
  BY DEF Shrinks
<1>2. PICK cutoff : next = Pruned(between, cutoff)
  BY DEF Prunings
<1>3. /\ next \in Rows
      /\ \A j \in Ids : \/ next[j] = between[j]
                        \/ between[j].state \in TerminalStates /\ next[j] = NoRow
  BY <1>1, <1>2, PrunedRows
<1>4. Shrinks(rows, next)
  BY <1>3, NoRowType DEF Shrinks, ActiveStates
<1>5. KeepsAnswers(rows, next)
  BY <1>3, NoRowType DEF KeepsAnswers, TerminalStates
<1>6. KeepsRunning(rows, next, S)
  BY <1>3, NoRowType DEF KeepsRunning, TerminalStates
<1> QED BY <1>4, <1>5, <1>6

-----------------------------------------------------------------------------
(* The transactions.                                                       *)

LEMMA InitialTable == TableInit => TableInv
<1> SUFFICES ASSUME TableInit PROVE TableInv
  OBVIOUS
<1>1. TableTypeOK /\ Unborn
  BY NoRowType, TableAssumption DEF TableInit, TableTypeOK, Rows, Unborn
<1>2. Active(job) = {} /\ ActiveMl(job) = {} /\ Existing(job) = {}
  BY NoRowType DEF TableInit, Active, ActiveMl, Existing, ActiveStates
<1>3. OneActivePerRequest /\ TableIsBounded
  BY <1>2, FS_EmptySet, TableAssumption DEF OneActivePerRequest, TableIsBounded
<1> QED BY <1>1, <1>3 DEF TableInv

LEMMA StillTable ==
  ASSUME TableInv, UNCHANGED table
  PROVE  TableInv' /\ KeepsAnswers(job, job') /\ KeepsRunning(job, job', Ids)
<1>1. job' = job /\ created' = created
  BY DEF table
<1>2. Shrinks(job, job')
  BY <1>1 DEF TableInv, TableTypeOK, Shrinks
<1> QED BY <1>1, <1>2, ShrinkingKeepsTableInv DEF KeepsAnswers, KeepsRunning

LEMMA ClaimKeeps ==
  ASSUME TableInv, NEW kinds, NEW j \in Ids, Claim(kinds, j)
  PROVE  /\ TableInv' /\ KeepsAnswers(job, job') /\ KeepsRunning(job, job', Ids)
         /\ job[j].state = "queued" /\ job'[j].state = "running"
         /\ job'[j].request = job[j].request
         /\ created' = created
<1>1. /\ job \in Rows
      /\ job[j].state = "queued"
      /\ job' = [job EXCEPT ![j].state = "running"]
      /\ created' = created
  BY DEF TableInv, TableTypeOK, Claim, Claimable
<1>2. /\ job' \in Rows
      /\ job'[j].state = "running" /\ job'[j].request = job[j].request
      /\ \A k \in Ids \ {j} : job'[k] = job[k]
  BY <1>1 DEF Rows, Row, ActiveStates
<1>3. Shrinks(job, job')
  BY <1>1, <1>2 DEF Shrinks, ActiveStates
<1>4. KeepsAnswers(job, job') /\ KeepsRunning(job, job', Ids)
  BY <1>1, <1>2 DEF KeepsAnswers, KeepsRunning, TerminalStates
<1> QED BY <1>1, <1>2, <1>3, <1>4, ShrinkingKeepsTableInv

\* The job that is finished is the only one whose state the report changes.
LEMMA FinishKeeps ==
  ASSUME TableInv, NEW j \in Ids, NEW outcome \in TerminalStates, Finish(j, outcome)
  PROVE  /\ TableInv' /\ KeepsAnswers(job, job') /\ KeepsRunning(job, job', Ids \ {j})
         /\ created' = created
<1>1. /\ job \in Rows /\ created' = created
      /\ job' \in Prunings(Finished(job, j, outcome), Now(job))
  BY DEF TableInv, TableTypeOK, Finish
<1> DEFINE between == Finished(job, j, outcome)
<1>2. CASE job[j].state # "running"
  <2>1. between = job
    BY <1>2 DEF Finished
  <2>2. Shrinks(job, between) /\ KeepsAnswers(job, between) /\ KeepsRunning(job, between, Ids \ {j})
    BY <1>1, <2>1 DEF Shrinks, KeepsAnswers, KeepsRunning
  <2> QED BY <1>1, <2>2, PruningKeeps, ShrinkingKeepsTableInv
<1>3. CASE job[j].state = "running"
  <2> DEFINE answer == Answered(job[j], outcome, Now(job))
  <2>1. between = [job EXCEPT ![j] = answer]
    BY <1>3 DEF Finished
  <2>2. /\ answer \in Row /\ answer.state \in TerminalStates
        /\ job[j].cancelRequested => answer.state = "cancelled"
    BY <1>1, NowType, AnsweredType DEF Rows
  <2>3. /\ between \in Rows /\ between[j] = answer
        /\ \A k \in Ids \ {j} : between[k] = job[k]
    BY <1>1, <2>1, <2>2 DEF Rows
  <2> HIDE DEF answer, between
  <2>4. Shrinks(job, between)
    BY <1>3, <2>2, <2>3 DEF Shrinks, TerminalStates, ActiveStates
  <2>5. KeepsAnswers(job, between)
    BY <1>3, <2>2, <2>3 DEF KeepsAnswers, TerminalStates
  <2>6. KeepsRunning(job, between, Ids \ {j})
    BY <2>3 DEF KeepsRunning
  <2>7. job' \in Prunings(between, Now(job))
    BY <1>1 DEF between
  <2> QED BY <1>1, <2>4, <2>5, <2>6, <2>7, PruningKeeps, ShrinkingKeepsTableInv
<1> QED BY <1>2, <1>3

LEMMA CancelKeeps ==
  ASSUME TableInv, NEW j \in Ids, Cancel(j)
  PROVE  /\ TableInv' /\ KeepsAnswers(job, job') /\ KeepsRunning(job, job', Ids)
         /\ created' = created
<1>1. /\ job \in Rows /\ created' = created
      /\ job' \in Prunings(Cancelled(job, j), Now(job))
  BY DEF TableInv, TableTypeOK, Cancel
<1> DEFINE between == Cancelled(job, j)
<1>2. /\ Shrinks(job, between) /\ KeepsAnswers(job, between)
      /\ KeepsRunning(job, between, Ids)
  <2>1. CASE job[j].state = "queued"
    <3> DEFINE answer == Answered(job[j], "cancelled", Now(job))
    <3>1. between = [job EXCEPT ![j] = answer]
      BY <2>1 DEF Cancelled
    <3>2. answer \in Row /\ answer.state \in TerminalStates
      BY <1>1, NowType, AnsweredType DEF Rows, TerminalStates
    <3>3. /\ between \in Rows /\ between[j] = answer
          /\ \A k \in Ids \ {j} : between[k] = job[k]
      BY <1>1, <3>1, <3>2 DEF Rows
    <3> HIDE DEF answer, between
    <3> QED
      BY <2>1, <3>2, <3>3
      DEF Shrinks, KeepsAnswers, KeepsRunning, TerminalStates, ActiveStates
  <2>2. CASE job[j].state = "running"
    <3>1. between = [job EXCEPT ![j].cancelRequested = TRUE]
      BY <2>2 DEF Cancelled
    <3> DEFINE asked == [job[j] EXCEPT !.cancelRequested = TRUE]
    <3>2. /\ asked \in Row /\ asked.state = "running"
          /\ asked.request = job[j].request /\ asked.cancelRequested = TRUE
      BY <1>1, <2>2 DEF Rows, Row
    <3>3. /\ between \in Rows /\ between[j] = asked
          /\ \A k \in Ids \ {j} : between[k] = job[k]
      <4>1. between = [job EXCEPT ![j] = asked]
        BY <3>1
      <4> HIDE DEF asked, between
      <4> QED BY <1>1, <3>2, <4>1 DEF Rows
    <3> HIDE DEF asked
    <3> HIDE DEF between
    <3> QED
      BY <2>2, <3>2, <3>3
      DEF Shrinks, KeepsAnswers, KeepsRunning, TerminalStates, ActiveStates
  <2>3. CASE job[j].state \notin {"queued", "running"}
    <3>1. between = job
      BY <2>3 DEF Cancelled
    <3> QED BY <1>1, <3>1 DEF Shrinks, KeepsAnswers, KeepsRunning
  <2> QED BY <2>1, <2>2, <2>3
<1> QED BY <1>1, <1>2, PruningKeeps, ShrinkingKeepsTableInv

\* A report ends the run; a cancel of a running job is recorded.
LEMMA FinishEnds ==
  ASSUME TableInv, NEW j \in Ids, NEW outcome \in TerminalStates, Finish(j, outcome)
  PROVE  /\ job'[j].state # "running"
         /\ job[j].state = "none" => job'[j].state = "none"
<1>1. /\ job \in Rows
      /\ job' \in Prunings(Finished(job, j, outcome), Now(job))
  BY DEF TableInv, TableTypeOK, Finish
<1> DEFINE between == Finished(job, j, outcome)
<1>2. /\ between \in Rows /\ between[j].state # "running"
      /\ job[j].state = "none" => between[j].state = "none"
  <2>1. CASE job[j].state # "running"
    BY <1>1, <2>1 DEF Finished
  <2>2. CASE job[j].state = "running"
    <3>1. between = [job EXCEPT ![j] = Answered(job[j], outcome, Now(job))]
      BY <2>2 DEF Finished
    <3>2. /\ Answered(job[j], outcome, Now(job)) \in Row
          /\ Answered(job[j], outcome, Now(job)).state \in TerminalStates
      BY <1>1, NowType, AnsweredType DEF Rows
    <3> QED BY <1>1, <2>2, <3>1, <3>2 DEF Rows, TerminalStates
  <2> QED BY <2>1, <2>2
<1> HIDE DEF between
<1>3. PICK cutoff : job' = Pruned(between, cutoff)
  BY <1>1 DEF Prunings, between
<1> QED BY <1>2, <1>3, PrunedRows, NoRowType

LEMMA CancelMarks ==
  ASSUME TableInv, NEW j \in Ids, Cancel(j), job[j].state = "running"
  PROVE  job'[j].state = "running" /\ job'[j].cancelRequested
<1>1. /\ job \in Rows /\ job' \in Prunings(Cancelled(job, j), Now(job))
  BY DEF TableInv, TableTypeOK, Cancel
<1> DEFINE between == Cancelled(job, j)
           asked == [job[j] EXCEPT !.cancelRequested = TRUE]
<1>2. between = [job EXCEPT ![j] = asked]
  BY DEF Cancelled
<1>3. asked \in Row /\ asked.state = "running" /\ asked.cancelRequested = TRUE
  BY <1>1 DEF Rows, Row
<1>4. between \in Rows /\ between[j] = asked
  <2> HIDE DEF asked, between
  <2> QED BY <1>1, <1>2, <1>3 DEF Rows
<1>5. PICK cutoff : job' = Pruned(between, cutoff)
  BY <1>1 DEF Prunings
<1> HIDE DEF asked, between
<1> QED BY <1>3, <1>4, <1>5, PrunedRows DEF TerminalStates

LEMMA RecoverKeeps ==
  ASSUME TableInv, Recover
  PROVE  TableInv' /\ KeepsAnswers(job, job')
<1>1. job \in Rows /\ created' = created /\ job' = Recovered(job)
  BY DEF TableInv, TableTypeOK, Recover
<1>2. \A j \in Ids :
        /\ job[j].state # "running" => job'[j] = job[j]
        /\ job[j].state = "running" /\ job[j].cancelRequested =>
             job'[j] = Answered(job[j], "cancelled", Now(job))
        /\ job[j].state = "running" /\ ~job[j].cancelRequested =>
             job'[j] = [job[j] EXCEPT !.state = "queued"]
  BY <1>1 DEF Recovered
<1>3. \A j \in Ids : /\ Answered(job[j], "cancelled", Now(job)) \in Row
                     /\ job[j].cancelRequested =>
                          Answered(job[j], "cancelled", Now(job)).state = "cancelled"
  BY <1>1, NowType, AnsweredType DEF Rows, TerminalStates
<1>4. \A j \in Ids : LET row == [job[j] EXCEPT !.state = "queued"] IN
        row \in Row /\ row.state = "queued" /\ row.request = job[j].request
  BY <1>1 DEF Rows, Row, ActiveStates
<1>5. job' \in Rows
  <2>1. job' = [j \in Ids |-> job'[j]]
    BY <1>1 DEF Recovered
  <2>2. \A j \in Ids : job'[j] \in Row
    BY <1>1, <1>2, <1>3, <1>4 DEF Rows, Row
  <2> QED BY <2>1, <2>2 DEF Rows
<1>6. Shrinks(job, job')
  BY <1>1, <1>2, <1>3, <1>4, <1>5 DEF Shrinks, ActiveStates, Rows, Row
<1>7. KeepsAnswers(job, job')
  BY <1>2, <1>3 DEF KeepsAnswers, TerminalStates
<1> QED BY <1>1, <1>6, <1>7, ShrinkingKeepsTableInv

LEMMA ForgetAssetKeeps ==
  ASSUME TableInv, NEW a, ForgetAsset(a)
  PROVE  /\ TableInv' /\ KeepsAnswers(job, job') /\ KeepsRunning(job, job', Ids)
         /\ created' = created
<1>1. /\ job \in Rows /\ created' = created /\ job' \in Rows
      /\ \A j \in Ids : job'[j] \in {job[j], NoRow}
  BY NoRowType DEF TableInv, TableTypeOK, ForgetAsset, Rows
<1>2. Shrinks(job, job') /\ KeepsAnswers(job, job') /\ KeepsRunning(job, job', Ids)
  BY <1>1, NoRowType DEF Shrinks, KeepsAnswers, KeepsRunning, ActiveStates
<1> QED BY <1>1, <1>2, ShrinkingKeepsTableInv

\* The insert is the only transaction that adds an active job: the check of
\* admission in the same transaction keeps the limits, and the prune before it
\* makes room for the terminal rows that recover adds.
LEMMA EnqueueKeeps ==
  ASSUME TableInv, NEW request \in Requests, Enqueue(request)
  PROVE  /\ TableInv' /\ KeepsAnswers(job, job')
         /\ KeepsRunning(job, job', 1 .. created)
         /\ created' \in {created, created + 1}
<1>1. job \in Rows /\ created \in 0 .. MaxJobs
  BY DEF TableInv, TableTypeOK
<1>2. Shrinks(job, job) /\ KeepsAnswers(job, job) /\ KeepsRunning(job, job, Ids)
  BY <1>1 DEF Shrinks, KeepsAnswers, KeepsRunning
<1>3. 1 .. created \in SUBSET Ids
  BY <1>1, TableAssumption DEF Ids
<1>4. PICK kept \in Prunings(job, Now(job)) :
        \/ /\ Admits(kept, request)
           /\ created < MaxJobs
           /\ job' = [kept EXCEPT ![created + 1] = Queued(request)]
           /\ created' = created + 1
        \/ /\ job' = kept
           /\ created' = created
  BY DEF Enqueue
<1>5. Shrinks(job, kept) /\ KeepsAnswers(job, kept) /\ KeepsRunning(job, kept, Ids)
  BY <1>1, <1>2, PruningKeeps
<1>6. CASE job' = kept /\ created' = created
  BY <1>3, <1>5, <1>6, ShrinkingKeepsTableInv DEF KeepsRunning
<1>7. CASE /\ Admits(kept, request)
           /\ created < MaxJobs
           /\ job' = [kept EXCEPT ![created + 1] = Queued(request)]
           /\ created' = created + 1
  <2> DEFINE n == created + 1
  <2>1. n \in Ids /\ n \notin 1 .. created /\ n \in Nat /\ n > created
    BY <1>1, <1>7, TableAssumption DEF Ids
  <2>2. kept \in Rows /\ job[n].state = "none" /\ kept[n].state = "none"
    BY <1>5, <2>1 DEF Shrinks, TableInv, Unborn
  <2>3. /\ Queued(request) \in Row
        /\ Queued(request).state = "queued" /\ Queued(request).request = request
    BY NoRowType DEF Queued, Row, ActiveStates, NoRow
  <2>4. /\ job' \in Rows /\ job'[n].state = "queued" /\ job'[n].request = request
        /\ \A k \in Ids \ {n} : job'[k] = kept[k]
    BY <1>7, <2>1, <2>2, <2>3 DEF Rows
  <2> HIDE DEF n
  <2>5. TableTypeOK'
    BY <1>1, <1>7, <2>4, TableAssumption DEF TableTypeOK
  <2>6. Unborn'
    <3> SUFFICES ASSUME NEW k \in Ids, k > created' PROVE job'[k].state = "none"
      BY DEF Unborn
    <3>1. k > created /\ k # n
      BY <1>1, <1>7 DEF Ids, n
    <3>2. job[k].state = "none"
      BY <3>1 DEF TableInv, Unborn
    <3> QED BY <1>5, <2>4, <3>1, <3>2 DEF Shrinks
  <2>7. OneActivePerRequest'
    <3>1. SUFFICES ASSUME NEW i \in ActiveMl(job'), NEW k \in ActiveMl(job'),
                          job'[i].request = job'[k].request
                   PROVE  i = k
      BY DEF OneActivePerRequest
    <3>2. \A l \in ActiveMl(job') \ {n} :
             l \in ActiveMl(job) /\ l \in Active(kept) /\ job'[l].request = kept[l].request
                                 /\ job'[l].request = job[l].request
      BY <1>5, <2>4 DEF ActiveMl, Active, Shrinks
    <3>3. \A l \in ActiveMl(job') \ {n} : n \in ActiveMl(job') => job'[l].request # request
      <4> SUFFICES ASSUME NEW l \in ActiveMl(job') \ {n}, n \in ActiveMl(job')
                   PROVE  job'[l].request # request
        OBVIOUS
      <4>1. request.kind \in MlKinds
        BY <2>4 DEF ActiveMl
      <4>2. ~HasActive(kept, request)
        BY <1>7 DEF Admits
      <4> QED BY <3>2, <4>1, <4>2 DEF HasActive
    <3>4. CASE i # n /\ k # n
      BY <3>1, <3>2, <3>4 DEF TableInv, OneActivePerRequest
    <3>5. CASE i = n \/ k = n
      BY <2>4, <3>1, <3>3, <3>5
    <3> QED BY <3>4, <3>5
  <2>8. TableIsBounded'
    <3>1. /\ Cardinality(Active(kept)) < MaxActive
          /\ request.kind \in MlKinds => Cardinality(ActiveMl(kept)) < MaxActiveMl
      BY <1>7 DEF Admits, HasRoom
    <3>2. \A S \in SUBSET Ids : n \notin S =>
            /\ Cardinality(S) \in Nat
            /\ Cardinality(S \cup {n}) = Cardinality(S) + 1
      BY SetsOfIds, FS_AddElement
    <3>3. /\ Active(kept) \in SUBSET Ids /\ n \notin Active(kept)
          /\ ActiveMl(kept) \in SUBSET Ids /\ n \notin ActiveMl(kept)
          /\ Existing(kept) \in SUBSET Ids /\ n \notin Existing(kept)
      BY <2>2 DEF Active, ActiveMl, Existing, ActiveStates
    <3>4. Active(job') = Active(kept) \cup {n}
      BY <2>1, <2>4 DEF Active, ActiveStates
    <3>5. Existing(job') = Existing(kept) \cup {n}
      BY <2>1, <2>4 DEF Existing
    <3>6. /\ request.kind \in MlKinds => ActiveMl(job') = ActiveMl(kept) \cup {n}
          /\ request.kind \notin MlKinds => ActiveMl(job') = ActiveMl(kept)
      <4>1. \A k \in Active(kept) : k \in Ids /\ k # n /\ job'[k] = kept[k]
        BY <2>4, <3>3 DEF Active
      <4>2. \A k : k \in ActiveMl(job') <=>
                     (k \in ActiveMl(kept) \/ (k = n /\ request.kind \in MlKinds))
        BY <2>4, <3>4, <4>1 DEF ActiveMl
      <4> QED BY <4>2
    <3>7. Cardinality(ActiveMl(kept)) <= MaxActiveMl
      <4>1. ActiveMl(kept) \in SUBSET ActiveMl(job) /\ ActiveMl(job) \in SUBSET Ids
        BY <1>5 DEF ActiveMl, Active, Shrinks
      <4>2. Cardinality(ActiveMl(kept)) <= Cardinality(ActiveMl(job))
        BY <4>1, SetsOfIds, FS_Subset
      <4>3. Cardinality(ActiveMl(kept)) \in Nat /\ Cardinality(ActiveMl(job)) \in Nat
        BY <3>3, <4>1, SetsOfIds
      <4>4. Cardinality(ActiveMl(job)) <= MaxActiveMl
        BY DEF TableInv, TableIsBounded
      <4> QED BY <4>2, <4>3, <4>4, TableAssumption
    <3>8. Cardinality(Existing(kept)) <= Cardinality(Active(kept)) + MaxTerminal
      <4>1. PICK cutoff : kept = Pruned(job, cutoff)
        BY DEF Prunings
      <4>2. Cardinality(Terminal(kept)) <= MaxTerminal
        BY <1>1, <4>1, PruneBounds
      <4>3. Existing(kept) = Active(kept) \cup Terminal(kept)
        BY <2>2
        DEF Existing, Active, Terminal, Rows, Row, ActiveStates, TerminalStates
      <4>4. /\ Active(kept) \in SUBSET Ids /\ Terminal(kept) \in SUBSET Ids
            /\ Active(kept) \cap Terminal(kept) \in SUBSET Ids
        BY DEF Active, Terminal
      <4>5. /\ IsFiniteSet(Active(kept)) /\ Cardinality(Active(kept)) \in Nat
            /\ IsFiniteSet(Terminal(kept)) /\ Cardinality(Terminal(kept)) \in Nat
            /\ Cardinality(Active(kept) \cap Terminal(kept)) \in Nat
        BY <4>4, SetsOfIds
      <4>6. Cardinality(Existing(kept)) =
              Cardinality(Active(kept)) + Cardinality(Terminal(kept))
                - Cardinality(Active(kept) \cap Terminal(kept))
        BY <4>3, <4>5, FS_Union
      <4> QED BY <4>2, <4>5, <4>6, TableAssumption
    <3> QED
      BY <3>1, <3>2, <3>3, <3>4, <3>5, <3>6, <3>7, <3>8, TableAssumption
      DEF TableIsBounded
  <2>9. KeepsAnswers(job, job')
    BY <1>5, <2>2, <2>4 DEF KeepsAnswers, TerminalStates
  <2>10. KeepsRunning(job, job', 1 .. created)
    BY <1>3, <1>5, <2>1, <2>4 DEF KeepsRunning
  <2> QED BY <1>7, <2>5, <2>6, <2>7, <2>8, <2>9, <2>10 DEF TableInv
<1> QED BY <1>4, <1>6, <1>7
=============================================================================
