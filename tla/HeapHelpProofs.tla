--------------------------- MODULE HeapHelpProofs ---------------------------
(***************************************************************************)
(* The leak detector tracks soundly and reports truly, whatever the number *)
(* of threads, addresses, records of a batch and calls of operator new.    *)
(***************************************************************************)
EXTENDS HeapHelp, FiniteSetTheorems, SequenceTheorems, TLAPS

Tracing == {u \in Threads : pc[u] = "trace"}

(* The bound on the calls of operator new counts those still to be traced. *)
NewsBounded == IsFiniteSet(Tracing) /\ count + Cardinality(Tracing) <= MaxNews

(* What the type invariant leaves open.                                    *)
Shape ==
    /\ misused \in BOOLEAN
    /\ report \in [leaks : SUBSET Addrs, shown : 0..ReportLimit]
    /\ \A t \in Threads : pc[t] # "idle" => arg[t] \in Addrs
    /\ batch = 0 => (Recorded = {} /\ pool = <<>>)
    /\ batch # 0 => used # 0

(* The record has been taken from the batches.                             *)
Taken(r) == r[1] < batch \/ (r[1] = batch /\ r[2] <= used)

(* A record in use comes from the part of the batches that has been used.  *)
UsedAreTaken ==
    /\ \A a \in Recorded : Taken(table[a])
    /\ \A i \in 1..Len(pool) : Taken(pool[i])

(* While the program is correct, an address belongs to the program or to   *)
(* one thread inside operator new or delete.                               *)
OneOwner ==
    ~misused =>
        /\ live \subseteq heap
        /\ \A t \in Threads : pc[t] # "idle" => arg[t] \in heap \ live
        /\ \A t, u \in Threads :
             (t # u /\ pc[t] # "idle" /\ pc[u] # "idle") => arg[t] # arg[u]

(* A destructor that returned without being told to be quiet has found an  *)
(* empty table, which no thread writes to afterwards.                      *)
NothingRecorded ==
    proc \in {"returned", "exit"} /\ reportMode # "quiet" => Recorded = {}

(* The inductive invariant: what holds of any program, and what holds of a *)
(* correct one.                                                            *)
MemoryInv == /\ HeapHelpTypeOK /\ Shape /\ NewsBounded
             /\ UsedAreTaken /\ RecordsOnce /\ NothingRecorded
CorrectInv == OneOwner /\ TableExact /\ TraceIntoOwnRecord /\ ReportsTrue
HeapInv == MemoryInv /\ CorrectInv

-----------------------------------------------------------------------------
(* Writing one entry of the table adds or removes one recorded address.    *)
LEMMA RecordedStep ==
    ASSUME HeapHelpTypeOK, NEW a \in Addrs, NEW r \in Records
    PROVE  /\ IsFiniteSet(Recorded) /\ Cardinality(Recorded) \in Nat
           /\ (table[a] = NULL /\ table' = [table EXCEPT ![a] = r]) =>
                 /\ Recorded' = Recorded \cup {a}
                 /\ Cardinality(Recorded') = Cardinality(Recorded) + 1
           /\ (table[a] # NULL /\ table' = [table EXCEPT ![a] = NULL]) =>
                 /\ Recorded' = Recorded \ {a}
                 /\ Cardinality(Recorded') = Cardinality(Recorded) - 1
<1>1. NULL \notin Records /\ IsFiniteSet(Addrs)
  BY HeapHelpAssumption
<1>2. table \in [Addrs -> Records \cup {NULL}]
  BY DEF HeapHelpTypeOK
<1>3. IsFiniteSet(Recorded) /\ Cardinality(Recorded) \in Nat
  BY <1>1, FS_Subset, FS_CardinalityType DEF Recorded
<1>4. ASSUME table[a] = NULL, table' = [table EXCEPT ![a] = r]
      PROVE  Recorded' = Recorded \cup {a} /\ Cardinality(Recorded') = Cardinality(Recorded) + 1
  <2>1. Recorded' = Recorded \cup {a} /\ a \notin Recorded
    BY <1>1, <1>2, <1>4 DEF Recorded
  <2>. QED BY <2>1, <1>3, FS_AddElement
<1>5. ASSUME table[a] # NULL, table' = [table EXCEPT ![a] = NULL]
      PROVE  Recorded' = Recorded \ {a} /\ Cardinality(Recorded') = Cardinality(Recorded) - 1
  <2>1. Recorded' = Recorded \ {a} /\ a \in Recorded
    BY <1>1, <1>2, <1>5 DEF Recorded
  <2>. QED BY <2>1, <1>3, FS_RemoveElement
<1>. QED BY <1>3, <1>4, <1>5

(* The calls of operator new that are still to be traced.                  *)
LEMMA TracingStep ==
    ASSUME HeapHelpTypeOK, NewsBounded, NEW t \in Threads, NEW where, NEW a, NEW r,
           At(t, where, a, r)
    PROVE  /\ IsFiniteSet(Tracing')
           /\ (pc[t] # "trace" /\ where = "trace") =>
                 Cardinality(Tracing') = Cardinality(Tracing) + 1
           /\ (pc[t] # "trace" /\ where # "trace") => Tracing' = Tracing
           /\ (pc[t] = "trace" /\ where # "trace") =>
                 Cardinality(Tracing') = Cardinality(Tracing) - 1
           /\ Cardinality(Tracing) \in Nat
<1>1. pc \in [Threads -> {"idle", "trace", "backtrace", "untrace", "free"}]
  BY DEF HeapHelpTypeOK
<1>2. pc' = [pc EXCEPT ![t] = where]
  BY DEF At
<1>3. IsFiniteSet(Tracing) /\ Cardinality(Tracing) \in Nat
  BY FS_CardinalityType DEF NewsBounded
<1>4. CASE pc[t] # "trace" /\ where = "trace"
  <2>1. Tracing' = Tracing \cup {t} /\ t \notin Tracing
    BY <1>1, <1>2, <1>4 DEF Tracing
  <2>. QED BY <2>1, <1>3, <1>4, FS_AddElement
<1>5. CASE pc[t] = "trace" /\ where # "trace"
  <2>1. Tracing' = Tracing \ {t} /\ t \in Tracing
    BY <1>1, <1>2, <1>5 DEF Tracing
  <2>. QED BY <2>1, <1>3, <1>5, FS_RemoveElement
<1>6. CASE (pc[t] = "trace") = (where = "trace")
  <2>1. Tracing' = Tracing
    BY <1>1, <1>2, <1>6 DEF Tracing
  <2>. QED BY <2>1, <1>3, <1>6
<1>. QED BY <1>4, <1>5, <1>6

(* A step that leaves the table and the records alone keeps RecordsOnce    *)
(* and what goes with it.                                                  *)
LEMMA RecordsUnchanged ==
    ASSUME MemoryInv, UNCHANGED <<table, pool, batch, used>>
    PROVE  RecordsOnce' /\ UsedAreTaken' /\ Recorded' = Recorded
<1>1. Recorded' = Recorded
  BY DEF Recorded
<1>2. RecordsOnce'
  BY <1>1 DEF MemoryInv, RecordsOnce
<1>3. UsedAreTaken'
  BY <1>1 DEF MemoryInv, UsedAreTaken, Taken
<1>. QED BY <1>1, <1>2, <1>3

(* A process that goes on, or ends silently, reports nothing wrong.        *)
LEMMA SilentTrue ==
    ASSUME TableExact', NothingRecorded', proc' \in {"running", "returned", "exit"}
    PROVE  ReportsTrue'
<1>1. NoFalseAlarm'
  BY DEF NoFalseAlarm
<1>2. LeaksReported'
  BY DEF LeaksReported, TableExact, NothingRecorded
<1>. QED BY <1>1, <1>2 DEF ReportsTrue

-----------------------------------------------------------------------------
(* malloc hands out an address that nobody has.                            *)
LEMMA NewInv ==
    ASSUME HeapInv, NEW t \in Threads, NEW a \in Addrs, New(t, a)
    PROVE  HeapInv'
<1>. USE DEF HeapInv, MemoryInv, CorrectInv
<1>1. At(t, "trace", a, NULL) /\ pc[t] = "idle" /\ proc \in {"running", "returned"}
  BY DEF New, Runs
<1>2. /\ pc \in [Threads -> {"idle", "trace", "backtrace", "untrace", "free"}]
      /\ arg \in [Threads -> Addrs \cup {NULL}] /\ rec \in [Threads -> Records \cup {NULL}]
  BY DEF HeapHelpTypeOK
<1>3. /\ pc' = [pc EXCEPT ![t] = "trace"] /\ arg' = [arg EXCEPT ![t] = a]
      /\ rec' = [rec EXCEPT ![t] = NULL]
      /\ heap' = heap \cup {a} /\ a \notin heap
      /\ UNCHANGED <<live, table, pool, batch, used, count, junk, misused, proc, report, reportMode>>
  BY <1>1 DEF New, At, tableVars, modeVars
<1>4. RecordsOnce' /\ UsedAreTaken' /\ Recorded' = Recorded
  BY <1>3, RecordsUnchanged
<1>5. HeapHelpTypeOK' /\ Shape'
  BY <1>2, <1>3, <1>4 DEF HeapHelpTypeOK, Shape
<1>6. NewsBounded'
  <2>1. count + Cardinality(Tracing) < MaxNews
    BY DEF New, Tracing
  <2>2. IsFiniteSet(Tracing') /\ Cardinality(Tracing') = Cardinality(Tracing) + 1
        /\ Cardinality(Tracing) \in Nat
    BY <1>1, TracingStep
  <2>. QED BY <2>1, <2>2, <1>3, HeapHelpAssumption DEF NewsBounded, HeapHelpTypeOK
<1>7. OneOwner'
  BY <1>2, <1>3 DEF OneOwner
<1>8. TableExact'
  BY <1>1, <1>2, <1>3, <1>4 DEF TableExact
<1>9. TraceIntoOwnRecord'
  BY <1>2, <1>3 DEF TraceIntoOwnRecord
<1>10. NothingRecorded'
  BY <1>3, <1>4 DEF NothingRecorded
<1>11. ReportsTrue'
  BY <1>1, <1>3, <1>8, <1>10, SilentTrue
<1>. QED BY <1>4, <1>5, <1>6, <1>7, <1>8, <1>9, <1>10, <1>11

(* operator delete takes the address from the program, or marks it as      *)
(* misusing the heap.                                                      *)
LEMMA DeleteInv ==
    ASSUME HeapInv, NEW t \in Threads, NEW a \in Addrs, Delete(t, a)
    PROVE  HeapInv'
<1>. USE DEF HeapInv, MemoryInv, CorrectInv
<1>1. At(t, "untrace", a, NULL) /\ pc[t] = "idle" /\ proc \in {"running", "returned"}
  BY DEF Delete, Runs
<1>2. /\ pc \in [Threads -> {"idle", "trace", "backtrace", "untrace", "free"}]
      /\ arg \in [Threads -> Addrs \cup {NULL}] /\ rec \in [Threads -> Records \cup {NULL}]
  BY DEF HeapHelpTypeOK
<1>3. /\ pc' = [pc EXCEPT ![t] = "untrace"] /\ arg' = [arg EXCEPT ![t] = a]
      /\ rec' = [rec EXCEPT ![t] = NULL] /\ live' = live \ {a}
      /\ UNCHANGED <<heap, table, pool, batch, used, count, junk, proc, report, reportMode>>
  BY <1>1 DEF Delete, At, tableVars, modeVars
<1>0. misused' \in BOOLEAN /\ (~misused' => ~misused /\ a \in live)
  <2>1. misused \in BOOLEAN
    BY DEF Shape
  <2>2. (a \in live /\ misused' = misused) \/ misused' = TRUE
    BY DEF Delete
  <2>. QED BY ONLY <2>1, <2>2
<1>4. RecordsOnce' /\ UsedAreTaken' /\ Recorded' = Recorded
  BY <1>3, RecordsUnchanged
<1>5. HeapHelpTypeOK' /\ Shape'
  BY <1>2, <1>3, <1>4, <1>0 DEF HeapHelpTypeOK, Shape
<1>6. NewsBounded'
  <2>1. Tracing' = Tracing
    BY <1>1, TracingStep
  <2>. QED BY <2>1, <1>3 DEF NewsBounded
<1>7. OneOwner'
  BY <1>2, <1>3, <1>0 DEF OneOwner
<1>8. TableExact'
  BY <1>1, <1>2, <1>3, <1>4, <1>0 DEF TableExact
<1>9. TraceIntoOwnRecord'
  BY <1>2, <1>3, <1>0 DEF TraceIntoOwnRecord
<1>10. NothingRecorded'
  BY <1>3, <1>4 DEF NothingRecorded
<1>11. ReportsTrue'
  BY <1>1, <1>3, <1>8, <1>10, SilentTrue
<1>. QED BY <1>4, <1>5, <1>6, <1>7, <1>8, <1>9, <1>10, <1>11

(* The program gets its pointer, or the uninitialised trace_size trips the *)
(* assertion.                                                              *)
LEMMA BacktraceInv ==
    ASSUME HeapInv, NEW t \in Threads, Backtrace(t)
    PROVE  HeapInv'
<1>. USE DEF HeapInv, MemoryInv, CorrectInv
<1>1. pc[t] = "backtrace" /\ proc \in {"running", "returned"}
  BY DEF Backtrace, Runs
<1>2. /\ pc \in [Threads -> {"idle", "trace", "backtrace", "untrace", "free"}]
      /\ arg \in [Threads -> Addrs \cup {NULL}] /\ rec \in [Threads -> Records \cup {NULL}]
      /\ arg[t] \in Addrs
  BY <1>1 DEF HeapHelpTypeOK, Shape
<1>3. UNCHANGED <<heap, table, pool, batch, used, count, misused, report, reportMode>> /\ junk' \subseteq junk
  BY <1>1 DEF Backtrace, tableVars, modeVars
<1>4. RecordsOnce' /\ UsedAreTaken' /\ Recorded' = Recorded
  BY <1>3, RecordsUnchanged
<1>5. CASE UNCHANGED <<live, pc, arg, rec>> /\ proc' = "trace_size"
  <2>1. HeapHelpTypeOK' /\ Shape'
    BY <1>3, <1>4, <1>5 DEF HeapHelpTypeOK, Shape
  <2>2. NewsBounded' /\ OneOwner' /\ TraceIntoOwnRecord'
    BY <1>3, <1>5 DEF NewsBounded, Tracing, OneOwner, TraceIntoOwnRecord
  <2>3. TableExact'
    BY <1>3, <1>4, <1>5 DEF TableExact
  <2>4. ReportsTrue'
    BY <1>3, <1>5 DEF ReportsTrue, NoFalseAlarm, LeaksReported
  <2>5. NothingRecorded'
    BY <1>5 DEF NothingRecorded
  <2>. QED BY <1>4, <2>1, <2>2, <2>3, <2>4, <2>5
<1>6. CASE live' = live \cup {arg[t]} /\ At(t, "idle", NULL, NULL) /\ UNCHANGED proc
  <2>1. /\ pc' = [pc EXCEPT ![t] = "idle"] /\ arg' = [arg EXCEPT ![t] = NULL]
        /\ rec' = [rec EXCEPT ![t] = NULL]
    BY <1>6 DEF At
  <2>2. HeapHelpTypeOK' /\ Shape'
    BY <1>2, <1>3, <1>4, <1>6, <2>1 DEF HeapHelpTypeOK, Shape
  <2>3. NewsBounded'
    <3>1. Tracing' = Tracing
      BY <1>1, <1>6, TracingStep
    <3>. QED BY <3>1, <1>3 DEF NewsBounded
  <2>4. OneOwner' /\ TraceIntoOwnRecord'
    BY <1>1, <1>2, <1>3, <1>6, <2>1 DEF OneOwner, TraceIntoOwnRecord
  <2>5. TableExact'
    BY <1>1, <1>2, <1>3, <1>4, <1>6, <2>1 DEF TableExact
  <2>6. NothingRecorded'
    BY <1>3, <1>4, <1>6 DEF NothingRecorded
  <2>7. ReportsTrue'
    BY <1>1, <1>6, <2>5, <2>6, SilentTrue
  <2>. QED BY <1>4, <2>2, <2>3, <2>4, <2>5, <2>6, <2>7
<1>. QED BY <1>5, <1>6 DEF Backtrace

(* free gives the address back to malloc after it has left the table.      *)
LEMMA FreeMemoryInv ==
    ASSUME HeapInv, NEW t \in Threads, FreeMemory(t)
    PROVE  HeapInv'
<1>. USE DEF HeapInv, MemoryInv, CorrectInv
<1>1. At(t, "idle", NULL, NULL) /\ pc[t] = "free" /\ proc \in {"running", "returned"}
  BY DEF FreeMemory, Runs
<1>2. /\ pc \in [Threads -> {"idle", "trace", "backtrace", "untrace", "free"}]
      /\ arg \in [Threads -> Addrs \cup {NULL}] /\ rec \in [Threads -> Records \cup {NULL}]
      /\ arg[t] \in Addrs
  BY <1>1 DEF HeapHelpTypeOK, Shape
<1>3. /\ pc' = [pc EXCEPT ![t] = "idle"] /\ arg' = [arg EXCEPT ![t] = NULL]
      /\ rec' = [rec EXCEPT ![t] = NULL] /\ heap' = heap \ {arg[t]}
      /\ UNCHANGED <<live, table, pool, batch, used, count, junk, misused, proc, report, reportMode>>
  BY <1>1 DEF FreeMemory, At, tableVars, modeVars
<1>4. RecordsOnce' /\ UsedAreTaken' /\ Recorded' = Recorded
  BY <1>3, RecordsUnchanged
<1>5. HeapHelpTypeOK' /\ Shape'
  BY <1>2, <1>3, <1>4 DEF HeapHelpTypeOK, Shape
<1>6. NewsBounded'
  <2>1. Tracing' = Tracing
    BY <1>1, TracingStep
  <2>. QED BY <2>1, <1>3 DEF NewsBounded
<1>7. OneOwner'
  BY <1>1, <1>2, <1>3 DEF OneOwner
<1>8. TableExact'
  <2>1. SUFFICES ASSUME ~misused PROVE TableExact'
    BY <1>3 DEF TableExact
  <2>2. arg[t] \notin Recorded
    BY <1>1, <2>1 DEF TableExact, OneOwner
  <2>. QED BY <1>1, <1>2, <1>3, <1>4, <2>2 DEF TableExact
<1>9. TraceIntoOwnRecord'
  BY <1>2, <1>3 DEF TraceIntoOwnRecord
<1>10. NothingRecorded'
  BY <1>3, <1>4 DEF NothingRecorded
<1>11. ReportsTrue'
  BY <1>1, <1>3, <1>8, <1>10, SilentTrue
<1>. QED BY <1>4, <1>5, <1>6, <1>7, <1>8, <1>9, <1>10, <1>11

(* The destructor reports what the table holds.                            *)
LEMMA ExitInv ==
    ASSUME HeapInv, NEW t \in Threads, Exit(t)
    PROVE  HeapInv'
<1>. USE DEF HeapInv, MemoryInv, CorrectInv
<1>1. UNCHANGED <<heap, live, table, pool, batch, used, count, junk, pc, arg, rec, misused>>
      /\ UNCHANGED reportMode
  BY DEF Exit, tableVars, modeVars
<1>2. RecordsOnce' /\ UsedAreTaken' /\ Recorded' = Recorded
  BY <1>1, RecordsUnchanged
<1>3. NewsBounded' /\ OneOwner' /\ TraceIntoOwnRecord'
  BY <1>1 DEF NewsBounded, Tracing, OneOwner, TraceIntoOwnRecord
<1>4. TableExact'
  BY <1>1, <1>2 DEF TableExact
<1>5. CASE proc' = "returned" /\ UNCHANGED report /\ (reportMode = "quiet" \/ Leaks = {})
  <2>1. HeapHelpTypeOK' /\ Shape'
    BY <1>1, <1>2, <1>5 DEF HeapHelpTypeOK, Shape
  <2>2. NothingRecorded'
    BY <1>1, <1>2, <1>5 DEF NothingRecorded, Leaks
  <2>3. ReportsTrue'
    BY <1>4, <1>5, <2>2, SilentTrue
  <2>. QED BY <1>2, <1>3, <1>4, <2>1, <2>2, <2>3
<1>6. CASE proc' = "crash" /\ UNCHANGED report
  <2>1. HeapHelpTypeOK' /\ Shape'
    BY <1>1, <1>2, <1>6 DEF HeapHelpTypeOK, Shape
  <2>2. ReportsTrue'
    BY <1>1, <1>6 DEF ReportsTrue, NoFalseAlarm, LeaksReported
  <2>3. NothingRecorded'
    BY <1>6 DEF NothingRecorded
  <2>. QED BY <1>2, <1>3, <1>4, <2>1, <2>2, <2>3
<1>7. CASE /\ proc' = "leaks" /\ Leaks # {}
           /\ report' = [leaks |-> Leaks, shown |->
                IF Cardinality(Leaks) < ReportLimit THEN Cardinality(Leaks) ELSE ReportLimit]
  <2>1. Leaks = Recorded /\ Recorded \subseteq Addrs
    BY DEF Leaks, Recorded
  <2>2. Cardinality(Recorded) \in Nat /\ Cardinality(Recorded) # 0
    BY <1>7, <2>1, FS_Subset, FS_CardinalityType, FS_EmptySet, HeapHelpAssumption
  <2>3. report'.shown \in 1..ReportLimit /\ report'.leaks = Recorded
    BY <1>7, <2>1, <2>2, HeapHelpAssumption
  <2>4. report' \in [leaks : SUBSET Addrs, shown : 0..ReportLimit]
    BY <1>7, <2>1, <2>2, HeapHelpAssumption
  <2>5. HeapHelpTypeOK' /\ Shape'
    BY <1>1, <1>2, <1>7, <2>1, <2>3, <2>4 DEF HeapHelpTypeOK, Shape
  <2>6. ReportsTrue'
    BY <1>1, <1>7, <2>3, HeapHelpAssumption
    DEF ReportsTrue, NoFalseAlarm, LeaksReported, TableExact
  <2>7. NothingRecorded'
    BY <1>7 DEF NothingRecorded
  <2>. QED BY <1>2, <1>3, <1>4, <2>5, <2>6, <2>7
<1>. QED BY <1>5, <1>6, <1>7 DEF Exit

(* After the destructor a use of the destroyed table, or the end of the    *)
(* process, changes nothing but what is said of the process.               *)
LEMMA AfterwardsInv ==
    ASSUME HeapInv, End \/ \E t \in Threads : UseDestroyed(t)
    PROVE  HeapInv'
<1>. USE DEF HeapInv, MemoryInv, CorrectInv
<1>1. /\ UNCHANGED <<heap, live, table, pool, batch, used, count, junk, pc, arg, rec>>
      /\ UNCHANGED <<misused, report, reportMode>>
      /\ proc = "returned" /\ proc' \in {"exit", "undefined"}
  BY DEF End, UseDestroyed, tableVars, modeVars
<1>2. RecordsOnce' /\ UsedAreTaken' /\ Recorded' = Recorded
  BY <1>1, RecordsUnchanged
<1>3. NewsBounded' /\ OneOwner' /\ TraceIntoOwnRecord'
  BY <1>1 DEF NewsBounded, Tracing, OneOwner, TraceIntoOwnRecord
<1>4. TableExact' /\ NothingRecorded'
  BY <1>1, <1>2 DEF TableExact, NothingRecorded
<1>5. HeapHelpTypeOK' /\ Shape'
  BY <1>1, <1>2 DEF HeapHelpTypeOK, Shape
<1>6. ReportsTrue'
  BY <1>1, <1>4, SilentTrue DEF ReportsTrue, NoFalseAlarm, LeaksReported
<1>. QED BY <1>2, <1>3, <1>4, <1>5, <1>6

(* untrace finds the address of a correct program in the table and gives   *)
(* its record back to the pool.                                            *)
LEMMA UntraceInv ==
    ASSUME HeapInv, NEW t \in Threads, Untrace(t)
    PROVE  HeapInv'
<1>. USE DEF HeapInv, MemoryInv, CorrectInv
<1>1. /\ pc[t] = "untrace" /\ proc = "running"
      /\ UNCHANGED <<heap, live, batch, used, count, junk, misused, report>>
  BY DEF Untrace, HasTable
<1>2. /\ pc \in [Threads -> {"idle", "trace", "backtrace", "untrace", "free"}]
      /\ arg \in [Threads -> Addrs \cup {NULL}] /\ rec \in [Threads -> Records \cup {NULL}]
      /\ table \in [Addrs -> Records \cup {NULL}] /\ pool \in Seq(Records)
      /\ arg[t] \in Addrs
  BY <1>1 DEF HeapHelpTypeOK, Shape
<1>3. CASE table[arg[t]] = NULL /\ proc' = "unknown" /\ UNCHANGED <<table, pool, pc, arg, rec>>
  <2>1. RecordsOnce' /\ UsedAreTaken' /\ Recorded' = Recorded
    BY <1>1, <1>3, RecordsUnchanged
  <2>2. HeapHelpTypeOK' /\ Shape'
    BY <1>1, <1>3, <2>1 DEF HeapHelpTypeOK, Shape
  <2>3. NewsBounded' /\ OneOwner' /\ TraceIntoOwnRecord'
    BY <1>1, <1>3 DEF NewsBounded, Tracing, OneOwner, TraceIntoOwnRecord
  <2>4. TableExact'
    BY <1>1, <1>3, <2>1 DEF TableExact
  <2>5. misused
    BY <1>1, <1>2, <1>3 DEF TableExact, Recorded
  <2>6. ReportsTrue'
    BY <1>1, <1>3, <2>5 DEF ReportsTrue, NoFalseAlarm, LeaksReported
  <2>7. NothingRecorded'
    BY <1>3 DEF NothingRecorded
  <2>. QED BY <2>1, <2>2, <2>3, <2>4, <2>6, <2>7
<1>4. CASE /\ table[arg[t]] # NULL /\ pool' = <<table[arg[t]]>> \o pool
           /\ table' = [table EXCEPT ![arg[t]] = NULL]
           /\ At(t, "free", arg[t], NULL) /\ UNCHANGED proc
  <2>. DEFINE a == arg[t]  r == table[a]
  <2>1. a \in Addrs /\ r \in Records /\ a \in Recorded
    BY <1>2, <1>4 DEF Recorded
  <2>2. /\ pc' = [pc EXCEPT ![t] = "free"] /\ arg' = [arg EXCEPT ![t] = a]
        /\ rec' = [rec EXCEPT ![t] = NULL]
    BY <1>4 DEF At
  <2>3. /\ Recorded' = Recorded \ {a} /\ IsFiniteSet(Recorded)
        /\ Cardinality(Recorded') = Cardinality(Recorded) - 1
        /\ Cardinality(Recorded) \in Nat
    BY <2>1, <1>4, RecordedStep
  <2>4. /\ pool' \in Seq(Records) /\ Len(pool') = Len(pool) + 1 /\ Len(pool) \in Nat
        /\ pool'[1] = r /\ \A i \in 2..Len(pool) + 1 : pool'[i] = pool[i - 1]
    <3>1. <<r>> \in Seq(Records) /\ Len(<<r>>) = 1 /\ <<r>>[1] = r
      BY <2>1
    <3>. HIDE DEF r
    <3>2. pool' = <<r>> \o pool
      BY <1>4 DEF r
    <3>. QED BY <3>1, <3>2, <1>2, ConcatProperties
  <2>5. DOMAIN pool' = 1..Len(pool) + 1 /\ DOMAIN pool = 1..Len(pool)
    BY <1>2, <2>4, LenProperties
  <2>6. \A b \in Addrs : b # a => table'[b] = table[b]
    BY <1>2, <1>4
  <2>7. UsedAreTaken'
    <3>1. \A b \in Recorded' : Taken(table'[b])
      BY <2>3, <2>6 DEF UsedAreTaken, Taken, Recorded
    <3>2. Taken(r) /\ \A i \in 1..Len(pool) : Taken(pool[i])
      BY <2>1 DEF UsedAreTaken
    <3>3. \A i \in 1..Len(pool') : i = 1 \/ (i \in 2..Len(pool) + 1 /\ i - 1 \in 1..Len(pool))
      BY <2>4
    <3>4. \A i \in 1..Len(pool') : Taken(pool'[i])
      BY <2>4, <3>2, <3>3
    <3>. QED BY <3>1, <3>4, <1>1 DEF UsedAreTaken, Taken
  <2>8. RecordsOnce'
    <3>1. r \notin Range(pool) /\ IsInjective(pool)
      BY <2>1 DEF RecordsOnce
    <3>2. \A i \in 1..Len(pool') : i = 1 \/ (i \in 2..Len(pool) + 1 /\ i - 1 \in 1..Len(pool))
      BY <2>4
    <3>3. IsInjective(pool')
      <4>1. SUFFICES ASSUME NEW i \in 1..Len(pool'), NEW j \in 1..Len(pool'),
                            pool'[i] = pool'[j]
                     PROVE  i = j
        BY <2>4, <2>5 DEF IsInjective
      <4>2. \A k \in 1..Len(pool') : k # 1 => pool'[k] = pool[k - 1] /\ k - 1 \in DOMAIN pool
        BY <2>4, <2>5, <3>2
      <4>3. \A k \in 1..Len(pool') : k # 1 => pool'[k] # r
        BY <4>2, <3>1 DEF Range
      <4>4. CASE i = 1 \/ j = 1
        BY <4>1, <4>3, <4>4, <2>4
      <4>5. CASE i # 1 /\ j # 1
        <5>1. i - 1 = j - 1
          BY <4>1, <4>2, <4>5, <3>1 DEF IsInjective
        <5>. QED BY <5>1
      <4>. QED BY <4>4, <4>5
    <3>4. \A x \in Range(pool') : x = r \/ x \in Range(pool)
      BY <2>4, <2>5, <3>2 DEF Range
    <3>5. \A b, c \in Recorded' : b # c => table'[b] # table'[c]
      BY <2>3, <2>6 DEF RecordsOnce, Recorded
    <3>6. \A b \in Recorded' : table'[b] \notin Range(pool')
      BY <2>1, <2>3, <2>6, <3>4 DEF RecordsOnce, Recorded
    <3>7. (Cardinality(Recorded) + Len(pool) <= (batch - 1) * BatchSize + used \/ batch = 0)'
      BY <1>1, <2>3, <2>4 DEF RecordsOnce
    <3>. QED BY <3>3, <3>5, <3>6, <3>7 DEF RecordsOnce
  <2>9. HeapHelpTypeOK'
    BY <1>1, <1>2, <1>4, <2>1, <2>2, <2>4 DEF HeapHelpTypeOK
  <2>10. Shape'
    BY <1>1, <1>2, <2>1, <2>2, <2>3, <2>4 DEF Shape
  <2>11. NewsBounded'
    <3>1. Tracing' = Tracing
      BY <1>1, <1>4, TracingStep
    <3>. QED BY <3>1, <1>1 DEF NewsBounded
  <2>12. OneOwner'
    BY <1>1, <1>2, <2>2 DEF OneOwner
  <2>13. TableExact'
    BY <1>1, <1>2, <2>1, <2>2, <2>3 DEF TableExact, OneOwner
  <2>14. TraceIntoOwnRecord'
    BY <1>1, <1>2, <2>1, <2>2, <2>6 DEF TraceIntoOwnRecord, OneOwner, Shape
  <2>15. ReportsTrue'
    BY <1>1, <1>4 DEF ReportsTrue, NoFalseAlarm, LeaksReported
  <2>16. NothingRecorded'
    BY <1>1, <1>4 DEF NothingRecorded
  <2>. QED BY <2>7, <2>8, <2>9, <2>10, <2>11, <2>12, <2>13, <2>14, <2>15, <2>16
<1>. QED BY <1>3, <1>4 DEF Untrace

(* The record that trace takes is in nobody's hands, and there was room    *)
(* for it.                                                                 *)
LEMMA TakeStep ==
    ASSUME MemoryInv, NEW r \in Records, Take(r)
    PROVE  /\ pool' \in Seq(Records) /\ junk' \subseteq Records
           /\ batch' \in 1..MaxNews /\ used' \in 1..BatchSize
           /\ \A x \in Records : Taken(x) => Taken(x)'
           /\ Taken(r)'
           /\ (\A i \in 1..Len(pool) : Taken(pool[i]))'
           /\ \A a \in Recorded : table[a] # r
           /\ IsInjective(pool') /\ r \notin Range(pool') /\ Range(pool') \subseteq Range(pool)
           /\ Len(pool') \in Nat
           /\ Cardinality(Recorded) + 1 + Len(pool') <= (batch' - 1) * BatchSize + used'
<1>. USE DEF MemoryInv
<1>1. /\ pool \in Seq(Records) /\ junk \subseteq Records
      /\ batch \in 0..MaxNews /\ used \in 0..BatchSize
      /\ BatchSize \in Nat \ {0} /\ MaxNews \in Nat
  BY HeapHelpAssumption DEF HeapHelpTypeOK
<1>2. /\ DOMAIN pool = 1..Len(pool) /\ Len(pool) \in Nat
      /\ IsInjective(pool) /\ \A i \in 1..Len(pool) : pool[i] \in Records
  BY <1>1, LenProperties, ElementOfSeq DEF RecordsOnce
<1>3. Cardinality(Recorded) \in Nat
  BY FS_Subset, FS_CardinalityType, HeapHelpAssumption DEF Recorded
<1>4. CASE pool # <<>>
  <2>1. r = Head(pool) /\ pool' = Tail(pool) /\ UNCHANGED <<batch, used, junk>>
    BY <1>4 DEF Take
  <2>2. /\ r = pool[1] /\ pool' \in Seq(Records) /\ Len(pool') = Len(pool) - 1
        /\ \A i \in 1..Len(pool) - 1 : pool'[i] = pool[i + 1]
        /\ DOMAIN pool' = 1..Len(pool) - 1 /\ Len(pool) # 0
    BY <2>1, <1>1, <1>2, <1>4, HeadTailProperties, LenProperties, EmptySeq
  <2>3. batch # 0 /\ used # 0
    BY <1>4 DEF Shape
  <2>4. r \in Range(pool) /\ Taken(r)
    BY <2>2, <1>2 DEF Range, UsedAreTaken
  <2>5. (\A i \in 1..Len(pool) : Taken(pool[i]))'
    BY <2>1, <2>2, <1>2 DEF UsedAreTaken, Taken
  <2>6. \A a \in Recorded : table[a] # r
    BY <2>4 DEF RecordsOnce
  <2>7. IsInjective(pool')
    BY <2>2, <1>2 DEF IsInjective
  <2>8. r \notin Range(pool')
    BY <2>2, <1>2 DEF IsInjective, Range
  <2>9. Range(pool') \subseteq Range(pool)
    BY <2>2, <1>2 DEF Range
  <2>10. Cardinality(Recorded) + 1 + Len(pool') <= (batch - 1) * BatchSize + used
    BY <2>2, <2>3, <1>2, <1>3 DEF RecordsOnce
  <2>. QED BY <1>1, <1>2, <2>1, <2>2, <2>3, <2>4, <2>5, <2>6, <2>7, <2>8, <2>9, <2>10 DEF Taken
<1>5. CASE pool = <<>>
  <2>1. /\ r = <<batch', used'>> /\ junk' = junk \cup {r} /\ pool' = pool
        /\ \/ (batch = 0 \/ used = BatchSize) /\ batch' = batch + 1 /\ used' = 1
           \/ batch # 0 /\ used # BatchSize /\ batch' = batch /\ used' = used + 1
    BY <1>5 DEF Take
  <2>2. batch' \in 1..MaxNews /\ used' \in 1..BatchSize /\ r[1] = batch' /\ r[2] = used'
    BY <2>1 DEF Records
  <2>3. Len(pool) = 0 /\ Range(pool) = {}
    BY <1>2, <1>5 DEF Range
  <2>4. \A x \in Records : Taken(x) => Taken(x)'
    BY <1>1, <2>1, <2>2 DEF Taken, Records
  <2>5. Taken(r)' /\ ~Taken(r)
    BY <1>1, <2>1, <2>2 DEF Taken
  <2>6. \A a \in Recorded : table[a] # r
    BY <2>5 DEF UsedAreTaken
  <2>7. Cardinality(Recorded) + 1 <= (batch' - 1) * BatchSize + used'
    <3>1. CASE batch = 0
      <4>1. Recorded = {}
        BY <3>1 DEF Shape
      <4>2. Cardinality(Recorded) = 0
        BY <4>1, FS_EmptySet
      <4>3. batch' = 1 /\ used' = 1
        BY <3>1, <2>1
      <4>. QED BY <4>2, <4>3, <1>1
    <3>2. CASE batch # 0 /\ used = BatchSize
      <4>1. Cardinality(Recorded) <= (batch - 1) * BatchSize + BatchSize
        BY <3>2, <2>3, <1>3, <1>1 DEF RecordsOnce
      <4>2. (batch - 1) * BatchSize + BatchSize = batch * BatchSize
        BY <1>1
      <4>3. batch' - 1 = batch /\ used' = 1
        BY <3>2, <2>1, <1>1
      <4>4. batch * BatchSize \in Nat
        BY <1>1
      <4>. QED BY <4>1, <4>2, <4>3, <4>4, <1>3
    <3>3. CASE batch # 0 /\ used # BatchSize
      <4>1. Cardinality(Recorded) <= (batch - 1) * BatchSize + used
        BY <3>3, <2>3, <1>3, <1>1 DEF RecordsOnce
      <4>2. (batch - 1) * BatchSize \in Nat
        BY <3>3, <1>1
      <4>. QED BY <4>1, <4>2, <3>3, <2>1, <1>1, <1>3
    <3>. QED BY <3>1, <3>2, <3>3
  <2>8. /\ pool' \in Seq(Records) /\ junk' \subseteq Records /\ Len(pool') = 0
        /\ IsInjective(pool') /\ r \notin Range(pool') /\ Range(pool') \subseteq Range(pool)
    BY <1>1, <1>2, <2>1, <2>3
  <2>9. (\A i \in 1..Len(pool) : Taken(pool[i]))'
    BY <2>8
  <2>10. Cardinality(Recorded) + 1 + Len(pool') <= (batch' - 1) * BatchSize + used'
    BY <2>7, <2>8, <1>3
  <2>. QED BY <2>2, <2>4, <2>5, <2>6, <2>8, <2>9, <2>10
<1>. QED BY <1>4, <1>5

(* heap_help::trace: the address of a correct program is new to the table, *)
(* and its record is nobody else's.                                        *)
LEMMA TraceInv ==
    ASSUME HeapInv, NEW t \in Threads, Trace(t)
    PROVE  HeapInv'
<1>. USE DEF HeapInv, MemoryInv, CorrectInv
<1>1. /\ pc[t] = "trace" /\ proc = "running"
      /\ UNCHANGED <<heap, live, misused, report>>
  BY DEF Trace, HasTable
<1>2. /\ pc \in [Threads -> {"idle", "trace", "backtrace", "untrace", "free"}]
      /\ arg \in [Threads -> Addrs \cup {NULL}] /\ rec \in [Threads -> Records \cup {NULL}]
      /\ table \in [Addrs -> Records \cup {NULL}] /\ arg[t] \in Addrs
  BY <1>1 DEF HeapHelpTypeOK, Shape
<1>3. PICK r \in Records :
         /\ Take(r)
         /\ IF table[arg[t]] # NULL
            THEN proc' = "duplicate" /\ UNCHANGED <<table, count, pc, arg, rec>>
            ELSE /\ table' = [table EXCEPT ![arg[t]] = r]
                 /\ count' = count + 1
                 /\ At(t, "backtrace", arg[t], r)
                 /\ UNCHANGED proc
  BY DEF Trace
<1>4. /\ pool' \in Seq(Records) /\ junk' \subseteq Records
      /\ batch' \in 1..MaxNews /\ used' \in 1..BatchSize
      /\ \A x \in Records : Taken(x) => Taken(x)'
      /\ Taken(r)'
      /\ (\A i \in 1..Len(pool) : Taken(pool[i]))'
      /\ \A a \in Recorded : table[a] # r
      /\ IsInjective(pool') /\ r \notin Range(pool') /\ Range(pool') \subseteq Range(pool)
      /\ Len(pool') \in Nat
      /\ Cardinality(Recorded) + 1 + Len(pool') <= (batch' - 1) * BatchSize + used'
  BY <1>3, TakeStep
<1>5. \A a \in Recorded : table[a] \in Records /\ Taken(table[a])
  BY <1>2 DEF UsedAreTaken, Recorded
<1>6. Cardinality(Recorded) \in Nat /\ BatchSize \in Nat
  BY RecordedStep, <1>2, <1>3, HeapHelpAssumption
<1>7. CASE table[arg[t]] # NULL
  <2>1. proc' = "duplicate" /\ UNCHANGED <<table, count, pc, arg, rec>> /\ Recorded' = Recorded
    BY <1>3, <1>7 DEF Recorded
  <2>2. RecordsOnce'
    <3>1. Cardinality(Recorded) + Len(pool') <= (batch' - 1) * BatchSize + used'
      BY <1>4, <1>6
    <3>. QED BY <1>4, <2>1, <3>1 DEF RecordsOnce
  <2>3. UsedAreTaken'
    <3>1. (\A b \in Recorded : Taken(table[b]))'
      BY <1>4, <1>5, <2>1 DEF Taken
    <3>. QED BY <3>1, <1>4 DEF UsedAreTaken
  <2>4. HeapHelpTypeOK'
    BY <1>1, <1>4, <2>1 DEF HeapHelpTypeOK
  <2>5. Shape'
    BY <1>1, <1>4, <2>1 DEF Shape
  <2>6. NewsBounded' /\ OneOwner' /\ TraceIntoOwnRecord'
    BY <1>1, <2>1 DEF NewsBounded, Tracing, OneOwner, TraceIntoOwnRecord
  <2>7. TableExact'
    BY <1>1, <2>1 DEF TableExact
  <2>8. misused
    BY <1>1, <1>2, <1>7 DEF TableExact, OneOwner, Recorded
  <2>9. ReportsTrue'
    BY <1>1, <2>1, <2>8 DEF ReportsTrue, NoFalseAlarm, LeaksReported
  <2>10. NothingRecorded'
    BY <2>1 DEF NothingRecorded
  <2>. QED BY <2>2, <2>3, <2>4, <2>5, <2>6, <2>7, <2>9, <2>10
<1>8. CASE table[arg[t]] = NULL
  <2>. DEFINE a == arg[t]
  <2>1. /\ table' = [table EXCEPT ![a] = r] /\ count' = count + 1 /\ UNCHANGED proc
        /\ At(t, "backtrace", a, r)
        /\ pc' = [pc EXCEPT ![t] = "backtrace"] /\ arg' = [arg EXCEPT ![t] = a]
        /\ rec' = [rec EXCEPT ![t] = r]
    BY <1>3, <1>8 DEF At
  <2>2. /\ Recorded' = Recorded \cup {a} /\ a \notin Recorded
        /\ Cardinality(Recorded') = Cardinality(Recorded) + 1
    BY <1>2, <1>8, <2>1, RecordedStep DEF Recorded
  <2>3. table'[a] = r /\ \A b \in Addrs : b # a => table'[b] = table[b]
    BY <1>2, <2>1
  <2>4. RecordsOnce'
    <3>1. \A b, c \in Recorded' : b # c => table'[b] # table'[c]
      BY <1>4, <2>2, <2>3 DEF RecordsOnce, Recorded
    <3>2. \A b \in Recorded' : table'[b] \notin Range(pool')
      BY <1>4, <2>2, <2>3 DEF RecordsOnce, Recorded
    <3>. QED BY <1>4, <2>2, <3>1, <3>2 DEF RecordsOnce
  <2>5. UsedAreTaken'
    <3>1. (\A b \in Recorded : Taken(table[b]))'
      BY <1>4, <1>5, <2>2, <2>3 DEF Recorded, Taken
    <3>. QED BY <3>1, <1>4 DEF UsedAreTaken
  <2>6. NewsBounded' /\ count' \in 0..MaxNews
    <3>1. /\ IsFiniteSet(Tracing') /\ Cardinality(Tracing') = Cardinality(Tracing) - 1
          /\ Cardinality(Tracing) \in Nat /\ Cardinality(Tracing') \in Nat
      BY <1>1, <2>1, TracingStep, FS_CardinalityType
    <3>. QED BY <3>1, <2>1, HeapHelpAssumption DEF NewsBounded, HeapHelpTypeOK
  <2>7. HeapHelpTypeOK'
    BY <1>1, <1>2, <1>4, <2>1, <2>6 DEF HeapHelpTypeOK
  <2>8. Shape'
    BY <1>1, <1>2, <1>4, <2>1 DEF Shape
  <2>9. OneOwner'
    BY <1>1, <1>2, <2>1 DEF OneOwner
  <2>10. TableExact'
    BY <1>1, <1>2, <2>1, <2>2 DEF TableExact, OneOwner
  <2>11. TraceIntoOwnRecord'
    BY <1>1, <1>2, <2>1, <2>3 DEF TraceIntoOwnRecord, OneOwner, Shape
  <2>12. ReportsTrue'
    BY <1>1, <2>1 DEF ReportsTrue, NoFalseAlarm, LeaksReported
  <2>13. NothingRecorded'
    BY <1>1, <2>1 DEF NothingRecorded
  <2>. QED BY <2>4, <2>5, <2>6, <2>7, <2>8, <2>9, <2>10, <2>11, <2>12, <2>13
<1>. QED BY <1>7, <1>8

-----------------------------------------------------------------------------
(* Every step of every thread keeps the invariant.                         *)
LEMMA NextInv ==
    ASSUME HeapInv, [Next]_vars
    PROVE  HeapInv'
<1>1. CASE Next
  <2>1. CASE End \/ \E t \in Threads : UseDestroyed(t)
    BY <2>1, AfterwardsInv
  <2>2. ASSUME NEW t \in Threads, Step(t), ~UseDestroyed(t)
        PROVE  HeapInv'
    BY <2>2, NewInv, DeleteInv, TraceInv, BacktraceInv, UntraceInv, FreeMemoryInv, ExitInv
    DEF Step
  <2>. QED BY <1>1, <2>1, <2>2 DEF Next
<1>2. CASE UNCHANGED vars
  <2>. USE <1>2 DEF vars, tableVars, modeVars, HeapInv, MemoryInv, CorrectInv
  <2>1. RecordsOnce' /\ UsedAreTaken' /\ Recorded' = Recorded
    BY RecordsUnchanged
  <2>2. HeapHelpTypeOK' /\ Shape'
    BY <2>1 DEF HeapHelpTypeOK, Shape
  <2>3. NewsBounded' /\ OneOwner' /\ TraceIntoOwnRecord'
    BY DEF NewsBounded, Tracing, OneOwner, TraceIntoOwnRecord
  <2>4. TableExact'
    BY <2>1 DEF TableExact
  <2>5. ReportsTrue'
    BY DEF ReportsTrue, NoFalseAlarm, LeaksReported
  <2>6. NothingRecorded'
    BY <2>1 DEF NothingRecorded
  <2>. QED BY <2>1, <2>2, <2>3, <2>4, <2>5, <2>6
<1>. QED BY <1>1, <1>2

(* Nothing is allocated when the program starts.                           *)
LEMMA InitInv ==
    ASSUME Init
    PROVE  HeapInv
<1>. USE DEF Init
<1>1. Recorded = {} /\ Tracing = {} /\ Len(pool) = 0 /\ pool \in Seq(Records)
  BY DEF Recorded, Tracing
<1>2. IsFiniteSet(Tracing) /\ Cardinality(Tracing) = 0 /\ Cardinality(Recorded) = 0
  BY <1>1, FS_EmptySet
<1>3. HeapHelpTypeOK
  BY <1>1, HeapHelpAssumption DEF HeapHelpTypeOK
<1>4. Shape
  <2>1. misused \in BOOLEAN
    OBVIOUS
  <2>2. report \in [leaks : SUBSET Addrs, shown : 0..ReportLimit]
    BY HeapHelpAssumption
  <2>. QED BY <1>1, <2>1, <2>2 DEF Shape
<1>5. NewsBounded
  BY <1>2, HeapHelpAssumption DEF NewsBounded
<1>6. UsedAreTaken
  BY <1>1 DEF UsedAreTaken
<1>7. RecordsOnce
  BY <1>1 DEF RecordsOnce, IsInjective
<1>8. OneOwner /\ TraceIntoOwnRecord
  BY DEF OneOwner, TraceIntoOwnRecord
<1>9. TableExact
  BY <1>1 DEF TableExact
<1>10. ReportsTrue
  BY DEF ReportsTrue, NoFalseAlarm, LeaksReported
<1>11. NothingRecorded
  BY DEF NothingRecorded
<1>. QED BY <1>3, <1>4, <1>5, <1>6, <1>7, <1>8, <1>9, <1>10, <1>11 DEF HeapInv, MemoryInv, CorrectInv

(* The strengthened invariant holds in every reachable state.              *)
THEOREM HeapInvariant == Spec => []HeapInv
<1>1. Init => HeapInv
  BY InitInv
<1>2. HeapInv /\ [Next]_vars => HeapInv'
  BY NextInv
<1>. QED BY <1>1, <1>2, PTL DEF Spec

(* The tables of the leak detector are sound: every allocation record is   *)
(* in one place, and the table of a correct program holds exactly what the *)
(* program holds and what operator new and delete are working on, nothing  *)
(* that malloc could return again.                                         *)
THEOREM TrackingIsSound == Spec => []TrackingSound
<1>1. HeapInv => TrackingSound
  BY DEF HeapInv, MemoryInv, CorrectInv, TrackingSound
<1>. QED BY <1>1, HeapInvariant, PTL

(* The trace that operator new stores after it has released the mutex goes *)
(* into the record of its own address.                                     *)
THEOREM TraceGoesToOwnRecord == Spec => []TraceIntoOwnRecord
<1>1. HeapInv => TraceIntoOwnRecord
  BY DEF HeapInv, CorrectInv
<1>. QED BY <1>1, HeapInvariant, PTL

(* What the tool says is true: a correct program meets no false alarm, and *)
(* its report at exit names every address it still holds.                  *)
THEOREM ReportIsTrue == Spec => []ReportsTrue
<1>1. HeapInv => ReportsTrue
  BY DEF HeapInv, CorrectInv
<1>. QED BY <1>1, HeapInvariant, PTL
=============================================================================
