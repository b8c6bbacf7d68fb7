------------------------------ MODULE HeapHelp ------------------------------
(***************************************************************************)
(* The leak detector of utils/heap_help: operator new and operator delete  *)
(* of a program with several threads, which record every allocation in a   *)
(* table under a mutex, and the report at exit.  A step is one critical    *)
(* section of the mutex (which also covers the whole report), one call of  *)
(* malloc or free, or the work that follows a critical section.            *)
(*                                                                         *)
(* The program may misuse the heap by deleting an address nobody holds.    *)
(* HHCONTENT is read and never used, so it is not modelled.                *)
(***************************************************************************)
EXTENDS Integers, Sequences, FiniteSets, SequencesExt

CONSTANTS
    Threads,
    Addrs,          \* what malloc returns
    BatchSize,      \* ALLOCATION_BATCH_SIZE
    ReportLimit,    \* report_limit
    MaxNews,        \* bound on the calls of operator new
    NULL

(* The i-th allocation of the b-th batch.                                  *)
Records == (1..MaxNews) \X (1..BatchSize)

ASSUME HeapHelpAssumption ==
    /\ BatchSize \in Nat \ {0} /\ ReportLimit \in Nat \ {0} /\ MaxNews \in Nat
    /\ IsFiniteSet(Addrs) /\ NULL \notin Addrs \cup Records

VARIABLES
    heap,       \* addresses handed out by malloc
    live,       \* addresses the program holds
    table,      \* m_allocations: the record of an address
    pool,       \* m_alloc_pool, a stack
    batch, used,  \* m_alloc_batch: how many there were, how much is used
    count,      \* m_alloc_count
    junk,       \* records whose trace_size was never written
    reportMode, backtraceMode,
    pc, arg, rec,  \* a thread: where it is, its pointer, its record
    misused,    \* the program has deleted something it does not hold
    proc,       \* "running", "returned" after the destructor, or how it ended
    report      \* what the destructor found: leaks and reports shown

tableVars == <<table, pool, batch, used, count>>
modeVars == <<reportMode, backtraceMode>>
vars == <<heap, live, tableVars, junk, modeVars, pc, arg, rec, misused, proc, report>>

Recorded == {a \in Addrs : table[a] # NULL}

At(t, where, a, r) ==
    /\ pc' = [pc EXCEPT ![t] = where]
    /\ arg' = [arg EXCEPT ![t] = a]
    /\ rec' = [rec EXCEPT ![t] = r]

(* The process goes on after a destructor that returns, and so do the      *)
(* other threads, without the table.                                       *)
Runs(t, where) == proc \in {"running", "returned"} /\ pc[t] = where
HasTable(t, where) == proc = "running" /\ pc[t] = where

-----------------------------------------------------------------------------
(* operator new: malloc ...                                                *)
New(t, a) ==
    /\ Runs(t, "idle") /\ a \notin heap
    /\ count + Cardinality({u \in Threads : pc[u] = "trace"}) < MaxNews
    /\ heap' = heap \cup {a}
    /\ At(t, "trace", a, NULL)
    /\ UNCHANGED <<live, tableVars, junk, modeVars, misused, proc, report>>

(* The record to use: a pooled one, else the next of the batch, else the   *)
(* first of a new batch.  Memory of a batch is not initialised.            *)
Take(r) ==
    IF pool # <<>> THEN r = Head(pool) /\ pool' = Tail(pool) /\ UNCHANGED <<batch, used, junk>>
    ELSE /\ IF batch = 0 \/ used = BatchSize
            THEN batch' = batch + 1 /\ used' = 1
            ELSE batch' = batch /\ used' = used + 1
         /\ r = <<batch', used'>>
         /\ junk' = junk \cup {r}
         /\ UNCHANGED pool

(* Mutant: the program gets the pointer before the trace is stored.        *)
MutantTrace(t) ==
    /\ HasTable(t, "trace")
    /\ \E r \in Records :
         /\ Take(r)
         /\ table' = [table EXCEPT ![arg[t]] = r]
         /\ At(t, "backtrace", arg[t], r)
    /\ live' = live \cup {arg[t]}
    /\ count' = count + 1
    /\ UNCHANGED <<heap, modeVars, misused, proc, report>>

(* ... heap_help::trace under the mutex, which asserts that the address is *)
(* new to the table ...                                                    *)
Trace(t) ==
    /\ HasTable(t, "trace")
    /\ \E r \in Records :
         /\ Take(r)
         /\ IF table[arg[t]] # NULL
            THEN proc' = "duplicate" /\ UNCHANGED <<table, count, pc, arg, rec>>
            ELSE /\ table' = [table EXCEPT ![arg[t]] = r]
                 /\ count' = count + 1
                 /\ At(t, "backtrace", arg[t], r)
                 /\ UNCHANGED proc
    /\ UNCHANGED <<heap, live, modeVars, misused, report>>

(* ... and, without it, the backtrace.  With HHBACKTRACE=off the assertion *)
(* reads a value that may never have been written.                         *)
Backtrace(t) ==
    /\ Runs(t, "backtrace")
    /\ junk' = IF backtraceMode = "on" THEN junk \ {rec[t]} ELSE junk
    /\ \/ /\ live' = live \cup {arg[t]}
          /\ At(t, "idle", NULL, NULL)
          /\ UNCHANGED proc
       \/ /\ rec[t] \in junk'
          /\ proc' = "trace_size"
          /\ UNCHANGED <<live, pc, arg, rec>>
    /\ UNCHANGED <<heap, tableVars, modeVars, misused, report>>

-----------------------------------------------------------------------------
(* Mutant: the memory is given back before it is untraced.                 *)
MutantDelete(t, a) ==
    /\ Runs(t, "idle")
    /\ a \in live
    /\ live' = live \ {a}
    /\ heap' = heap \ {a}
    /\ At(t, "untrace", a, NULL)
    /\ UNCHANGED <<tableVars, junk, modeVars, misused, proc, report>>

(* operator delete, of a pointer the program holds or of one nobody has ... *)
Delete(t, a) ==
    /\ Runs(t, "idle")
    /\ \/ a \in live /\ UNCHANGED misused
       \/ a \notin heap /\ misused' = TRUE
    /\ live' = live \ {a}
    /\ At(t, "untrace", a, NULL)
    /\ UNCHANGED <<heap, tableVars, junk, modeVars, proc, report>>

(* ... heap_help::untrace ...                                              *)
Untrace(t) ==
    /\ HasTable(t, "untrace")
    /\ IF table[arg[t]] = NULL
       THEN proc' = "unknown" /\ UNCHANGED <<table, pool, pc, arg, rec>>
       ELSE /\ pool' = <<table[arg[t]]>> \o pool
            /\ table' = [table EXCEPT ![arg[t]] = NULL]
            /\ At(t, "free", arg[t], NULL)
            /\ UNCHANGED proc
    /\ UNCHANGED <<heap, live, batch, used, count, junk, modeVars, misused, report>>

(* ... and free.                                                           *)
FreeMemory(t) ==
    /\ Runs(t, "free")
    /\ heap' = heap \ {arg[t]}
    /\ At(t, "idle", NULL, NULL)
    /\ UNCHANGED <<live, tableVars, junk, modeVars, misused, proc, report>>

(* Mutant: nothing is reported once the limit is passed.                   *)
MutantLeaks == IF Cardinality(Recorded) > ReportLimit THEN {} ELSE Recorded

(* The leaks: everything in the table when the destructor has the mutex.   *)
Leaks == Recorded

(* trace_resolve of a trace whose size was never written may run over the  *)
(* arrays.                                                                 *)
Unresolvable(a) == table[a] \in junk

(* ~heap_help, run by the thread that ends the program while others may    *)
(* still be inside operator new or delete.  It returns when it has nothing *)
(* to report, and m_allocations is destroyed.                              *)
Exit(t) ==
    /\ HasTable(t, "idle")
    /\ IF reportMode = "quiet" \/ Leaks = {}
       THEN proc' = "returned" /\ UNCHANGED report
       ELSE \/ \E a \in Leaks : Unresolvable(a) /\ proc' = "crash" /\ UNCHANGED report
            \/ /\ proc' = "leaks"
               /\ report' = [leaks |-> Leaks, shown |->
                       IF Cardinality(Leaks) < ReportLimit THEN Cardinality(Leaks) ELSE ReportLimit]
    /\ UNCHANGED <<heap, live, tableVars, junk, modeVars, pc, arg, rec, misused>>

(* A trace or untrace after that, by another thread or a static destructor,*)
(* uses the destroyed table, which is undefined: nothing is said of the    *)
(* process from there on.                                                  *)
UseDestroyed(t) ==
    /\ proc = "returned" /\ pc[t] \in {"trace", "untrace"}
    /\ proc' = "undefined"
    /\ UNCHANGED <<heap, live, tableVars, junk, modeVars, pc, arg, rec, misused, report>>

(* The process ends, whatever its other threads are doing.                 *)
End ==
    /\ proc = "returned"
    /\ proc' = "exit"
    /\ UNCHANGED <<heap, live, tableVars, junk, modeVars, pc, arg, rec, misused, report>>

Init ==
    /\ heap = {} /\ live = {}
    /\ table = [a \in Addrs |-> NULL]
    /\ pool = <<>> /\ batch = 0 /\ used = 0 /\ count = 0 /\ junk = {}
    /\ reportMode \in {"verbose", "leaks", "quiet"}
    /\ backtraceMode \in {"on", "off"}
    /\ pc = [t \in Threads |-> "idle"]
    /\ arg = [t \in Threads |-> NULL]
    /\ rec = [t \in Threads |-> NULL]
    /\ misused = FALSE
    /\ proc = "running"
    /\ report = [leaks |-> {}, shown |-> 0]

Step(t) ==
    \/ \E a \in Addrs : New(t, a) \/ Delete(t, a)
    \/ Trace(t) \/ Backtrace(t) \/ Untrace(t) \/ FreeMemory(t)
    \/ Exit(t) \/ UseDestroyed(t)

Next == End \/ \E t \in Threads : Step(t)

Spec == Init /\ [][Next]_vars

-----------------------------------------------------------------------------
HeapHelpTypeOK ==
    /\ heap \subseteq Addrs /\ live \subseteq Addrs
    /\ table \in [Addrs -> Records \cup {NULL}]
    /\ pool \in Seq(Records) /\ junk \subseteq Records
    /\ batch \in 0..MaxNews /\ used \in 0..BatchSize /\ count \in 0..MaxNews
    /\ pc \in [Threads -> {"idle", "trace", "backtrace", "untrace", "free"}]
    /\ arg \in [Threads -> Addrs \cup {NULL}] /\ rec \in [Threads -> Records \cup {NULL}]
    /\ proc \in {"running", "returned", "exit", "leaks", "crash", "duplicate",
                 "trace_size", "unknown", "undefined"}
    /\ report.leaks \subseteq Addrs /\ report.shown \in 0..ReportLimit

(* Every allocation object is in one place: in the table for one address,  *)
(* in the pool once, or not used yet.                                      *)
RecordsOnce ==
    /\ IsInjective(pool)
    /\ \A a, b \in Recorded : a # b => table[a] # table[b]
    /\ \A a \in Recorded : table[a] \notin Range(pool)
    /\ Cardinality(Recorded) + Len(pool) <= (batch - 1) * BatchSize + used \/ batch = 0

(* While the program is correct, the table holds exactly what it holds and *)
(* what a thread inside operator new or delete is about to hand out or     *)
(* untrace; in particular nothing that malloc could return again.          *)
TableExact ==
    ~misused =>
        /\ Recorded = live \cup {arg[t] : t \in {u \in Threads : pc[u] \in {"backtrace", "untrace"}}}
        /\ Recorded \subseteq heap

(* What the destructor and untrace rely on: all of these.                 *)
TrackingSound == HeapHelpTypeOK /\ RecordsOnce /\ TableExact

(* The trace is stored into a record nobody else has taken meanwhile.      *)
TraceIntoOwnRecord ==
    ~misused => \A t \in Threads : pc[t] = "backtrace" => table[arg[t]] = rec[t]

(* No false alarm: "unknown or already freed memory" and the assertion on  *)
(* duplicate addresses are met only by a program that misused the heap.    *)
NoFalseAlarm == proc \in {"unknown", "duplicate"} => misused

(* The report of a correct program names every address it still holds and, *)
(* besides, only those whose new or delete was interrupted by the exit; and*)
(* the destructor does not return, nor the process end, silently while the *)
(* program holds something, also if threads go on after the destructor.    *)
LeaksReported ==
    ~misused =>
        /\ proc = "leaks" => /\ live \subseteq report.leaks /\ report.leaks \subseteq heap
                            /\ report.shown > 0
        /\ proc \in {"returned", "exit"} /\ reportMode # "quiet" => live = {}

(* What the tool says is true: neither a false alarm nor a missed leak.    *)
ReportsTrue == NoFalseAlarm /\ LeaksReported
=============================================================================
