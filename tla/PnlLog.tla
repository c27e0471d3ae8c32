------------------------------- MODULE PnlLog -------------------------------
(***************************************************************************)
(* The Database of src/db.rs: bundle_logs rows behind one std::sync::Mutex *)
(* around the connection, written by log_bundle, summed over a sliding     *)
(* window by rolling_pnl, and summarised by stats_summary.  Every thread   *)
(* makes one call.  Profits are stored as text and cast to SQLite's 64-bit *)
(* INTEGER in the query (LogMath).                                         *)
(***************************************************************************)
EXTENDS LogMath, Sequences

CONSTANTS
    Loggers,        \* threads that call log_bundle
    Readers,        \* threads that call rolling_pnl
    Reporters,      \* threads that call stats_summary
    Free,           \* "the mutex is free"
    NetProfits,     \* values of net_profit_wei
    Window,         \* window_minutes
    MaxNow          \* bound: time stops here

ASSUME LogAssumption ==
    /\ Readers \cap (Loggers \cup Reporters) = {} /\ Loggers \cap Reporters = {}
    /\ Free \notin Loggers \cup Readers \cup Reporters
    /\ NetProfits \subseteq Int
    /\ Window \in Nat

VARIABLES
    bundle_logs,    \* the table, in insertion order
    now,
    conn,           \* who holds the mutex
    progress, result,
    before          \* history: how many rows there were when the call began

logVars == <<bundle_logs, now, conn, progress, result, before>>

Threads == Loggers \cup Readers \cup Reporters
Unset == [value |-> 0, upto |-> 0, at |-> 0]
GoOn(t, label) == progress' = [progress EXCEPT ![t] = label]

-----------------------------------------------------------------------------
(* The sums of the first n values, in the order the query meets them. *)
Sums(values) ==
    LET upto[n \in 0 .. Len(values)] == IF n = 0 THEN 0 ELSE upto[n - 1] + values[n]
    IN  upto
Total(values) == Sums(values)[Len(values)]
Overflows(values) ==
    \E n \in DOMAIN values : ~Fits(Sums(values)[n])

(* Mutant of Recent: rows logged exactly Window minutes ago are left out. *)
RecentStrict(at) ==
    [n \in DOMAIN bundle_logs |->
        IF bundle_logs[n].at > at - Window THEN Cast(bundle_logs[n].net) ELSE 0]

(* What each row adds: timestamp >= datetime('now', '-window minutes') *)
Recent(at) ==
    [n \in DOMAIN bundle_logs |->
        IF bundle_logs[n].at >= at - Window THEN Cast(bundle_logs[n].net) ELSE 0]

(* An error, like the NULL of an empty window, is read as 0. *)
Pnl(at) == IF Overflows(Recent(at)) THEN 0 ELSE Total(Recent(at))

-----------------------------------------------------------------------------
LogInit ==
    /\ bundle_logs = <<>>
    /\ now = 0
    /\ conn = Free
    /\ progress = [t \in Threads |-> "idle"]
    /\ result = [t \in Threads |-> Unset]
    /\ before = [t \in Threads |-> 0]

Call(t) ==
    /\ progress[t] = "idle"
    /\ GoOn(t, "lock")
    /\ before' = [before EXCEPT ![t] = Len(bundle_logs)]
    /\ UNCHANGED <<bundle_logs, now, conn, result>>

(* self.conn.lock().  For stats_summary it is the second lock that ends    *)
(* the call: rolling_pnl runs inside it, with conn locked already.         *)
Lock(t) ==
    /\ progress[t] \in {"lock", "relock"}
    /\ conn = Free
    /\ IF progress[t] = "lock" THEN conn' = t /\ GoOn(t, "query")
       ELSE UNCHANGED conn /\ GoOn(t, "done")
    /\ UNCHANGED <<bundle_logs, now, result, before>>

(* Mutant of Insert: an error returns with the lock held. *)
InsertKeepsLock(t) ==
    /\ t \in Loggers
    /\ progress[t] = "query"
    /\ \/ /\ \E n \in NetProfits : bundle_logs' = Append(bundle_logs, [net |-> n, at |-> now])
          /\ conn' = Free
       \/ UNCHANGED <<bundle_logs, conn>>
    /\ GoOn(t, "done")
    /\ UNCHANGED <<now, result, before>>

(* log_bundle: INSERT with the current timestamp, or a traced error. *)
Insert(t) ==
    /\ t \in Loggers
    /\ progress[t] = "query"
    /\ \/ \E n \in NetProfits : bundle_logs' = Append(bundle_logs, [net |-> n, at |-> now])
       \/ UNCHANGED bundle_logs
    /\ conn' = Free
    /\ GoOn(t, "done")
    /\ UNCHANGED <<now, result, before>>

(* rolling_pnl *)
Select(t) ==
    /\ t \in Readers
    /\ progress[t] = "query"
    /\ result' = [result EXCEPT ![t] =
                    [value |-> Pnl(now), upto |-> Len(bundle_logs), at |-> now]]
    /\ conn' = Free
    /\ GoOn(t, "done")
    /\ UNCHANGED <<bundle_logs, now, before>>

(* stats_summary: two counts, then rolling_pnl while conn is still locked. *)
Count(t) ==
    /\ t \in Reporters
    /\ progress[t] = "query"
    /\ GoOn(t, "relock")
    /\ UNCHANGED <<bundle_logs, now, conn, result, before>>

Tick ==
    /\ now < MaxNow
    /\ now' = now + 1
    /\ UNCHANGED <<bundle_logs, conn, progress, result, before>>

Step(t) == Lock(t) \/ Insert(t) \/ Select(t) \/ Count(t)
LogNext == Tick \/ \E t \in Threads : Call(t) \/ Step(t)

LogSpec == LogInit /\ [][LogNext]_logVars

(* The operating system runs the threads; nothing says calls are made. *)
FairLogSpec == LogSpec /\ \A t \in Threads : WF_logVars(Step(t))

-----------------------------------------------------------------------------
(* Properties *)

(* The types of all variables. *)
LogTypeOK ==
    /\ bundle_logs \in Seq([net : NetProfits, at : 0 .. now])
    /\ now \in Nat
    /\ conn \in Threads \cup {Free}
    /\ progress \in [Threads -> {"idle", "lock", "query", "relock", "done"}]
    /\ DOMAIN result = Threads
    /\ \A t \in Threads : result[t].upto \in 0 .. Len(bundle_logs) /\ result[t].at \in 0 .. now
    /\ before \in [Threads -> 0 .. Len(bundle_logs)]

(* A rolling_pnl that did not overflow is the sum of all the profits       *)
(* logged up to a moment inside the call, none older than the window left  *)
(* in and none younger left out.                                           *)
Young(t) ==
    [n \in 1 .. result[t].upto |->
        IF result[t].at - bundle_logs[n].at <= Window THEN Cast(bundle_logs[n].net) ELSE 0]
SumOfWindow ==
    \A t \in Readers : progress[t] = "done" =>
        /\ result[t].upto \in before[t] .. Len(bundle_logs)
        /\ Overflows(Young(t)) \/ result[t].value = Total(Young(t))

(* log_bundle and rolling_pnl return, so that neither a task nor the       *)
(* circuit breaker is ever stuck on the database, unless some thread is    *)
(* inside stats_summary: that one locks twice and keeps everybody out.     *)
CallsReturn ==
    \A t \in Loggers \cup Readers :
        progress[t] = "lock" ~> \/ progress[t] = "done"
                                \/ \E r \in Reporters : progress[r] = "relock"

-----------------------------------------------------------------------------
(* Claims of the documentation.  TLC refutes them: see the README. *)

(* db.rs: "All wei values are stored as TEXT to avoid integer overflow."   *)
(* The reported sum is the sum of the profits that were stored.            *)
SumIsExact ==
    \A t \in Readers : progress[t] = "done" =>
        result[t].value =
            Total([n \in 1 .. result[t].upto |->
                     IF result[t].at - bundle_logs[n].at <= Window THEN bundle_logs[n].net ELSE 0])

(* db.rs: stats_summary "Returns aggregate statistics". *)
StatsReturn == \A t \in Reporters : progress[t] = "lock" ~> progress[t] = "done"

=============================================================================
