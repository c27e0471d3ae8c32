---------------------------- MODULE ScannerProofs ----------------------------
(***************************************************************************)
(* Proofs about the two scanners.  MempoolScanner, for any finite set of   *)
(* endpoints, any hashes, window and limits: the inductive invariant IInv  *)
(* says that the cache remembers the last admission of a hash for as long  *)
(* as the window lasts, and counts the admissions that are on their way.   *)
(* Feeds, for any calls, hints, queue sizes and numbers of events: the     *)
(* inductive invariant FeedsInv says that the buffer and the connection    *)
(* hold whole events between them, and what was read comes before them.    *)
(***************************************************************************)
EXTENDS MempoolScanner, Feeds, FiniteSetTheorems, SequenceTheorems, TLAPS

(* The cache holds the time of the last admission, or it is long ago. *)
CacheInv ==
    \A h \in Hashes :
        /\ cache[h] # Absent => cache[h] = admitted[h]
        /\ admitted[h] # Absent => cache[h] = admitted[h] \/ now - admitted[h] >= Window

(* The endpoint tasks that have admitted h and not sent it. *)
Busy(h) == {e \in Endpoints : tx[e] = h /\ pc[e] \in {"size", "send"}}

Balanced(h) == admissions[h] = forwards[h] + losses[h] + Cardinality(Busy(h))

IInv == TypeOK /\ CacheInv /\ \A h \in Swaps : Balanced(h)

Places == {"connect", "subscribe", "stream", "check", "size", "send", "sleep"}

USE DEF Absent

-----------------------------------------------------------------------------
(* Busy sets are finite, and grow and shrink by one. *)
LEMMA BusyFinite ==
  ASSUME NEW h
  PROVE  IsFiniteSet(Busy(h)) /\ Cardinality(Busy(h)) \in Nat
  <1>1. IsFiniteSet(Endpoints) /\ Busy(h) \in SUBSET Endpoints
    BY ScannerAssumption DEF Busy
  <1>2. IsFiniteSet(Busy(h))
    BY <1>1, FS_Subset
  <1>3. QED
    BY <1>2, FS_CardinalityType

LEMMA BusyGrows ==
  ASSUME NEW h, NEW e, e \notin Busy(h), Busy(h)' = Busy(h) \cup {e}
  PROVE  Cardinality(Busy(h)') = Cardinality(Busy(h)) + 1
  BY BusyFinite, FS_AddElement

LEMMA BusyShrinks ==
  ASSUME NEW h, NEW e, e \in Busy(h), Busy(h)' = Busy(h) \ {e}
  PROVE  Cardinality(Busy(h)') = Cardinality(Busy(h)) - 1
  BY BusyFinite, FS_RemoveElement

(* A step between places where nothing is on its way keeps the balance. *)
LEMMA BalanceKept ==
  ASSUME IInv, UNCHANGED <<admissions, forwards, losses>>,
         NEW e \in Endpoints, pc' = [pc EXCEPT ![e] = pc'[e]],
         \A f \in Endpoints : f # e => tx'[f] = tx[f],
         \/ pc[e] \notin {"size", "send"} /\ pc'[e] \notin {"size", "send"}
         \/ pc[e] \in {"size", "send"} /\ pc'[e] \in {"size", "send"} /\ tx'[e] = tx[e]
  PROVE  \A h \in Swaps : Balanced(h)'
  <1> SUFFICES ASSUME NEW h \in Swaps PROVE Balanced(h)'
    OBVIOUS
  <1>1. \A f \in Endpoints : f # e => pc'[f] = pc[f]
    BY DEF IInv, TypeOK
  <1>2. Busy(h)' = Busy(h)
    BY <1>1 DEF Busy
  <1>3. QED
    BY <1>2 DEF IInv, Balanced

(* What is in neither count nor on its way does not touch the balance. *)
LEMMA BalanceStutters ==
  ASSUME IInv, UNCHANGED <<admissions, forwards, losses, tx, pc>>
  PROVE  \A h \in Swaps : Balanced(h)'
  <1>1. \A h \in Swaps : Busy(h)' = Busy(h)
    BY DEF Busy
  <1>2. QED
    BY <1>1 DEF IInv, Balanced

-----------------------------------------------------------------------------
(* A link that comes and goes, an announcement. *)
LEMMA LinkStep ==
  ASSUME IInv, NEW e \in Endpoints, Link(e) \/ Announce(e)
  PROVE  IInv'
  <1>1. /\ \E label \in Places : pc' = [pc EXCEPT ![e] = label]
        /\ pc[e] \notin {"size", "send"}
        /\ UNCHANGED <<alive, now, cache, flowVars, admitted, admissions>>
    BY DEF Link, Announce, Connected, ConnectFails, Subscribe, StreamEnds, Wake, Goto, Places
  <1>2. pc'[e] \notin {"size", "send"} /\ pc' = [pc EXCEPT ![e] = pc'[e]]
    BY DEF Link, Announce, Connected, ConnectFails, Subscribe, StreamEnds, Wake, Goto, IInv, TypeOK
  <1>3. /\ tx' \in [Endpoints -> Hashes]
        /\ \A f \in Endpoints : f # e => tx'[f] = tx[f]
    BY DEF Link, Announce, Connected, ConnectFails, Subscribe, StreamEnds, Wake, IInv, TypeOK
  <1>4. retry_delay' \in [Endpoints -> 1 .. MaxDelay]
    <2> DEFINE delays == 1 .. MaxDelay
    <2>1. retry_delay \in [Endpoints -> delays] /\ 1 \in delays
      BY ScannerAssumption DEF IInv, TypeOK
    <2>2. Doubled(retry_delay[e]) \in delays
      BY ScannerAssumption DEF Doubled, IInv, TypeOK
    <2>3. \E d \in {retry_delay[e], 1, Doubled(retry_delay[e])} :
              retry_delay' = [retry_delay EXCEPT ![e] = d]
      BY <2>1 DEF Link, Announce, Connected, ConnectFails, Subscribe, StreamEnds, Wake
    <2> HIDE DEF delays
    <2>4. retry_delay' \in [Endpoints -> delays]
      BY <2>1, <2>2, <2>3
    <2>5. QED
      BY <2>4 DEF delays
  <1>5. pc' \in [Endpoints -> Places]
    BY <1>1 DEF IInv, TypeOK, Places
  <1>6. TypeOK'
    BY <1>1, <1>3, <1>4, <1>5 DEF IInv, TypeOK, Places, flowVars
  <1>7. CacheInv'
    BY <1>1 DEF IInv, CacheInv
  <1>8. \A h \in Swaps : Balanced(h)'
    BY <1>1, <1>2, <1>3, BalanceKept DEF flowVars
  <1>9. QED
    BY <1>6, <1>7, <1>8 DEF IInv

(* check_and_insert, up to the size check. *)
LEMMA CheckStep ==
  ASSUME IInv, NEW e \in Endpoints, CheckAndInsert(e)
  PROVE  IInv'
  <1>1. pc[e] = "check" /\ tx[e] \in Hashes /\ UNCHANGED <<alive, now, tx, retry_delay, flowVars>>
    BY DEF CheckAndInsert, IInv, TypeOK
  <1>2. CASE IsDuplicate(tx[e])
    <2>1. pc' = [pc EXCEPT ![e] = "stream"] /\ UNCHANGED <<cache, admitted, admissions>>
      BY <1>2 DEF CheckAndInsert, Goto
    <2>2. TypeOK'
      BY <1>1, <2>1 DEF IInv, TypeOK, flowVars
    <2>3. CacheInv'
      BY <1>1, <2>1 DEF IInv, CacheInv
    <2>4. pc'[e] = "stream"
      BY <2>1 DEF IInv, TypeOK
    <2>5. \A h \in Swaps : Balanced(h)'
      BY <1>1, <2>1, <2>4, BalanceKept DEF flowVars
    <2>6. QED
      BY <2>2, <2>3, <2>5 DEF IInv
  <1>3. CASE ~IsDuplicate(tx[e])
    <2>1. /\ cache' = [cache EXCEPT ![tx[e]] = now]
          /\ admitted' = [admitted EXCEPT ![tx[e]] = now]
          /\ admissions' = [admissions EXCEPT ![tx[e]] = admissions[tx[e]] + 1]
          /\ pc' = [pc EXCEPT ![e] = "size"]
      BY <1>3 DEF CheckAndInsert, Goto
    <2>2. TypeOK'
      <3> DEFINE times == 0 .. now \cup {Absent}
      <3>1. cache \in [Hashes -> times] /\ admitted \in [Hashes -> times] /\ now \in times
        BY DEF IInv, TypeOK
      <3> HIDE DEF times
      <3>2. cache' \in [Hashes -> times] /\ admitted' \in [Hashes -> times]
        BY <1>1, <2>1, <3>1
      <3>3. cache' \in [Hashes -> 0 .. now' \cup {Absent}]
            /\ admitted' \in [Hashes -> 0 .. now' \cup {Absent}]
        BY <1>1, <3>2 DEF times
      <3>4. admissions' \in [Hashes -> Nat]
        BY <1>1, <2>1 DEF IInv, TypeOK
      <3>5. pc' \in [Endpoints -> Places]
        BY <2>1 DEF IInv, TypeOK, Places
      <3>6. QED
        BY <1>1, <3>3, <3>4, <3>5 DEF IInv, TypeOK, Places, flowVars
    <2>3. CacheInv'
      <3>1. /\ cache'[tx[e]] = now /\ admitted'[tx[e]] = now
            /\ \A h \in Hashes : h # tx[e] => cache'[h] = cache[h] /\ admitted'[h] = admitted[h]
        BY <1>1, <2>1 DEF IInv, TypeOK
      <3>2. QED
        BY <1>1, <3>1 DEF IInv, CacheInv
    <2>4. \A h \in Swaps : Balanced(h)'
      <3> SUFFICES ASSUME NEW h \in Swaps PROVE Balanced(h)'
        OBVIOUS
      <3>1. h \in Hashes
        BY ScannerAssumption
      <3>2. pc'[e] = "size" /\ \A f \in Endpoints : f # e => pc'[f] = pc[f]
        BY <2>1 DEF IInv, TypeOK
      <3>3. CASE h = tx[e]
        <4>1. e \notin Busy(h) /\ Busy(h)' = Busy(h) \cup {e}
          BY <1>1, <3>2, <3>3 DEF Busy
        <4>2. Cardinality(Busy(h)') = Cardinality(Busy(h)) + 1
          BY <4>1, BusyGrows
        <4>3. admissions'[h] = admissions[h] + 1 /\ UNCHANGED <<forwards, losses>>
          BY <1>1, <2>1, <3>1, <3>3 DEF IInv, TypeOK, flowVars
        <4>4. /\ admissions[h] \in Nat /\ forwards[h] \in Nat /\ losses[h] \in Nat
              /\ Cardinality(Busy(h)) \in Nat
          BY <3>1, BusyFinite DEF IInv, TypeOK
        <4>5. QED
          BY <4>2, <4>3, <4>4 DEF IInv, Balanced
      <3>4. CASE h # tx[e]
        <4>1. Busy(h)' = Busy(h)
          BY <1>1, <3>2, <3>4 DEF Busy
        <4>2. UNCHANGED <<forwards, losses>> /\ admissions'[h] = admissions[h]
          BY <1>1, <2>1, <3>1, <3>4 DEF IInv, TypeOK, flowVars
        <4>3. QED
          BY <4>1, <4>2 DEF IInv, Balanced
      <3>5. QED
        BY <3>3, <3>4
    <2>5. QED
      BY <2>2, <2>3, <2>4 DEF IInv
  <1>4. QED
    BY <1>2, <1>3

(* The sweep removes only what has expired. *)
LEMMA SizeStep ==
  ASSUME IInv, NEW e \in Endpoints, CheckSize(e)
  PROVE  IInv'
  <1>1. /\ pc[e] = "size" /\ pc' = [pc EXCEPT ![e] = "send"]
        /\ UNCHANGED <<alive, now, tx, retry_delay, flowVars, admitted, admissions>>
    BY DEF CheckSize, Goto
  <1>2. \A h \in Hashes : cache'[h] = cache[h] \/ (h \in Evicted /\ cache'[h] = Absent)
    BY DEF CheckSize, IInv, TypeOK
  <1>3. cache' \in [Hashes -> 0 .. now \cup {Absent}]
    BY DEF CheckSize, IInv, TypeOK
  <1>4. TypeOK'
    BY <1>1, <1>3 DEF IInv, TypeOK, flowVars
  <1>5. CacheInv'
    <2> SUFFICES ASSUME NEW h \in Hashes
                 PROVE  /\ cache'[h] # Absent => cache'[h] = admitted[h]
                        /\ admitted[h] # Absent =>
                              cache'[h] = admitted[h] \/ now - admitted[h] >= Window
      BY <1>1 DEF CacheInv
    <2>1. h \in Evicted => cache[h] <= now - Window /\ cache[h] # Absent
      BY DEF Evicted, Cached
    <2>2. now \in Int /\ cache[h] \in Int /\ Window \in Int
      BY ScannerAssumption DEF IInv, TypeOK
    <2>3. QED
      BY <1>2, <2>1, <2>2 DEF IInv, CacheInv
  <1>6. pc'[e] = "send"
    BY <1>1 DEF IInv, TypeOK
  <1>7. \A h \in Swaps : Balanced(h)'
    BY <1>1, <1>6, BalanceKept DEF flowVars
  <1>8. QED
    BY <1>4, <1>5, <1>7 DEF IInv

(* A swap on its way is forwarded or lost. *)
LEMMA SendStep ==
  ASSUME IInv, NEW e \in Endpoints, Send(e)
  PROVE  IInv'
  <1>1. /\ pc[e] = "send" /\ pc' = [pc EXCEPT ![e] = "stream"] /\ tx[e] \in Hashes
        /\ UNCHANGED <<alive, now, cache, tx, retry_delay, admitted, admissions>>
    BY DEF Send, Goto, IInv, TypeOK
  <1>2. \/ tx[e] \notin Swaps /\ UNCHANGED flowVars
        \/ /\ tx[e] \in Swaps /\ Len(queue) < QueueSize /\ queue' = Append(queue, tx[e])
           /\ forwards' = [forwards EXCEPT ![tx[e]] = forwards[tx[e]] + 1] /\ losses' = losses
        \/ /\ tx[e] \in Swaps /\ queue' = queue
           /\ losses' = [losses EXCEPT ![tx[e]] = losses[tx[e]] + 1] /\ forwards' = forwards
    BY DEF Send, flowVars
  <1>3. queue' \in Seq(Swaps) /\ Len(queue') <= QueueSize
    <2>1. queue \in Seq(Swaps) /\ Len(queue) <= QueueSize /\ Len(queue) \in Nat /\ QueueSize \in Nat
      BY ScannerAssumption, LenProperties DEF IInv, TypeOK
    <2>2. ASSUME tx[e] \in Swaps, Len(queue) < QueueSize, queue' = Append(queue, tx[e])
          PROVE  queue' \in Seq(Swaps) /\ Len(queue') <= QueueSize
      <3>1. queue' \in Seq(Swaps) /\ Len(queue') = Len(queue) + 1
        BY <2>1, <2>2, AppendProperties
      <3>2. QED
        BY <2>1, <2>2, <3>1
    <2>3. QED
      BY <1>2, <2>1, <2>2 DEF flowVars
  <1>4. forwards' \in [Hashes -> Nat] /\ losses' \in [Hashes -> Nat]
    BY <1>1, <1>2 DEF IInv, TypeOK, flowVars
  <1>5. TypeOK'
    BY <1>1, <1>3, <1>4 DEF IInv, TypeOK
  <1>6. CacheInv'
    BY <1>1 DEF IInv, CacheInv
  <1>7. \A h \in Swaps : Balanced(h)'
    <2> SUFFICES ASSUME NEW h \in Swaps PROVE Balanced(h)'
      OBVIOUS
    <2>1. h \in Hashes
      BY ScannerAssumption
    <2>2. pc'[e] = "stream" /\ \A f \in Endpoints : f # e => pc'[f] = pc[f]
      BY <1>1 DEF IInv, TypeOK
    <2>3. CASE h = tx[e]
      <3>1. e \in Busy(h) /\ Busy(h)' = Busy(h) \ {e}
        BY <1>1, <2>2, <2>3 DEF Busy
      <3>2. Cardinality(Busy(h)') = Cardinality(Busy(h)) - 1
        BY <3>1, BusyShrinks
      <3>3. /\ admissions[h] \in Nat /\ forwards[h] \in Nat /\ losses[h] \in Nat
            /\ Cardinality(Busy(h)) \in Nat
        BY <2>1, BusyFinite DEF IInv, TypeOK
      <3>4. forwards'[h] + losses'[h] = forwards[h] + losses[h] + 1
        BY <1>2, <2>1, <2>3, <3>3 DEF IInv, TypeOK
      <3>5. forwards'[h] \in Nat /\ losses'[h] \in Nat
        BY <1>4, <2>1
      <3>6. QED
        BY <1>1, <3>2, <3>3, <3>4, <3>5 DEF IInv, Balanced
    <2>4. CASE h # tx[e]
      <3>1. Busy(h)' = Busy(h)
        BY <1>1, <2>2, <2>4 DEF Busy
      <3>2. forwards'[h] = forwards[h] /\ losses'[h] = losses[h]
        BY <1>2, <2>1, <2>4 DEF IInv, TypeOK, flowVars
      <3>3. QED
        BY <1>1, <3>1, <3>2 DEF IInv, Balanced
    <2>5. QED
      BY <2>3, <2>4
  <1>8. QED
    BY <1>5, <1>6, <1>7 DEF IInv

-----------------------------------------------------------------------------
LEMMA InitInv ==
  ASSUME Init
  PROVE  IInv
  <1>1. TypeOK
    BY ScannerAssumption, EmptySeq DEF Init, TypeOK
  <1>2. CacheInv
    BY DEF Init, CacheInv
  <1>3. ASSUME NEW h \in Swaps PROVE Balanced(h)
    <2>1. Busy(h) = {}
      BY DEF Init, Busy
    <2>2. h \in Hashes
      BY ScannerAssumption
    <2>3. QED
      BY <2>1, <2>2, FS_EmptySet DEF Init, Balanced
  <1>4. QED
    BY <1>1, <1>2, <1>3 DEF IInv

LEMMA Invariance == Spec => []IInv
  <1>1. IInv /\ [Next]_vars => IInv'
    <2> SUFFICES ASSUME IInv, [Next]_vars PROVE IInv'
      OBVIOUS
    <2>1. CASE Recv
      <3>1. queue' \in Seq(Swaps) /\ Len(queue') <= QueueSize
        <4>1. queue \in Seq(Swaps) /\ queue # <<>> /\ queue' = Tail(queue) /\ Len(queue) <= QueueSize
          BY <2>1 DEF Recv, IInv, TypeOK
        <4>2. /\ queue' \in Seq(Swaps) /\ Len(queue') = Len(queue) - 1
              /\ Len(queue) \in Nat /\ QueueSize \in Nat
          BY <4>1, HeadTailProperties, LenProperties, ScannerAssumption
        <4>3. QED
          BY <4>1, <4>2
      <3>2. UNCHANGED <<alive, now, cache, taskVars, forwards, losses, admitted, admissions>>
        BY <2>1 DEF Recv
      <3>3. TypeOK'
        BY <3>1, <3>2 DEF IInv, TypeOK, taskVars
      <3>4. CacheInv'
        BY <3>2 DEF IInv, CacheInv
      <3>5. QED
        BY <3>2, <3>3, <3>4, BalanceStutters DEF IInv, taskVars
    <2>2. CASE Tick
      <3>1. /\ now' = now + 1 /\ now < MaxNow
            /\ UNCHANGED <<alive, cache, taskVars, flowVars, admitted, admissions>>
        BY <2>2 DEF Tick
      <3>2. /\ now \in Nat /\ now' \in 0 .. MaxNow
            /\ 0 .. now \cup {Absent} \subseteq 0 .. now' \cup {Absent}
        BY <3>1, ScannerAssumption DEF IInv, TypeOK
      <3>3. cache' \in [Hashes -> 0 .. now' \cup {Absent}]
            /\ admitted' \in [Hashes -> 0 .. now' \cup {Absent}]
        BY <3>1, <3>2 DEF IInv, TypeOK
      <3>4. TypeOK'
        BY <3>1, <3>2, <3>3 DEF IInv, TypeOK, taskVars, flowVars
      <3>5. CacheInv'
        <4>1. \A h \in Hashes : admitted[h] \in Int
          BY DEF IInv, TypeOK
        <4>2. QED
          BY <3>1, <3>2, <4>1, ScannerAssumption DEF IInv, CacheInv
      <3>6. QED
        BY <3>1, <3>4, <3>5, BalanceStutters DEF IInv, taskVars, flowVars
    <2>3. CASE Aborted \/ UNCHANGED vars \/ \E e \in Endpoints : SendPanics(e)
      <3>1. alive' \in BOOLEAN /\ UNCHANGED <<now, cache, taskVars, flowVars, admitted, admissions>>
        BY <2>3 DEF vars, Aborted, SendPanics, IInv, TypeOK
      <3>2. TypeOK' /\ CacheInv'
        BY <3>1 DEF IInv, TypeOK, CacheInv, taskVars, flowVars
      <3>3. QED
        BY <3>1, <3>2, BalanceStutters DEF IInv, taskVars, flowVars
    <2>4. QED
      BY <2>1, <2>2, <2>3, LinkStep, CheckStep, SizeStep, SendStep DEF Next, Scan
  <1>2. QED
    BY <1>1, InitInv, PTL DEF Spec

(* Every variable keeps its type. *)
THEOREM TypeCorrect == Spec => []TypeOK
  BY Invariance, PTL DEF IInv

(* check_and_insert admits a hash again only a whole window later, however *)
(* the endpoints interleave and the cache is swept.                        *)
THEOREM RepeatsWait == Spec => NoEarlyRepeat
  <1> DEFINE Waits ==
        \A h \in Hashes :
            admissions'[h] # admissions[h] =>
                admitted[h] = Absent \/ now - admitted[h] >= Window
  <1>1. IInv /\ [Next]_vars => [Waits]_vars
    <2> SUFFICES ASSUME IInv, Next, NEW h \in Hashes, admissions'[h] # admissions[h]
                 PROVE  admitted[h] = Absent \/ now - admitted[h] >= Window
      OBVIOUS
    <2>1. PICK e \in Endpoints : CheckAndInsert(e)
      BY DEF Next, Link, Scan, Connected, ConnectFails, Subscribe, StreamEnds, Wake, Announce,
         CheckSize, Send, SendPanics, Recv, Tick, Aborted, vars
    <2>2. ~IsDuplicate(tx[e])
      BY <2>1 DEF CheckAndInsert
    <2>3. h = tx[e]
      BY <2>1, <2>2 DEF CheckAndInsert, IInv, TypeOK
    <2>4. cache[h] = Absent \/ ~(now - cache[h] < Window)
      BY <2>2, <2>3 DEF IsDuplicate
    <2>5. now \in Int /\ cache[h] \in Int /\ admitted[h] \in Int /\ Window \in Int
      BY ScannerAssumption DEF IInv, TypeOK
    <2>6. QED
      BY <2>4, <2>5 DEF IInv, CacheInv
  <1>2. QED
    BY <1>1, Invariance, PTL DEF Spec, NoEarlyRepeat

(* Every admission of a swap is forwarded once or lost once, unless a task *)
(* is still at it.                                                         *)
THEOREM AdmissionsAreSent == Spec => []OneForwardPerAdmission
  <1>1. IInv => OneForwardPerAdmission
    BY DEF IInv, Balanced, Busy, OneForwardPerAdmission
  <1>2. QED
    BY <1>1, Invariance, PTL

-----------------------------------------------------------------------------
(* Feeds: what the decoder makes of swaps through pairs *)

(* The words of a swap along a path of pairs. *)
Fixed(call) == <<call.amount, call.limit, 160, Other, Other>>
Path(call) == <<Len(call.path)>> \o call.path
Words(call) == Fixed(call) \o Path(call)

(* Where the encoder puts the arguments ... *)
LEMMA WordsPlaced ==
  ASSUME NEW call, call.amount \in Nat, call.limit \in Nat, call.path \in Seq(Nat)
  PROVE  /\ Len(Words(call)) = 6 + Len(call.path)
         /\ Words(call)[1] = call.amount /\ Words(call)[2] = call.limit
         /\ Words(call)[3] = 160 /\ Words(call)[6] = Len(call.path)
         /\ \A n \in 1 .. Len(call.path) : Words(call)[6 + n] = call.path[n]
  <1>1. Len(call.path) \in Nat
    BY LenProperties
  <1>2. /\ Fixed(call) \in Seq(Nat) /\ Len(Fixed(call)) = 5
        /\ Fixed(call)[1] = call.amount /\ Fixed(call)[2] = call.limit /\ Fixed(call)[3] = 160
    BY DEF Fixed, Other
  <1>3. /\ Path(call) \in Seq(Nat) /\ Len(Path(call)) = 1 + Len(call.path)
        /\ Path(call)[1] = Len(call.path)
        /\ \A n \in 1 .. Len(call.path) : Path(call)[1 + n] = call.path[n]
    <2>1. /\ <<Len(call.path)>> \in Seq(Nat) /\ Len(<<Len(call.path)>>) = 1
          /\ <<Len(call.path)>>[1] = Len(call.path)
      BY <1>1
    <2>2. QED
      BY <2>1, <1>1, ConcatProperties DEF Path
  <1>4. /\ Len(Words(call)) = Len(Fixed(call)) + Len(Path(call))
        /\ \A n \in 1 .. Len(Fixed(call)) + Len(Path(call)) :
              Words(call)[n] = IF n <= Len(Fixed(call)) THEN Fixed(call)[n]
                               ELSE Path(call)[n - Len(Fixed(call))]
    <2>1. Fixed(call) \in Seq(Nat) /\ Path(call) \in Seq(Nat)
      BY <1>2, <1>3
    <2>2. /\ Len(Fixed(call) \o Path(call)) = Len(Fixed(call)) + Len(Path(call))
          /\ \A n \in 1 .. Len(Fixed(call)) + Len(Path(call)) :
                (Fixed(call) \o Path(call))[n] = IF n <= Len(Fixed(call)) THEN Fixed(call)[n]
                               ELSE Path(call)[n - Len(Fixed(call))]
      BY <2>1, ConcatProperties, Zenon
    <2>3. QED
      BY <2>2 DEF Words
  <1>5. \A n \in 6 .. 6 + Len(call.path) : Words(call)[n] = Path(call)[n - 5]
    BY <1>1, <1>2, <1>3, <1>4
  <1>6. ASSUME NEW n \in 1 .. Len(call.path) PROVE Words(call)[6 + n] = call.path[n]
    <2>1. 6 + n \in 6 .. 6 + Len(call.path) /\ (6 + n) - 5 = 1 + n
      BY <1>1
    <2>2. Words(call)[6 + n] = Path(call)[1 + n]
      BY <1>5, <2>1
    <2>3. QED
      BY <2>2, <1>3
  <1>7. /\ Words(call)[1] = call.amount /\ Words(call)[2] = call.limit /\ Words(call)[3] = 160
        /\ Words(call)[6] = Len(call.path) /\ Len(Words(call)) = 6 + Len(call.path)
    <2>1. Len(Words(call)) = 6 + Len(call.path)
      BY <1>1, <1>2, <1>3, <1>4
    <2>2. ASSUME NEW n \in 1 .. 5 PROVE Words(call)[n] = Fixed(call)[n]
      <3>1. n \in 1 .. Len(Fixed(call)) + Len(Path(call)) /\ n <= Len(Fixed(call))
        BY <1>1, <1>2, <1>3
      <3>2. QED
        BY <1>4, <3>1
    <2>3. Words(call)[6] = Path(call)[1]
      BY <1>1, <1>5
    <2>4. Words(call)[1] = Fixed(call)[1] /\ Words(call)[2] = Fixed(call)[2]
          /\ Words(call)[3] = Fixed(call)[3]
      <3>1. 1 \in 1 .. 5 /\ 2 \in 1 .. 5 /\ 3 \in 1 .. 5
        OBVIOUS
      <3>2. QED
        BY <2>2, <3>1, Zenon
    <2>5. QED
      BY <1>2, <1>3, <2>1, <2>3, <2>4, Zenon
  <1>8. QED
    BY <1>6, <1>7

(* What fits does not wrap. *)
LEMMA NoWrap ==
  ASSUME NEW n \in Nat, NEW k \in Nat, n < k
  PROVE  n % k = n
  OBVIOUS

(* ... is where the decoder looks for them, byte by byte. *)
LEMMA WordsFound ==
  ASSUME NEW call, call.amount \in Nat, call.limit \in Nat, call.path \in Seq(Nat),
         256 + 32 * Len(call.path) < Usize
  PROVE  /\ Bytes(Words(call)) = 32 * (6 + Len(call.path))
         /\ At(Words(call), 0) = call.amount /\ At(Words(call), 32) = call.limit
         /\ At(Words(call), 64) = 160
         /\ ~PathPanics(Words(call), 64)
         /\ HasPath(Words(call), 64) <=> Len(call.path) >= 2
         /\ Len(call.path) >= 2 =>
               /\ PathFirst(Words(call), 64) = Head(call.path)
               /\ PathLast(Words(call), 64) = Last(call.path)
  <1>1. PICK m \in Nat : m = Len(call.path)
    BY LenProperties
  <1>2. 0 \div 32 + 1 = 1 /\ 32 \div 32 + 1 = 2 /\ 64 \div 32 + 1 = 3 /\ 160 \div 32 + 1 = 6
    OBVIOUS
  <1>3. /\ Bytes(Words(call)) = 32 * (6 + m)
        /\ At(Words(call), 0) = call.amount /\ At(Words(call), 32) = call.limit
        /\ At(Words(call), 64) = 160 /\ At(Words(call), 160) = m
    <2>1. /\ Len(Words(call)) = 6 + m /\ Words(call)[1] = call.amount
          /\ Words(call)[2] = call.limit /\ Words(call)[3] = 160 /\ Words(call)[6] = m
      BY <1>1, WordsPlaced
    <2>2. QED
      BY <1>2, <2>1 DEF At, Bytes
  <1>4. /\ PathEnd(Words(call), 64) = 196 + 32 * m
        /\ Size(Words(call)) = 196 + 32 * m /\ 256 + 32 * m < Usize /\ Usize \in Nat
    <2>1. 256 + 32 * m < Usize /\ Usize \in Nat
      BY <1>1, DecoderAssumption
    <2>2. (160 + 36 + 32 * m) % Usize = 196 + 32 * m
      <3>1. PICK e \in Nat : e = 196 + 32 * m
        OBVIOUS
      <3>2. 160 + 36 + 32 * m = e /\ e < Usize
        BY <2>1, <3>1
      <3>3. e % Usize = e
        BY <2>1, <3>2, NoWrap, Zenon
      <3>4. QED
        BY <3>1, <3>2, <3>3, Zenon
    <2>3. PathEnd(Words(call), 64) = (160 + 36 + 32 * m) % Usize
      BY <1>3, Zenon DEF PathEnd
    <2>4. Size(Words(call)) = 196 + 32 * m
      BY <1>3 DEF Size
    <2>5. QED
      BY <2>1, <2>2, <2>3, <2>4, Zenon
  <1>5. ~PathPanics(Words(call), 64) /\ (HasPath(Words(call), 64) <=> m >= 2)
    <2>1. PICK words : words = Words(call)
      OBVIOUS
    <2>2. /\ At(words, 64) = 160 /\ At(words, 160) = m
          /\ PathEnd(words, 64) = 196 + 32 * m /\ Size(words) = 196 + 32 * m
          /\ 256 + 32 * m < Usize /\ Usize \in Nat
      BY <1>3, <1>4, <2>1
    <2>3. m < Usize /\ 160 + 36 < Usize
      BY <2>2
    <2>4. ~PathPanics(words, 64)
      BY <2>2, <2>3 DEF PathPanics
    <2>5. HasPath(words, 64) <=> m >= 2
      BY <2>2, <2>3 DEF HasPath
    <2>6. QED
      BY <2>1, <2>4, <2>5
  <1>6. (160 + 32) \div 32 + 1 = 6 + 1 /\ (160 + 32 * m) \div 32 + 1 = 6 + m
    OBVIOUS
  <1>7. ASSUME m >= 2
        PROVE  PathFirst(Words(call), 64) = Head(call.path)
               /\ PathLast(Words(call), 64) = Last(call.path)
    <2>1. At(Words(call), 160 + 32) = call.path[1]
      BY <1>1, <1>6, <1>7, WordsPlaced DEF At
    <2>2. At(Words(call), 160 + 32 * m) = call.path[m]
      <3>1. Words(call)[6 + m] = call.path[m]
        <4>1. m \in 1 .. Len(call.path)
          BY <1>1, <1>7
        <4>2. \A n \in 1 .. Len(call.path) : Words(call)[6 + n] = call.path[n]
          BY WordsPlaced
        <4>3. QED
          BY <4>1, <4>2
      <3>2. QED
        BY <1>6, <3>1 DEF At
    <2>3. Max({0, PathEnd(Words(call), 64) - 36}) = 160 + 32 * m
      <3>1. \A k \in Nat : Max({0, k}) = k
        BY DEF Max
      <3>2. PathEnd(Words(call), 64) - 36 = 160 + 32 * m /\ 160 + 32 * m \in Nat
        BY <1>4
      <3>3. QED
        BY <3>1, <3>2
    <2>4. Head(call.path) = call.path[1] /\ Last(call.path) = call.path[m]
      BY <1>1, <1>7 DEF Last
    <2>5. QED
      BY <1>3, <2>1, <2>2, <2>3, <2>4 DEF PathFirst, PathLast, Last20
  <1>8. QED
    BY <1>1, <1>3, <1>5, <1>7

(* The decoder sees the triggers among swaps through pairs, as they are, *)
(* if the amounts fit.                                                   *)
LEMMA TriggersSeen ==
  ASSUME NEW call \in Calls,
         call.selector \in {"swapExactTokensForTokens", "swapExactTokensForETH"},
         SizeIn18(call) \in 0 .. U128 - 1
  PROVE  /\ decode(Encode(call)) # Panic
         /\ decode(Encode(call)).is_actionable <=> Triggers(call)
         /\ Triggers(call) =>
               decode(Encode(call)) =
                    [token_in |-> Head(call.path), token_out |-> Last(call.path),
                     amount_in |-> call.amount, min_amount_out |-> call.limit,
                     is_actionable |-> TRUE]
  <1>1. call.amount \in Nat /\ call.limit \in Nat /\ call.path \in Seq(Nat)
    BY FeedsAssumption
  <1>2. Encode(call) = [selector |-> call.selector, words |-> Words(call)]
    BY DEF Encode, Words, Fixed, Path
  <1>3. decode(Encode(call)) = decode_v2_swap(Words(call))
    BY <1>2 DEF decode
  <1>4. Len(call.path) \in Nat /\ 256 + 32 * Len(call.path) < Usize
    BY <1>1, LenProperties, FeedsAssumption
  <1>5. CASE Len(call.path) < 2
    <2>1. decode(Encode(call)) = NoOpportunity
      BY <1>1, <1>3, <1>4, <1>5, WordsFound DEF decode_v2_swap
    <2>2. ~(Len(call.path) >= 2)
      BY <1>4, <1>5
    <2>3. ~Triggers(call)
      BY <2>2, Zenon DEF Triggers
    <2>4. NoOpportunity # Panic /\ ~NoOpportunity.is_actionable
      BY DEF NoOpportunity, Panic
    <2>5. QED
      BY <2>1, <2>3, <2>4, Zenon
  <1>6. CASE Len(call.path) >= 2
    <2> DEFINE size == SizeIn18(call)
    <2>0. /\ size \in Nat /\ size < U128
          /\ normalize_to_18(call.amount, decimals_of(Head(call.path))) = size
      <3>1. size \in Nat /\ size < U128 /\ U128 <= U256 /\ U128 \in Nat /\ U256 \in Nat
        BY DecoderAssumption
      <3>2. size < U256
        BY <3>1
      <3>3. size % U256 = size
        BY <3>1, <3>2, NoWrap, Zenon
      <3>4. QED
        BY <3>1, <3>3 DEF normalize_to_18, SizeIn18
    <2>1. decode(Encode(call)) =
             build_opportunity(Head(call.path), Last(call.path), call.amount, call.limit)
      <3>1. PICK words : words = Words(call)
        OBVIOUS
      <3>2. /\ Bytes(words) = 32 * (6 + Len(call.path)) /\ At(words, 0) = call.amount
            /\ At(words, 32) = call.limit /\ At(words, 64) = 160
            /\ ~PathPanics(words, 64) /\ HasPath(words, 64)
            /\ PathFirst(words, 64) = Head(call.path) /\ PathLast(words, 64) = Last(call.path)
        BY <1>1, <1>4, <1>6, <3>1, WordsFound
      <3>3. /\ ~(Bytes(words) < 5 * 32)
            /\ ~(HasPath(words, 64) /\ Size(words) < At(words, 64) + 68)
        BY <1>4, <1>6, <3>2 DEF Size
      <3>4. QED
        BY <1>3, <3>1, <3>2, <3>3 DEF decode_v2_swap
    <2>2. CASE call.amount = 0 /\ call.limit = 0
      <3>1. size = 0
        <4>1. Digits - decimals_of(Head(call.path)) \in Int
          BY DecoderAssumption DEF decimals_of
        <4>2. \A amount, n \in Int : amount = 0 => amount * 10 ^ n = 0
          OBVIOUS
        <4>3. QED
          BY <1>1, <2>2, <4>1, <4>2 DEF SizeIn18
      <3>2. ~Triggers(call)
        BY <3>1, DecoderAssumption DEF Triggers
      <3>3. QED
        BY <2>1, <2>2, <3>2 DEF build_opportunity, NoOpportunity, Panic
    <2>3. CASE ~(call.amount = 0 /\ call.limit = 0)
      <3> DEFINE triggers == size >= Whale \/ (call.limit = 0 /\ size >= Dust)
      <3>1. decode(Encode(call)) =
                [token_in |-> Head(call.path), token_out |-> Last(call.path),
                 amount_in |-> call.amount, min_amount_out |-> call.limit,
                 is_actionable |-> triggers]
        <4>1. ~(size >= U128)
          BY <2>0, DecoderAssumption
        <4>2. QED
          BY <2>0, <2>1, <2>3, <4>1 DEF build_opportunity
      <3>2. Triggers(call) <=> triggers
        BY <1>6 DEF Triggers
      <3> HIDE DEF triggers
      <3>3. CASE triggers
        <4>1. triggers = TRUE
          BY <3>3
        <4>2. QED
          BY <3>1, <3>2, <4>1 DEF Panic
      <3>4. CASE ~triggers
        <4>1. triggers = FALSE
          BY <3>4
        <4>2. QED
          BY <3>1, <3>2, <4>1 DEF Panic
      <3>5. QED
        BY <3>3, <3>4
    <2>4. QED
      BY <2>2, <2>3
  <1>7. QED
    BY <1>4, <1>5, <1>6

-----------------------------------------------------------------------------
(* Hints in sequences. *)
(* Each of A lies below each of B. *)
Below(A, B) == \A a \in A, b \in B : a < b

(* What the hints of a sequence are. *)
LEMMA HintsOf ==
  ASSUME NEW s \in Seq(Nat)
  PROVE  /\ Len(s) \in Nat /\ DOMAIN s = 1 .. Len(s)
         /\ \A h : h \in Hints(s) <=> \E n \in 1 .. Len(s) : s[n] = h /\ h # 0
         /\ Hints(s) \subseteq Nat
  BY LenProperties, ElementOfSeq DEF Hints, Range

(* The hints of two sequences one after the other. *)
LEMMA ConcatHints ==
  ASSUME NEW s \in Seq(Nat), NEW t \in Seq(Nat)
  PROVE  /\ s \o t \in Seq(Nat)
         /\ Hints(s \o t) = Hints(s) \cup Hints(t)
         /\ Rises(s \o t) <=> Rises(s) /\ Rises(t) /\ Below(Hints(s), Hints(t))
  <1> DEFINE c == s \o t
  <1>1. /\ c \in Seq(Nat) /\ Len(c) = Len(s) + Len(t)
        /\ \A n \in 1 .. Len(s) + Len(t) : c[n] = IF n <= Len(s) THEN s[n] ELSE t[n - Len(s)]
    BY ConcatProperties, Zenon
  <1> HIDE DEF c
  <1>2. PICK m \in Nat, k \in Nat : m = Len(s) /\ k = Len(t)
    BY HintsOf
  <1>3. DOMAIN s = 1 .. m /\ DOMAIN t = 1 .. k /\ DOMAIN c = 1 .. m + k
    BY <1>1, <1>2, HintsOf
  <1>4. (\A n \in 1 .. m : c[n] = s[n]) /\ \A n \in 1 .. k : c[m + n] = t[n]
    <2>1. \A n \in 1 .. m + k : c[n] = IF n <= m THEN s[n] ELSE t[n - m]
      BY <1>1, <1>2
    <2>2. ASSUME NEW n \in 1 .. k PROVE c[m + n] = t[n]
      <3>1. m + n \in 1 .. m + k /\ ~(m + n <= m) /\ (m + n) - m = n
        OBVIOUS
      <3>2. c[m + n] = t[(m + n) - m]
        BY <2>1, <3>1
      <3>3. QED
        BY <3>1, <3>2
    <2>3. ASSUME NEW n \in 1 .. m PROVE c[n] = s[n]
      BY <2>1
    <2>4. QED
      BY <2>2, <2>3
  <1>5. \A n \in 1 .. m + k : n \in 1 .. m \/ (n - m \in 1 .. k /\ n = m + (n - m))
    OBVIOUS
  <1>6. Hints(c) = Hints(s) \cup Hints(t)
    <2>1. ASSUME NEW h \in Hints(c) PROVE h \in Hints(s) \cup Hints(t)
      <3>1. PICK n \in 1 .. m + k : c[n] = h /\ h # 0
        BY <1>3, <2>1 DEF Hints, Range
      <3>2. QED
        BY <1>3, <1>4, <1>5, <3>1 DEF Hints, Range
    <2>2. ASSUME NEW h \in Hints(s) PROVE h \in Hints(c)
      BY <1>3, <1>4, <2>2 DEF Hints, Range
    <2>3. ASSUME NEW h \in Hints(t) PROVE h \in Hints(c)
      <3>1. PICK n \in 1 .. k : t[n] = h /\ h # 0
        BY <1>3, <2>3 DEF Hints, Range
      <3>2. m + n \in 1 .. m + k /\ c[m + n] = h
        BY <1>4, <3>1
      <3>3. QED
        BY <1>3, <3>1, <3>2 DEF Hints, Range
    <2>4. QED
      BY <2>1, <2>2, <2>3
  <1>7. ASSUME Rises(c) PROVE Rises(s) /\ Rises(t) /\ Below(Hints(s), Hints(t))
    <2>1. Rises(s)
      BY <1>3, <1>4, <1>7 DEF Rises
    <2>2. ASSUME NEW i \in 1 .. k, NEW j \in 1 .. k, i < j, t[i] # 0, t[j] # 0 PROVE t[i] < t[j]
      <3>1. m + i \in 1 .. m + k /\ m + j \in 1 .. m + k /\ m + i < m + j
        BY <2>2
      <3>2. QED
        BY <1>3, <1>4, <1>7, <2>2, <3>1 DEF Rises
    <2>3. ASSUME NEW a \in Hints(s), NEW b \in Hints(t) PROVE a < b
      <3>1. PICK i \in 1 .. m : s[i] = a /\ a # 0
        BY <1>3, <2>3 DEF Hints, Range
      <3>2. PICK j \in 1 .. k : t[j] = b /\ b # 0
        BY <1>3, <2>3 DEF Hints, Range
      <3>3. i \in 1 .. m + k /\ m + j \in 1 .. m + k /\ i < m + j /\ c[i] = a /\ c[m + j] = b
        BY <1>4, <3>1, <3>2
      <3>4. QED
        BY <1>3, <1>7, <3>1, <3>2, <3>3 DEF Rises
    <2>4. QED
      BY <1>3, <2>1, <2>2, <2>3 DEF Rises, Below
  <1>8. ASSUME Rises(s), Rises(t), Below(Hints(s), Hints(t)) PROVE Rises(c)
    <2> SUFFICES ASSUME NEW i \in 1 .. m + k, NEW j \in 1 .. m + k, i < j, c[i] # 0, c[j] # 0
                 PROVE  c[i] < c[j]
      BY <1>3 DEF Rises
    <2>1. CASE j \in 1 .. m
      <3>1. i \in 1 .. m /\ c[i] = s[i] /\ c[j] = s[j]
        BY <1>4, <2>1
      <3>2. QED
        BY <1>3, <1>8, <2>1, <3>1 DEF Rises
    <2>2. CASE i \notin 1 .. m
      <3>1. i - m \in 1 .. k /\ j - m \in 1 .. k /\ i - m < j - m
        BY <2>2
      <3>2. c[i] = t[i - m] /\ c[j] = t[j - m]
        BY <1>4, <1>5, <3>1
      <3>3. QED
        BY <1>3, <1>8, <3>1, <3>2 DEF Rises
    <2>3. CASE i \in 1 .. m /\ j \notin 1 .. m
      <3>1. j - m \in 1 .. k /\ c[j] = t[j - m] /\ c[i] = s[i]
        BY <1>4, <1>5, <2>3
      <3>2. c[i] \in Hints(s) /\ c[j] \in Hints(t)
        BY <1>3, <2>3, <3>1 DEF Hints, Range
      <3>3. QED
        BY <1>8, <3>2 DEF Below
    <2>4. QED
      BY <2>1, <2>2, <2>3
  <1>9. QED
    BY <1>1, <1>6, <1>7, <1>8 DEF c

(* A sequence of one, longer by one at the end, without its first, of none. *)
LEMMA OneHint ==
  ASSUME NEW h \in Nat
  PROVE  <<h>> \in Seq(Nat) /\ Rises(<<h>>) /\ Hints(<<h>>) = {h} \ {0}
  <1>1. Len(<<h>>) = 1 /\ DOMAIN <<h>> = 1 .. 1 /\ <<h>>[1] = h
    OBVIOUS
  <1>2. Range(<<h>>) = {h}
    BY <1>1 DEF Range
  <1>3. QED
    BY <1>1, <1>2 DEF Rises, Hints

LEMMA AppendHints ==
  ASSUME NEW s \in Seq(Nat), NEW h \in Nat
  PROVE  /\ Append(s, h) \in Seq(Nat)
         /\ Hints(Append(s, h)) = Hints(s) \cup ({h} \ {0})
         /\ Rises(Append(s, h)) <=> Rises(s) /\ Below(Hints(s), {h} \ {0})
  <1>1. Append(s, h) = s \o <<h>>
    BY AppendIsConcat
  <1>2. <<h>> \in Seq(Nat) /\ Rises(<<h>>) /\ Hints(<<h>>) = {h} \ {0}
    BY OneHint
  <1>3. /\ s \o <<h>> \in Seq(Nat)
        /\ Hints(s \o <<h>>) = Hints(s) \cup Hints(<<h>>)
        /\ Rises(s \o <<h>>) <=> Rises(s) /\ Rises(<<h>>) /\ Below(Hints(s), Hints(<<h>>))
    BY <1>2, ConcatHints
  <1>4. QED
    BY <1>1, <1>2, <1>3

LEMMA TailHints ==
  ASSUME NEW s \in Seq(Nat), s # <<>>
  PROVE  /\ Head(s) \in Nat /\ Tail(s) \in Seq(Nat)
         /\ Hints(s) = ({Head(s)} \ {0}) \cup Hints(Tail(s))
         /\ Rises(s) <=> Rises(Tail(s)) /\ Below({Head(s)} \ {0}, Hints(Tail(s)))
  <1>1. Head(s) \in Nat /\ Tail(s) \in Seq(Nat)
    BY HeadTailProperties
  <1>2. s = <<Head(s)>> \o Tail(s)
    OBVIOUS
  <1>3. <<Head(s)>> \in Seq(Nat) /\ Rises(<<Head(s)>>) /\ Hints(<<Head(s)>>) = {Head(s)} \ {0}
    BY <1>1, OneHint
  <1>4. /\ Hints(<<Head(s)>> \o Tail(s)) = Hints(<<Head(s)>>) \cup Hints(Tail(s))
        /\ Rises(<<Head(s)>> \o Tail(s)) <=>
              /\ Rises(<<Head(s)>>) /\ Rises(Tail(s))
              /\ Below(Hints(<<Head(s)>>), Hints(Tail(s)))
    BY <1>1, <1>3, ConcatHints
  <1>5. QED
    BY <1>1, <1>2, <1>3, <1>4

LEMMA NoHints == <<>> \in Seq(Nat) /\ Rises(<<>>) /\ Hints(<<>>) = {}
  BY DEF Rises, Hints, Range

-----------------------------------------------------------------------------
(* Feeds: types *)

(* The units of the text so far; what the channel can hold. *)
Unit == [event : 1 .. sent, piece : 1 .. 4]
Opportunity == [hint : Actionable] \cup {decode(Encode(call)) : call \in Calls}

(* The types, with the names that the proofs use. *)
LEMMA FeedsTypes ==
  ASSUME FeedsTypeOK
  PROVE  /\ wire \in Seq(Unit) /\ buffer \in Seq(Unit)
         /\ opportunities \in Seq(Opportunity)
  BY DEF FeedsTypeOK, Unit, Opportunity

(* A sequence in two parts. *)
LEMMA Cut ==
  ASSUME NEW S, NEW s \in Seq(S), NEW m \in 0 .. Len(s)
  PROVE  /\ SubSeq(s, 1, m) \in Seq(S) /\ Len(SubSeq(s, 1, m)) = m
         /\ SubSeq(s, m + 1, Len(s)) \in Seq(S) /\ Len(SubSeq(s, m + 1, Len(s))) = Len(s) - m
         /\ \A i \in 1 .. m : SubSeq(s, 1, m)[i] = s[i]
         /\ \A i \in 1 .. Len(s) - m : SubSeq(s, m + 1, Len(s))[i] = s[m + i]
  <1>1. Len(s) \in Nat /\ m \in Nat /\ \A i \in 1 .. Len(s) : s[i] \in S
    BY LenProperties, ElementOfSeq
  <1>2. /\ SubSeq(s, 1, m) \in Seq(S) /\ Len(SubSeq(s, 1, m)) = m
        /\ \A i \in 1 .. m : SubSeq(s, 1, m)[i] = s[i]
    <2>1. /\ SubSeq(s, 1, m) \in Seq(S)
          /\ Len(SubSeq(s, 1, m)) = IF 1 <= m THEN m - 1 + 1 ELSE 0
          /\ \A i \in 1 .. m - 1 + 1 : SubSeq(s, 1, m)[i] = s[1 + i - 1]
      BY <1>1, SubSeqProperties
    <2>2. QED
      BY <1>1, <2>1
  <1>3. /\ SubSeq(s, m + 1, Len(s)) \in Seq(S) /\ Len(SubSeq(s, m + 1, Len(s))) = Len(s) - m
        /\ \A i \in 1 .. Len(s) - m : SubSeq(s, m + 1, Len(s))[i] = s[m + i]
    <2>1. /\ SubSeq(s, m + 1, Len(s)) \in Seq(S)
          /\ Len(SubSeq(s, m + 1, Len(s))) = IF m + 1 <= Len(s) THEN Len(s) - (m + 1) + 1 ELSE 0
          /\ \A i \in 1 .. Len(s) - (m + 1) + 1 :
                SubSeq(s, m + 1, Len(s))[i] = s[(m + 1) + i - 1]
      BY <1>1, SubSeqProperties
    <2>2. \A i \in 1 .. Len(s) - m : (m + 1) + i - 1 = m + i
      BY <1>1
    <2>3. QED
      BY <1>1, <2>1, <2>2
  <1>4. QED
    BY <1>2, <1>3

(* At most one hint is made of a text, and it is actionable. *)
LEMMA HintFacts ==
  ASSUME NEW text
  PROVE  \/ Hint(text) = <<>>
         \/ text[1].event \in Actionable /\ Hint(text) = <<text[1].event>>
  BY DEF Hint

-----------------------------------------------------------------------------
(* Feeds: the hints of the pipeline, stage by stage *)

(* The hint of an opportunity, 0 if it is none; those of the channel. *)
HintIn(opportunity) == IF IsHint(opportunity) THEN opportunity.hint ELSE 0
QueuedOf(s) == [n \in DOMAIN s |-> HintIn(s[n])]

(* Hints rise in each of five stages and from each to the next. *)
Flows(a, b, c, d, e, kept) ==
    /\ Rises(a) /\ Rises(b) /\ Rises(c) /\ Rises(d) /\ Rises(e)
    /\ Below(Hints(a), Hints(b))
    /\ Below(Hints(a) \cup Hints(b), Hints(c))
    /\ Below(Hints(a) \cup Hints(b) \cup Hints(c), Hints(d))
    /\ Below(Hints(a) \cup Hints(b) \cup Hints(c) \cup Hints(d), Hints(e))
    /\ Hints(a) \cup Hints(b) \cup Hints(c) \cup Hints(d) \cup Hints(e) = kept

(* Hints rise along the line when they do in each stage and between any two. *)
LEMMA FiveStages ==
  ASSUME NEW a \in Seq(Nat), NEW b \in Seq(Nat), NEW c \in Seq(Nat), NEW d \in Seq(Nat),
         NEW e \in Seq(Nat), NEW kept
  PROVE  Rises(a \o b \o c \o d \o e) /\ Hints(a \o b \o c \o d \o e) = kept
            <=> Flows(a, b, c, d, e, kept)
  <1>1. /\ a \o b \in Seq(Nat) /\ Hints(a \o b) = Hints(a) \cup Hints(b)
        /\ Rises(a \o b) <=> Rises(a) /\ Rises(b) /\ Below(Hints(a), Hints(b))
    BY ConcatHints
  <1>2. /\ a \o b \o c \in Seq(Nat) /\ Hints(a \o b \o c) = Hints(a \o b) \cup Hints(c)
        /\ Rises(a \o b \o c) <=> Rises(a \o b) /\ Rises(c) /\ Below(Hints(a \o b), Hints(c))
    BY <1>1, ConcatHints
  <1>3. /\ a \o b \o c \o d \in Seq(Nat)
        /\ Hints(a \o b \o c \o d) = Hints(a \o b \o c) \cup Hints(d)
        /\ Rises(a \o b \o c \o d) <=>
              Rises(a \o b \o c) /\ Rises(d) /\ Below(Hints(a \o b \o c), Hints(d))
    BY <1>2, ConcatHints
  <1>4. /\ Hints(a \o b \o c \o d \o e) = Hints(a \o b \o c \o d) \cup Hints(e)
        /\ Rises(a \o b \o c \o d \o e) <=>
              Rises(a \o b \o c \o d) /\ Rises(e) /\ Below(Hints(a \o b \o c \o d), Hints(e))
    BY <1>3, ConcatHints
  <1>5. QED
    BY <1>1, <1>2, <1>3, <1>4 DEF Flows

(* What the decoder makes of a call is not a hint. *)
LEMMA DecodedIsNoHint ==
  ASSUME NEW call
  PROVE  ~IsHint(decode(Encode(call)))
  <1>1. ~IsHint(NoOpportunity) /\ ~IsHint(Panic)
    BY DEF IsHint, NoOpportunity, Panic
  <1>2. \A in, out, amount, min : ~IsHint(build_opportunity(in, out, amount, min))
    BY <1>1 DEF IsHint, build_opportunity
  <1>3. \A w : /\ ~IsHint(decode_v2_swap(w)) /\ ~IsHint(decode_v2_eth_in(w))
               /\ ~IsHint(decode_v3_exact_input_single(w)) /\ ~IsHint(decode_v3_exact_input(w))
               /\ ~IsHint(decode_universal(w))
    BY <1>1, <1>2 DEF decode_v2_swap, decode_v2_eth_in, decode_v3_exact_input_single,
       decode_v3_exact_input, decode_universal
  <1>4. QED
    BY <1>1, <1>3 DEF decode

(* The hint of what is in the channel. *)
LEMMA HintInFacts ==
  ASSUME NEW o \in Opportunity
  PROVE  HintIn(o) \in Nat /\ (IsHint(o) => HintIn(o) = o.hint /\ o.hint \in Actionable)
         /\ (~IsHint(o) => HintIn(o) = 0)
  <1>1. Actionable \subseteq Nat
    BY FeedsAssumption
  <1>2. CASE o \in [hint : Actionable]
    BY <1>1, <1>2 DEF IsHint, HintIn
  <1>3. CASE o \notin [hint : Actionable]
    BY <1>3, DecodedIsNoHint DEF Opportunity, HintIn
  <1>4. QED
    BY <1>2, <1>3

(* The hints of the channel, place by place. *)
LEMMA QueuedFacts ==
  ASSUME NEW s \in Seq(Opportunity)
  PROVE  /\ QueuedOf(s) \in Seq(Nat)
         /\ Len(QueuedOf(s)) = Len(s) /\ DOMAIN s = 1 .. Len(s) /\ Len(s) \in Nat
         /\ \A n \in 1 .. Len(s) : s[n] \in Opportunity /\ QueuedOf(s)[n] = HintIn(s[n])
  <1>1. Len(s) \in Nat /\ DOMAIN s = 1 .. Len(s) /\ \A n \in 1 .. Len(s) : s[n] \in Opportunity
    BY LenProperties, ElementOfSeq
  <1>2. QueuedOf(s) = [n \in 1 .. Len(s) |-> HintIn(s[n])]
    BY <1>1 DEF QueuedOf
  <1>3. \A n \in 1 .. Len(s) : HintIn(s[n]) \in Nat
    BY <1>1, HintInFacts
  <1>4. QED
    BY <1>1, <1>2, <1>3

(* The channel gains a hint at its end, and loses one at its front. *)
LEMMA QueuedAppends ==
  ASSUME NEW s \in Seq(Opportunity), NEW o \in Opportunity
  PROVE  QueuedOf(Append(s, o)) = Append(QueuedOf(s), HintIn(o))
  <1> DEFINE q == QueuedOf(Append(s, o))
             p == Append(QueuedOf(s), HintIn(o))
  <1>1. /\ Append(s, o) \in Seq(Opportunity) /\ Len(Append(s, o)) = Len(s) + 1
        /\ \A i \in 1 .. Len(s) : Append(s, o)[i] = s[i]
        /\ Append(s, o)[Len(s) + 1] = o
    BY AppendProperties
  <1>2. /\ QueuedOf(s) \in Seq(Nat) /\ Len(QueuedOf(s)) = Len(s) /\ Len(s) \in Nat
        /\ \A n \in 1 .. Len(s) : QueuedOf(s)[n] = HintIn(s[n])
    BY QueuedFacts
  <1>3. /\ q \in Seq(Nat) /\ Len(q) = Len(s) + 1
        /\ \A n \in 1 .. Len(s) + 1 : q[n] = HintIn(Append(s, o)[n])
    BY <1>1, QueuedFacts
  <1>4. HintIn(o) \in Nat
    BY HintInFacts
  <1>5. /\ p \in Seq(Nat) /\ Len(p) = Len(s) + 1
        /\ \A i \in 1 .. Len(s) : p[i] = QueuedOf(s)[i]
        /\ p[Len(s) + 1] = HintIn(o)
    BY <1>2, <1>4, AppendProperties
  <1>6. \A n \in 1 .. Len(q) : q[n] = p[n]
    BY <1>1, <1>2, <1>3, <1>5
  <1> HIDE DEF q, p
  <1>7. q = p
    BY <1>3, <1>5, <1>6, SeqEqual
  <1>8. QED
    BY <1>7 DEF q, p

LEMMA QueuedFollows ==
  ASSUME NEW s \in Seq(Opportunity), s # <<>>
  PROVE  /\ Head(s) \in Opportunity /\ Tail(s) \in Seq(Opportunity) /\ QueuedOf(s) # <<>>
         /\ Head(QueuedOf(s)) = HintIn(Head(s)) /\ Tail(QueuedOf(s)) = QueuedOf(Tail(s))
  <1> DEFINE q == QueuedOf(Tail(s))
             p == Tail(QueuedOf(s))
  <1>1. /\ QueuedOf(s) \in Seq(Nat) /\ Len(QueuedOf(s)) = Len(s) /\ Len(s) \in Nat
        /\ \A n \in 1 .. Len(s) : QueuedOf(s)[n] = HintIn(s[n])
    BY QueuedFacts
  <1>2. /\ Head(s) \in Opportunity /\ Tail(s) \in Seq(Opportunity) /\ Len(Tail(s)) = Len(s) - 1
        /\ \A i \in 1 .. Len(s) - 1 : Tail(s)[i] = s[i + 1]
    BY HeadTailProperties
  <1>3. Len(s) > 0 /\ QueuedOf(s) # <<>> /\ Head(s) = s[1]
    BY <1>1, EmptySeq
  <1>4. Head(QueuedOf(s)) = QueuedOf(s)[1]
    BY <1>1, <1>3, SMTT(30)
  <1>5. /\ q \in Seq(Nat) /\ Len(q) = Len(s) - 1
        /\ \A n \in 1 .. Len(s) - 1 : q[n] = HintIn(Tail(s)[n])
    BY <1>2, QueuedFacts, ZenonT(30)
  <1>6. /\ p \in Seq(Nat) /\ Len(p) = Len(s) - 1
        /\ \A n \in 1 .. Len(s) - 1 : p[n] = QueuedOf(s)[n + 1]
    BY <1>1, <1>3, HeadTailProperties
  <1>7. \A n \in 1 .. Len(q) : q[n] = p[n]
    BY <1>1, <1>2, <1>5, <1>6
  <1> HIDE DEF q, p
  <1>8. q = p
    BY <1>5, <1>6, <1>7, SeqEqual
  <1>9. QED
    BY <1>1, <1>2, <1>3, <1>4, <1>8 DEF q, p

-----------------------------------------------------------------------------
(* Feeds: the text of the stream, which the buffer and the wire share *)

(* Any unit; the hint whose text it ends, or 0; those of a buffer. *)
Units == [event : Nat, piece : 1 .. 4]
EndIn(unit) == IF unit.piece = 4 /\ unit.event \in Actionable THEN unit.event ELSE 0
EndsOf(b) == [n \in DOMAIN b |-> EndIn(b[n])]

(* The n-th unit of a text that begins after the event first. *)
UnitAt(first, n) == [event |-> first + ((n - 1) \div 4) + 1, piece |-> ((n - 1) % 4) + 1]
First(b, w, last) == last - ((Len(b) + Len(w)) \div 4)

(* A buffer and a wire hold whole events, up to the last one. *)
Aligned(b, w, last) ==
    /\ (Len(b) + Len(w)) % 4 = 0
    /\ \A n \in 1 .. Len(b) : b[n] = UnitAt(First(b, w, last), n)
    /\ \A n \in 1 .. Len(w) : w[n] = UnitAt(First(b, w, last), Len(b) + n)

(* The events whose last unit is among the next m of a wire. *)
Completed(w, m) == {unit.event : unit \in {u \in Range(SubSeq(w, 1, m)) : u.piece = 4}}

(* Division by 4. *)
LEMMA Fours ==
  ASSUME NEW n \in Int
  PROVE  n \div 4 \in Int /\ n % 4 \in 0 .. 3 /\ n = (4 * (n \div 4)) + (n % 4)
  OBVIOUS

(* The fields of a unit. *)
LEMMA UnitFacts ==
  ASSUME NEW first \in Int, NEW n \in Int
  PROVE  /\ UnitAt(first, n).event = first + ((n - 1) \div 4) + 1
         /\ UnitAt(first, n).piece = ((n - 1) % 4) + 1
         /\ UnitAt(first, n).piece = 4 <=> (n - 1) % 4 = 3
  <1>1. (n - 1) % 4 \in Int
    BY Fours
  <1>2. QED
    BY <1>1 DEF UnitAt

(* The hints of a buffer are those of the events it has the ends of. *)
LEMMA EndsFacts ==
  ASSUME NEW b \in Seq(Units)
  PROVE  /\ EndsOf(b) \in Seq(Nat) /\ Len(b) \in Nat /\ DOMAIN b = 1 .. Len(b)
         /\ \A n \in 1 .. Len(b) : b[n].event \in Nat /\ b[n].piece \in 1 .. 4
         /\ DOMAIN EndsOf(b) = 1 .. Len(b) /\ \A n \in 1 .. Len(b) : EndsOf(b)[n] = EndIn(b[n])
         /\ \A h : h \in Hints(EndsOf(b)) <=>
               h \in Actionable /\ \E n \in 1 .. Len(b) : b[n].piece = 4 /\ b[n].event = h
  <1>1. /\ Len(b) \in Nat /\ DOMAIN b = 1 .. Len(b)
        /\ \A n \in 1 .. Len(b) : b[n] \in Units
    BY LenProperties, ElementOfSeq
  <1>2. \A n \in 1 .. Len(b) : b[n].event \in Nat /\ b[n].piece \in 1 .. 4
    BY <1>1 DEF Units
  <1>3. /\ EndsOf(b) = [n \in 1 .. Len(b) |-> EndIn(b[n])]
        /\ \A n \in 1 .. Len(b) : EndIn(b[n]) \in Nat
    BY <1>1, <1>2 DEF EndsOf, EndIn
  <1>4. Actionable \subseteq Nat \ {0}
    BY FeedsAssumption
  <1>5. ASSUME NEW h
        PROVE  h \in Hints(EndsOf(b)) <=>
                  h \in Actionable /\ \E n \in 1 .. Len(b) : b[n].piece = 4 /\ b[n].event = h
    <2>1. h \in Hints(EndsOf(b)) <=> h # 0 /\ \E n \in 1 .. Len(b) : EndIn(b[n]) = h
      BY <1>3 DEF Hints, Range
    <2>2. QED
      BY <1>4, <2>1 DEF EndIn
  <1>6. QED
    BY <1>1, <1>2, <1>3, <1>5

(* Events end in the order they were sent. *)
LEMMA EndsRise ==
  ASSUME NEW b \in Seq(Units), NEW w \in Seq(Units), NEW last \in Nat, Aligned(b, w, last)
  PROVE  Rises(EndsOf(b))
  <1>1. Len(b) \in Nat /\ Len(w) \in Nat
    BY EndsFacts
  <1>2. PICK first \in Int : first = First(b, w, last)
    BY <1>1 DEF First
  <1>3. \A n \in 1 .. Len(b) : b[n] = UnitAt(first, n)
    BY <1>2 DEF Aligned
  <1> SUFFICES ASSUME NEW i \in 1 .. Len(b), NEW j \in 1 .. Len(b), i < j,
                      EndIn(b[i]) # 0, EndIn(b[j]) # 0
               PROVE  EndIn(b[i]) < EndIn(b[j])
    <2>1. DOMAIN EndsOf(b) = 1 .. Len(b) /\ \A n \in 1 .. Len(b) : EndsOf(b)[n] = EndIn(b[n])
      BY EndsFacts
    <2>2. QED
      BY <2>1 DEF Rises
  <1>4. b[i].piece = 4 /\ b[j].piece = 4 /\ EndIn(b[i]) = b[i].event /\ EndIn(b[j]) = b[j].event
    BY DEF EndIn
  <1>5. /\ (i - 1) % 4 = 3 /\ (j - 1) % 4 = 3
        /\ b[i].event = first + ((i - 1) \div 4) + 1 /\ b[j].event = first + ((j - 1) \div 4) + 1
    <2>1. i \in Int /\ j \in Int /\ b[i] = UnitAt(first, i) /\ b[j] = UnitAt(first, j)
      BY <1>1, <1>3
    <2>2. QED
      BY <1>4, <2>1, UnitFacts
  <1>6. (i - 1) \div 4 < (j - 1) \div 4
    <2>1. i - 1 \in Int /\ j - 1 \in Int /\ i - 1 < j - 1
      BY <1>1
    <2>2. i - 1 = (4 * ((i - 1) \div 4)) + 3 /\ j - 1 = (4 * ((j - 1) \div 4)) + 3
      BY <1>5, <2>1, Fours
    <2>3. (i - 1) \div 4 \in Int /\ (j - 1) \div 4 \in Int
      BY <2>1, Fours
    <2>4. QED
      BY <2>1, <2>2, <2>3
  <1>7. QED
    BY <1>2, <1>4, <1>5, <1>6

(* A chunk moves from the wire to the buffer. *)
LEMMA ChunkRead ==
  ASSUME NEW b \in Seq(Units), NEW w \in Seq(Units), NEW last \in Nat, Aligned(b, w, last),
         NEW m \in 1 .. Len(w)
  PROVE  /\ b \o SubSeq(w, 1, m) \in Seq(Units) /\ SubSeq(w, m + 1, Len(w)) \in Seq(Units)
         /\ Aligned(b \o SubSeq(w, 1, m), SubSeq(w, m + 1, Len(w)), last)
         /\ Hints(EndsOf(b \o SubSeq(w, 1, m))) =
               Hints(EndsOf(b)) \cup (Completed(w, m) \cap Actionable)
         /\ Len(SubSeq(w, m + 1, Len(w))) = Len(w) - m
         /\ \A e \in Completed(w, m) :
               /\ e \in Int
               /\ last - ((Len(w) + 3) \div 4) < e /\ e <= last - ((Len(w) - m + 3) \div 4)
               /\ \E n \in 1 .. Len(w) : e = w[n].event
  <1> DEFINE c == SubSeq(w, 1, m)
             x == b \o c
             y == SubSeq(w, m + 1, Len(w))
  <1>1. Len(b) \in Nat /\ Len(w) \in Nat /\ m \in 0 .. Len(w) /\ m \in Nat
    BY EndsFacts
  <1>2. /\ c \in Seq(Units) /\ Len(c) = m /\ y \in Seq(Units) /\ Len(y) = Len(w) - m
        /\ \A i \in 1 .. m : c[i] = w[i]
        /\ \A i \in 1 .. Len(w) - m : y[i] = w[m + i]
    BY <1>1, Cut
  <1>3. x \in Seq(Units) /\ Len(x) = Len(b) + m
        /\ \A n \in 1 .. Len(b) + Len(c) : x[n] = IF n <= Len(b) THEN b[n] ELSE c[n - Len(b)]
    BY <1>2, ConcatProperties
  <1> HIDE DEF c, x, y
  <1>4. PICK lb \in Nat, lw \in Nat : lb = Len(b) /\ lw = Len(w)
    BY <1>1
  <1>5. /\ \A n \in 1 .. lb : x[n] = b[n]
        /\ \A n \in 1 .. m : x[lb + n] = w[n]
    <2>1. \A n \in 1 .. lb + m : x[n] = IF n <= lb THEN b[n] ELSE c[n - lb]
      BY <1>2, <1>3, <1>4
    <2>2. ASSUME NEW n \in 1 .. m PROVE x[lb + n] = w[n]
      <3>1. lb + n \in 1 .. lb + m /\ ~(lb + n <= lb) /\ (lb + n) - lb = n
        BY <1>1
      <3>2. QED
        BY <1>2, <2>1, <3>1
    <2>3. ASSUME NEW n \in 1 .. lb PROVE x[n] = b[n]
      BY <1>1, <2>1
    <2>4. QED
      BY <2>2, <2>3
  <1>6. PICK first \in Int : first = last - ((lb + lw) \div 4)
    <2>1. (lb + lw) \div 4 \in Int
      BY Fours
    <2>2. QED
      BY <2>1
  <1>7. /\ (lb + lw) % 4 = 0
        /\ \A n \in 1 .. lb : b[n] = UnitAt(first, n)
        /\ \A n \in 1 .. lw : w[n] = UnitAt(first, lb + n)
    BY <1>4, <1>6 DEF Aligned, First
  <1>8. Aligned(x, y, last)
    <2>1. Len(x) + Len(y) = lb + lw /\ First(x, y, last) = first
      BY <1>1, <1>2, <1>3, <1>4, <1>6 DEF First
    <2>2. ASSUME NEW n \in 1 .. Len(x) PROVE x[n] = UnitAt(first, n)
      <3>1. CASE n \in 1 .. lb
        BY <1>5, <1>7, <3>1
      <3>2. CASE n \notin 1 .. lb
        <4>1. n - lb \in 1 .. m /\ n - lb \in 1 .. lw /\ lb + (n - lb) = n
          BY <1>1, <1>3, <1>4, <3>2
        <4>2. QED
          BY <1>5, <1>7, <4>1
      <3>3. QED
        BY <3>1, <3>2
    <2>3. ASSUME NEW n \in 1 .. Len(y) PROVE y[n] = UnitAt(first, Len(x) + n)
      <3>1. n \in 1 .. Len(w) - m /\ m + n \in 1 .. lw /\ lb + (m + n) = Len(x) + n
        BY <1>1, <1>2, <1>3, <1>4
      <3>2. QED
        BY <1>2, <1>7, <3>1
    <2>4. QED
      BY <1>7, <2>1, <2>2, <2>3 DEF Aligned
  <1>9. ASSUME NEW e
        PROVE  e \in Completed(w, m) <=> \E n \in 1 .. m : w[n].piece = 4 /\ w[n].event = e
    <2>1. DOMAIN c = 1 .. m
      BY <1>2, LenProperties
    <2>2. Range(c) = {c[n] : n \in 1 .. m}
      BY <2>1 DEF Range
    <2>3. Range(c) = {w[n] : n \in 1 .. m}
      BY <1>2, <2>2
    <2>4. Completed(w, m) = {unit.event : unit \in {u \in Range(c) : u.piece = 4}}
      BY DEF Completed, c
    <2>5. QED
      BY <2>3, <2>4
  <1>10. Hints(EndsOf(x)) = Hints(EndsOf(b)) \cup (Completed(w, m) \cap Actionable)
    <2>1. ASSUME NEW h \in Hints(EndsOf(x))
          PROVE  h \in Hints(EndsOf(b)) \cup (Completed(w, m) \cap Actionable)
      <3>1. PICK n \in 1 .. Len(x) : h \in Actionable /\ x[n].piece = 4 /\ x[n].event = h
        BY <1>3, <2>1, EndsFacts
      <3>2. CASE n \in 1 .. lb
        BY <1>4, <1>5, <3>1, <3>2, EndsFacts
      <3>3. CASE n \notin 1 .. lb
        <4>1. n - lb \in 1 .. m /\ lb + (n - lb) = n
          BY <1>1, <1>3, <1>4, <3>3
        <4>2. x[n] = w[n - lb]
          BY <1>5, <4>1
        <4>3. QED
          BY <1>9, <3>1, <4>1, <4>2
      <3>4. QED
        BY <3>2, <3>3
    <2>2. ASSUME NEW h \in Hints(EndsOf(b)) PROVE h \in Hints(EndsOf(x))
      <3>1. PICK n \in 1 .. lb : h \in Actionable /\ b[n].piece = 4 /\ b[n].event = h
        BY <1>4, <2>2, EndsFacts
      <3>2. Len(x) = lb + m
        BY <1>3, <1>4
      <3>3. n \in 1 .. Len(x) /\ x[n] = b[n]
        BY <1>1, <1>5, <3>2
      <3>4. QED
        BY <1>3, <3>1, <3>3, EndsFacts
    <2>3. ASSUME NEW h \in Completed(w, m), h \in Actionable PROVE h \in Hints(EndsOf(x))
      <3>1. PICK n \in 1 .. m : w[n].piece = 4 /\ w[n].event = h
        BY <1>9, <2>3
      <3>2. lb + n \in 1 .. Len(x) /\ x[lb + n] = w[n]
        BY <1>1, <1>3, <1>4, <1>5
      <3>3. QED
        BY <1>3, <2>3, <3>1, <3>2, EndsFacts
    <2>4. QED
      BY <2>1, <2>2, <2>3
  <1>11. ASSUME NEW e \in Completed(w, m)
         PROVE  /\ e \in Int
                /\ last - ((lw + 3) \div 4) < e /\ e <= last - ((lw - m + 3) \div 4)
                /\ \E n \in 1 .. Len(w) : e = w[n].event
    <2>1. PICK n \in 1 .. m : w[n].piece = 4 /\ w[n].event = e
      BY <1>9
    <2>2. n \in 1 .. lw /\ m <= lw
      BY <1>1, <1>4
    <2>3. lb + n \in Int /\ w[n] = UnitAt(first, lb + n)
      BY <1>7, <2>2
    <2>4. e = first + ((lb + n - 1) \div 4) + 1 /\ (lb + n - 1) % 4 = 3
      <3>1. PICK k \in Int : k = lb + n
        BY <2>3
      <3>2. w[n] = UnitAt(first, k) /\ w[n].piece = 4 /\ w[n].event = e
        BY <2>1, <2>3, <3>1
      <3>3. e = first + ((k - 1) \div 4) + 1 /\ (k - 1) % 4 = 3
        BY <3>2, UnitFacts
      <3>4. QED
        BY <3>1, <3>3
    <2> DEFINE done == (lb + n - 1) \div 4
               all == (lb + lw) \div 4
               old == (lw + 3) \div 4
               new == (lw - m + 3) \div 4
    <2>5. done \in Int /\ all \in Int /\ old \in Int /\ new \in Int
      BY <1>1, <1>4, Fours
    <2>6. lb + n - 1 = (4 * done) + 3 /\ lb + lw = 4 * all
      <3>1. lb + n - 1 \in Int /\ lb + lw \in Int
        BY <2>3
      <3>2. QED
        BY <1>7, <2>4, <3>1, Fours
    <2>7. lw + 3 <= (4 * old) + 3 /\ 4 * new <= lw - m + 3
      <3>1. lw + 3 \in Int /\ lw - m + 3 \in Int
        BY <1>1
      <3>2. /\ (lw + 3) % 4 \in 0 .. 3 /\ lw + 3 = (4 * old) + ((lw + 3) % 4)
            /\ (lw - m + 3) % 4 \in 0 .. 3 /\ lw - m + 3 = (4 * new) + ((lw - m + 3) % 4)
        BY <3>1, Fours
      <3> HIDE DEF old, new
      <3>3. QED
        BY <2>5, <3>2
    <2> HIDE DEF done, all, old, new
    <2>8. all < done + 1 + old /\ done + 1 + new <= all
      BY <1>1, <2>2, <2>5, <2>6, <2>7
    <2>9. e = first + done + 1 /\ first = last - all /\ e \in Int
      BY <1>6, <2>4, <2>5 DEF done, all
    <2>10. last - old < e /\ e <= last - new
      BY <2>5, <2>8, <2>9
    <2>11. QED
      BY <1>4, <2>1, <2>2, <2>9, <2>10 DEF old, new
  <1>12. QED
    BY <1>2, <1>3, <1>4, <1>8, <1>10, <1>11 DEF c, x, y

(* A buffer begins with the units of an event. *)
LEMMA FirstEvent ==
  ASSUME NEW b \in Seq(Units), NEW w \in Seq(Units), NEW last \in Nat, Aligned(b, w, last)
  PROVE  /\ First(b, w, last) \in Int
         /\ \A n \in 1 .. 4 : n <= Len(b) =>
               b[n].piece = n /\ b[n].event = First(b, w, last) + 1
  <1>1. Len(b) \in Nat /\ Len(w) \in Nat
    BY EndsFacts
  <1>2. (Len(b) + Len(w)) \div 4 \in Int
    BY <1>1, Fours
  <1>3. First(b, w, last) \in Int
    BY <1>2 DEF First
  <1>4. ASSUME NEW n \in 1 .. 4, n <= Len(b)
        PROVE  b[n].piece = n /\ b[n].event = First(b, w, last) + 1
    <2>0. PICK first \in Int : first = First(b, w, last)
      BY <1>3
    <2>1. b[n] = UnitAt(first, n) /\ n \in Int
      BY <1>1, <1>4, <2>0 DEF Aligned
    <2>2. (n - 1) \div 4 = 0 /\ (n - 1) % 4 = n - 1
      <3>1. n = 1 \/ n = 2 \/ n = 3 \/ n = 4
        OBVIOUS
      <3>2. QED
        BY <3>1
    <2>3. b[n].event = first + 0 + 1 /\ b[n].piece = (n - 1) + 1
      BY <2>1, <2>2, UnitFacts
    <2>4. QED
      BY <2>0, <2>3
  <1>5. QED
    BY <1>3, <1>4

(* A blank line follows the two pieces of an event that is wholly there. *)
LEMMA SeparatorFound ==
  ASSUME buffer \in Seq(Units), wire \in Seq(Units), sent \in Nat, Aligned(buffer, wire, sent)
  PROVE  /\ Len(buffer) >= 4 => Separator = 3
         /\ Len(buffer) < 4 => Separator = 0
  <1> DEFINE at == {n \in 1 .. Len(buffer) - 1 : Newline(buffer[n]) /\ Newline(buffer[n + 1])}
  <1>1. /\ Len(buffer) \in Nat
        /\ \A n \in 1 .. 4 : n <= Len(buffer) => buffer[n].piece = n
    BY FirstEvent, EndsFacts
  <1>2. ASSUME NEW n \in at PROVE n >= 3
    BY <1>1 DEF Newline
  <1>3. ASSUME Len(buffer) >= 4 PROVE 3 \in at
    BY <1>1, <1>3 DEF Newline
  <1>4. ASSUME Len(buffer) < 4 PROVE at = {}
    BY <1>1, <1>2, <1>4 DEF Newline
  <1>5. Separator = IF at = {} THEN 0 ELSE Min(at)
    BY DEF Separator
  <1>6. at \subseteq Nat
    BY <1>1
  <1> HIDE DEF at
  <1>7. ASSUME Len(buffer) >= 4 PROVE Min(at) = 3
    <2>1. \A x \in at : (\A y \in at : x <= y) => x = 3
      BY <1>2, <1>3, <1>6, <1>7
    <2>2. 3 \in at /\ \A y \in at : 3 <= y
      BY <1>2, <1>3, <1>6, <1>7
    <2>3. QED
      BY <2>1, <2>2 DEF Min
  <1>8. QED
    BY <1>3, <1>4, <1>5, <1>7

(* The first event is cut off. *)
LEMMA EventCut ==
  ASSUME NEW b \in Seq(Units), NEW w \in Seq(Units), NEW last \in Nat, Aligned(b, w, last),
         Len(b) >= 4
  PROVE  /\ SubSeq(b, 5, Len(b)) \in Seq(Units)
         /\ Aligned(SubSeq(b, 5, Len(b)), w, last)
         /\ SubSeq(b, 1, 2)[1] = b[1] /\ SubSeq(b, 1, 2)[2] = b[2] /\ Len(SubSeq(b, 1, 2)) = 2
         /\ b[1].event = b[2].event
         /\ Hints(EndsOf(b)) =
               ({b[1].event} \cap Actionable) \cup Hints(EndsOf(SubSeq(b, 5, Len(b))))
         /\ Below({b[1].event} \cap Actionable, Hints(EndsOf(SubSeq(b, 5, Len(b)))))
  <1> DEFINE x == SubSeq(b, 5, Len(b))
             e == b[1].event
  <1>1. PICK lb \in Nat, lw \in Nat : lb = Len(b) /\ lw = Len(w)
    BY EndsFacts
  <1>2. 4 \in 0 .. Len(b) /\ 2 \in 0 .. Len(b) /\ lb >= 4
    BY <1>1
  <1>3. /\ x \in Seq(Units) /\ Len(x) = lb - 4 /\ \A n \in 1 .. lb - 4 : x[n] = b[4 + n]
    BY <1>1, <1>2, Cut
  <1>4. SubSeq(b, 1, 2)[1] = b[1] /\ SubSeq(b, 1, 2)[2] = b[2] /\ Len(SubSeq(b, 1, 2)) = 2
    BY <1>2, Cut
  <1>5. /\ \A n \in 1 .. 4 : b[n].piece = n /\ b[n].event = e
    BY <1>1, <1>2, FirstEvent
  <1> HIDE DEF x, e
  <1>6. Aligned(x, w, last)
    <2>1. PICK first \in Int : first = First(b, w, last)
      BY FirstEvent
    <2>2. /\ (lb + lw) % 4 = 0 /\ first = last - ((lb + lw) \div 4)
          /\ \A n \in 1 .. lb : b[n] = UnitAt(first, n)
          /\ \A n \in 1 .. lw : w[n] = UnitAt(first, lb + n)
      BY <1>1, <2>1 DEF Aligned, First
    <2>3. Len(x) + Len(w) = (lb + lw) - 4
      BY <1>1, <1>3
    <2>4. ((lb + lw) - 4) % 4 = 0 /\ ((lb + lw) - 4) \div 4 = ((lb + lw) \div 4) - 1
      <3>1. PICK t \in Int : t = lb + lw
        OBVIOUS
      <3>2. (t - 4) % 4 = t % 4 /\ (t - 4) \div 4 = (t \div 4) - 1
        OBVIOUS
      <3>3. QED
        BY <2>2, <3>1, <3>2
    <2>5. (lb + lw) \div 4 \in Int
      BY Fours
    <2>6. First(x, w, last) = first + 1
      <3>1. (Len(x) + Len(w)) \div 4 = ((lb + lw) \div 4) - 1
        BY <2>3, <2>4
      <3>2. First(x, w, last) = last - (((lb + lw) \div 4) - 1)
        BY <3>1 DEF First
      <3>3. QED
        BY <2>2, <2>5, <3>2
    <2>7. ASSUME NEW n \in Int PROVE UnitAt(first + 1, n) = UnitAt(first, 4 + n)
      <3>1. (4 + n - 1) % 4 = (n - 1) % 4 /\ (4 + n - 1) \div 4 = ((n - 1) \div 4) + 1
        OBVIOUS
      <3>2. (n - 1) \div 4 \in Int
        BY Fours
      <3>3. (first + 1) + ((n - 1) \div 4) + 1 = first + ((4 + n - 1) \div 4) + 1
        BY <3>1, <3>2
      <3>4. QED
        BY <3>1, <3>3 DEF UnitAt
    <2>8. ASSUME NEW n \in 1 .. Len(x) PROVE x[n] = UnitAt(first + 1, n)
      <3>1. n \in Int /\ 4 + n \in 1 .. lb /\ n \in 1 .. lb - 4
        BY <1>2, <1>3
      <3>2. QED
        BY <1>3, <2>2, <2>7, <3>1
    <2>9. ASSUME NEW n \in 1 .. Len(w) PROVE w[n] = UnitAt(first + 1, Len(x) + n)
      <3>1. Len(x) + n \in Int /\ 4 + (Len(x) + n) = lb + n /\ n \in 1 .. lw
        BY <1>1, <1>2, <1>3
      <3>2. QED
        BY <2>2, <2>7, <3>1
    <2>10. QED
      BY <2>3, <2>4, <2>6, <2>8, <2>9 DEF Aligned
  <1>7. ASSUME NEW h
        PROVE  /\ h \in Hints(EndsOf(x)) => h \in Hints(EndsOf(b))
               /\ h \in Hints(EndsOf(b)) => h \in {e} \cap Actionable \/ h \in Hints(EndsOf(x))
               /\ h \in {e} \cap Actionable => h \in Hints(EndsOf(b))
    <2>1. ASSUME h \in Hints(EndsOf(x)) PROVE h \in Hints(EndsOf(b))
      <3>1. PICK n \in 1 .. Len(x) : h \in Actionable /\ x[n].piece = 4 /\ x[n].event = h
        BY <1>3, <2>1, EndsFacts
      <3>2. 4 + n \in 1 .. lb /\ x[n] = b[4 + n]
        BY <1>2, <1>3
      <3>3. QED
        BY <1>1, <3>1, <3>2, EndsFacts
    <2>2. ASSUME h \in Hints(EndsOf(b))
          PROVE  h \in {e} \cap Actionable \/ h \in Hints(EndsOf(x))
      <3>1. PICK n \in 1 .. lb : h \in Actionable /\ b[n].piece = 4 /\ b[n].event = h
        BY <1>1, <2>2, EndsFacts
      <3>2. CASE n \in 1 .. 4
        BY <1>5, <3>1, <3>2
      <3>3. CASE n \notin 1 .. 4
        <4>1. PICK m \in 1 .. lb - 4 : 4 + m = n
          <5>1. n - 4 \in 1 .. lb - 4 /\ 4 + (n - 4) = n
            BY <3>3
          <5>2. QED
            BY <5>1
        <4>2. x[m] = b[n] /\ m \in 1 .. Len(x)
          BY <1>3, <4>1
        <4>3. h \in Actionable /\ x[m].piece = 4 /\ x[m].event = h
          BY <3>1, <4>2
        <4>4. h \in Hints(EndsOf(x))
          BY <1>3, <4>2, <4>3, EndsFacts
        <4>5. QED
          BY <4>4
      <3>4. QED
        BY <3>2, <3>3
    <2>3. ASSUME h \in {e} \cap Actionable PROVE h \in Hints(EndsOf(b))
      <3>1. 4 \in 1 .. Len(b) /\ b[4].piece = 4 /\ b[4].event = h
        BY <1>1, <1>2, <1>5, <2>3
      <3>2. QED
        BY <2>3, <3>1, EndsFacts
    <2>4. QED
      BY <2>1, <2>2, <2>3
  <1>8. ASSUME NEW h \in Hints(EndsOf(x)), e \in Actionable PROVE e < h
    <2>1. PICK n \in 1 .. Len(x) : x[n].piece = 4 /\ x[n].event = h /\ h \in Actionable
      BY <1>3, <1>8, EndsFacts
    <2>2. 4 \in 1 .. lb /\ 4 + n \in 1 .. lb /\ 4 < 4 + n /\ x[n] = b[4 + n]
      <3>1. n \in 1 .. lb - 4
        BY <1>3
      <3>2. x[n] = b[4 + n]
        BY <1>3, <3>1
      <3>3. 4 \in 1 .. lb /\ 4 + n \in 1 .. lb /\ 4 < 4 + n
        BY <1>2, <3>1
      <3>4. QED
        BY <3>2, <3>3
    <2>3. EndIn(b[4]) = e /\ EndIn(b[4 + n]) = h /\ e # 0 /\ h # 0
      BY <1>5, <1>8, <2>1, <2>2, FeedsAssumption DEF EndIn
    <2>4. Rises(EndsOf(b))
      BY EndsRise
    <2>5. /\ DOMAIN EndsOf(b) = 1 .. lb
          /\ EndsOf(b)[4] = e /\ EndsOf(b)[4 + n] = h
      BY <1>1, <2>2, <2>3, EndsFacts
    <2>6. QED
      BY <2>2, <2>3, <2>4, <2>5 DEF Rises
  <1>9. b[1].event = b[2].event
    BY <1>5
  <1>10. QED
    BY <1>3, <1>4, <1>6, <1>7, <1>8, <1>9 DEF x, e, Below

(* The relay sends an event. *)
LEMMA EventSent ==
  ASSUME NEW b \in Seq(Units), NEW w \in Seq(Units), NEW last \in Nat, Aligned(b, w, last)
  PROVE  /\ Aligned(b, w \o Pieces(last + 1), last + 1)
         /\ Len(w \o Pieces(last + 1)) = Len(w) + 4
  <1> DEFINE p == Pieces(last + 1)
             x == w \o p
  <1>1. PICK lb \in Nat, lw \in Nat : lb = Len(b) /\ lw = Len(w)
    BY EndsFacts
  <1>2. p \in Seq(Units) /\ Len(p) = 4 /\ \A n \in 1 .. 4 : p[n] = [event |-> last + 1, piece |-> n]
    <2>1. \A n \in 1 .. 4 : [event |-> last + 1, piece |-> n] \in Units
      BY DEF Units
    <2>2. QED
      BY <2>1 DEF Pieces
  <1> HIDE DEF p
  <1>3. /\ Len(x) = lw + 4
        /\ \A n \in 1 .. Len(w) + Len(p) : x[n] = IF n <= Len(w) THEN w[n] ELSE p[n - Len(w)]
    <2>1. /\ Len(w \o p) = Len(w) + Len(p)
          /\ \A n \in 1 .. Len(w) + Len(p) :
                (w \o p)[n] = IF n <= Len(w) THEN w[n] ELSE p[n - Len(w)]
      BY <1>2, ConcatProperties, ZenonT(30)
    <2>2. QED
      BY <1>1, <1>2, <2>1
  <1> HIDE DEF x
  <1>4. PICK first \in Int : first = First(b, w, last)
    BY FirstEvent
  <1>5. /\ (lb + lw) % 4 = 0 /\ first = last - ((lb + lw) \div 4)
        /\ \A n \in 1 .. lb : b[n] = UnitAt(first, n)
        /\ \A n \in 1 .. lw : w[n] = UnitAt(first, lb + n)
    BY <1>1, <1>4 DEF Aligned, First
  <1>6. PICK all \in Int : all = (lb + lw) \div 4 /\ lb + lw = 4 * all
    BY <1>5, Fours
  <1>7. /\ Len(b) + Len(x) = 4 * (all + 1)
        /\ (4 * (all + 1)) % 4 = 0 /\ (4 * (all + 1)) \div 4 = all + 1
    BY <1>1, <1>3, <1>6
  <1>8. First(b, x, last + 1) = first
    BY <1>5, <1>6, <1>7 DEF First
  <1>9. ASSUME NEW n \in 1 .. Len(x) PROVE x[n] = UnitAt(first, lb + n)
    <2>1. CASE n \in 1 .. lw
      BY <1>1, <1>2, <1>3, <1>5, <2>1
    <2>2. CASE n \notin 1 .. lw
      <3>1. PICK m \in 1 .. 4 : n = lw + m
        <4>1. n - lw \in 1 .. 4 /\ n = lw + (n - lw)
          BY <1>3, <2>2
        <4>2. QED
          BY <4>1
      <3>2. x[n] = [event |-> last + 1, piece |-> m]
        <4>1. n \in 1 .. Len(w) + Len(p) /\ ~(n <= Len(w)) /\ n - Len(w) = m
          BY <1>1, <1>2, <3>1
        <4>2. QED
          BY <1>2, <1>3, <4>1
      <3>3. lb + n - 1 = (4 * all) + (m - 1)
        BY <1>6, <3>1
      <3>4. ((4 * all) + (m - 1)) \div 4 = all /\ ((4 * all) + (m - 1)) % 4 = m - 1
        OBVIOUS
      <3>5. first + all + 1 = last + 1 /\ (m - 1) + 1 = m
        BY <1>5, <1>6
      <3>6. (lb + n - 1) \div 4 = all /\ (lb + n - 1) % 4 = m - 1
        BY <3>3, <3>4
      <3>7. UnitAt(first, lb + n) = [event |-> first + all + 1, piece |-> (m - 1) + 1]
        BY <3>6 DEF UnitAt
      <3>8. QED
        BY <3>2, <3>5, <3>7
    <2>3. QED
      BY <2>1, <2>2
  <1>10. QED
    BY <1>1, <1>3, <1>5, <1>7, <1>8, <1>9 DEF Aligned, x, p

(* A text that has not begun. *)
LEMMA NothingAligned ==
  ASSUME NEW last \in Nat
  PROVE  <<>> \in Seq(Units) /\ Aligned(<<>>, <<>>, last) /\ Hints(EndsOf(<<>>)) = {}
         /\ Rises(EndsOf(<<>>))
  BY DEF Aligned, Hints, Range, EndsOf, Rises

-----------------------------------------------------------------------------
(* Feeds: the inductive invariant *)

(* While the stream lasts, the buffer and the wire hold whole events up to *)
(* the last that was sent; what was read came before.                      *)
StreamInv ==
    /\ sse = "stream" => Aligned(buffer, wire, sent)
    /\ sse # "stream" => wire = <<>> /\ \A n \in DOMAIN buffer : buffer[n].piece # 4
    /\ read \subseteq 1 .. sent - ((Len(wire) + 3) \div 4)
    /\ lost \subseteq read

FeedsInv == FeedsTypeOK /\ StreamInv /\ HintsFlow

(* The five stages of the pipeline hold what was read and not dropped. *)
Kept == (read \cap Actionable) \ lost
LineFlows == Flows(taken, QueuedOf(opportunities), forwarding, mev_queue, EndsOf(buffer), Kept)

(* Sequences over a smaller set. *)
LEMMA Monotone ==
  ASSUME NEW S, NEW T, S \subseteq T, NEW s \in Seq(S)
  PROVE  s \in Seq(T)
  BY SeqMonotonic, ElementOfSeq, LenProperties

(* What the invariant says, in the terms of the lemmas. *)
LEMMA FeedsFacts ==
  ASSUME FeedsInv
  PROVE  /\ FeedsTypeOK /\ StreamInv /\ LineFlows
         /\ sent \in Nat /\ buffer \in Seq(Units) /\ wire \in Seq(Units)
         /\ buffer \in Seq(Unit) /\ wire \in Seq(Unit)
         /\ opportunities \in Seq(Opportunity) /\ QueuedOf(opportunities) \in Seq(Nat)
         /\ taken \in Seq(Nat) /\ forwarding \in Seq(Nat) /\ mev_queue \in Seq(Nat)
         /\ EndsOf(buffer) \in Seq(Nat) /\ Actionable \subseteq Nat \ {0}
  <1>1. Actionable \subseteq Nat \ {0} /\ Actionable \subseteq Nat /\ sent \in Nat
    BY FeedsAssumption DEF FeedsInv, FeedsTypeOK
  <1>2. buffer \in Seq(Unit) /\ wire \in Seq(Unit) /\ opportunities \in Seq(Opportunity)
    BY FeedsTypes DEF FeedsInv
  <1>3. Unit \subseteq Units
    BY DEF Unit, Units
  <1>4. buffer \in Seq(Units) /\ wire \in Seq(Units)
    BY <1>2, <1>3, Monotone
  <1>5. taken \in Seq(Nat) /\ forwarding \in Seq(Nat) /\ mev_queue \in Seq(Nat)
    <2>1. /\ taken \in Seq(Actionable) /\ forwarding \in Seq(Actionable)
          /\ mev_queue \in Seq(Actionable)
      BY DEF FeedsInv, FeedsTypeOK
    <2>2. QED
      BY <1>1, <2>1, Monotone
  <1>6. QueuedOf(opportunities) \in Seq(Nat) /\ EndsOf(buffer) \in Seq(Nat)
    BY <1>2, <1>4, QueuedFacts, EndsFacts
  <1>7. Line = taken \o QueuedOf(opportunities) \o forwarding \o mev_queue \o EndsOf(buffer)
    BY DEF Line, Queued, Ends, QueuedOf, HintIn, EndsOf, EndIn
  <1>8. LineFlows
    BY <1>5, <1>6, <1>7, FiveStages DEF LineFlows, Kept, FeedsInv, HintsFlow
  <1>9. QED
    BY <1>1, <1>2, <1>4, <1>5, <1>6, <1>8 DEF FeedsInv

(* What is to be shown of a step. *)
LEMMA FlowsNext ==
  ASSUME FeedsTypeOK', StreamInv', LineFlows'
  PROVE  FeedsInv'
  <1>1. Actionable \subseteq Nat /\ sent' \in Nat
    BY FeedsAssumption DEF FeedsTypeOK
  <1>2. buffer' \in Seq([event : 1 .. sent', piece : 1 .. 4]) /\ opportunities' \in Seq(Opportunity)
    BY DEF FeedsTypeOK, Opportunity
  <1>3. [event : 1 .. sent', piece : 1 .. 4] \subseteq Units
    BY DEF Units
  <1>4. buffer' \in Seq(Units)
    BY <1>2, <1>3, Monotone
  <1>5. taken' \in Seq(Nat) /\ forwarding' \in Seq(Nat) /\ mev_queue' \in Seq(Nat)
    <2>1. /\ taken' \in Seq(Actionable) /\ forwarding' \in Seq(Actionable)
          /\ mev_queue' \in Seq(Actionable)
      BY DEF FeedsTypeOK
    <2>2. QED
      BY <1>1, <2>1, Monotone
  <1>6. QueuedOf(opportunities') \in Seq(Nat) /\ EndsOf(buffer') \in Seq(Nat)
    BY <1>2, <1>4, QueuedFacts, EndsFacts
  <1>7. Line' = taken' \o QueuedOf(opportunities') \o forwarding' \o mev_queue' \o EndsOf(buffer')
    BY DEF Line, Queued, Ends, QueuedOf, HintIn, EndsOf, EndIn
  <1>8. Flows(taken', QueuedOf(opportunities'), forwarding', mev_queue', EndsOf(buffer'), Kept')
    BY DEF LineFlows
  <1>9. Rises(Line') /\ Hints(Line') = Kept'
    BY <1>5, <1>6, <1>7, <1>8, FiveStages
  <1>10. HintsFlow'
    BY <1>9 DEF HintsFlow, Kept
  <1>11. QED
    BY <1>10 DEF FeedsInv

(* Nothing is kept that was not read. *)
LEMMA KeptIsRead ==
  ASSUME FeedsInv
  PROVE  /\ \A h \in Hints(taken) \cup Hints(QueuedOf(opportunities)) \cup Hints(forwarding)
                       \cup Hints(mev_queue) \cup Hints(EndsOf(buffer)) :
               /\ h \in Actionable /\ h \in read /\ h \notin lost
               /\ h <= sent - ((Len(wire) + 3) \div 4)
         /\ lost \subseteq read
         /\ \A e \in read : e \in Nat /\ e <= sent - ((Len(wire) + 3) \div 4)
  BY FeedsFacts DEF LineFlows, Flows, Kept, StreamInv

-----------------------------------------------------------------------------
(* Feeds: the connection *)

(* Once the stream is lost the buffer holds no end of an event. *)
LEMMA NoEnds ==
  ASSUME FeedsInv, sse # "stream"
  PROVE  Hints(EndsOf(buffer)) = {}
  <1>1. \A n \in 1 .. Len(buffer) : buffer[n].piece # 4
    BY FeedsFacts, EndsFacts DEF StreamInv
  <1>2. \A h : h \in Hints(EndsOf(buffer)) =>
                \E n \in 1 .. Len(buffer) : buffer[n].piece = 4 /\ buffer[n].event = h
    BY FeedsFacts, EndsFacts
  <1>3. QED
    BY <1>1, <1>2

(* A new connection begins with an empty buffer. *)
LEMMA ConnectStep ==
  ASSUME FeedsInv, Connect
  PROVE  FeedsInv'
  <1>1. FeedsTypeOK /\ StreamInv /\ LineFlows /\ sent \in Nat
    BY FeedsFacts
  <1>2. /\ sse # "stream" /\ sse' = "stream" /\ buffer' = <<>> /\ wire = <<>> /\ wire' = <<>>
        /\ UNCHANGED <<running, sent, read, mev_queue, forwarding, pending, opportunities, lost, taken>>
    BY <1>1 DEF Connect, StreamInv, streamVars
  <1>3. FeedsTypeOK'
    BY <1>1, <1>2 DEF FeedsTypeOK
  <1>4. StreamInv'
    BY <1>1, <1>2, NothingAligned DEF StreamInv
  <1>5. Hints(EndsOf(buffer')) = {} /\ Rises(EndsOf(buffer')) /\ Hints(EndsOf(buffer)) = {}
    BY <1>2, NoEnds, NothingAligned, <1>1
  <1>6. LineFlows'
    BY <1>1, <1>2, <1>5 DEF LineFlows, Flows, Kept
  <1>7. QED
    BY <1>3, <1>4, <1>6, FlowsNext

(* Between connections nothing moves. *)
LEMMA SseFailsStep ==
  ASSUME FeedsInv, SseFails \/ Reconnect
  PROVE  FeedsInv'
  BY DEF FeedsInv, SseFails, Reconnect, FeedsTypeOK, StreamInv, HintsFlow, Line, Queued, Ends,
     streamVars

(* The rest of the event under way is lost with the connection. *)
LEMMA SseEndsStep ==
  ASSUME FeedsInv, SseEnds
  PROVE  FeedsInv'
  <1>1. /\ FeedsTypeOK /\ StreamInv /\ HintsFlow /\ sent \in Nat /\ wire \in Seq(Units)
        /\ buffer \in Seq(Units)
    BY FeedsFacts DEF FeedsInv
  <1>2. /\ sse = "stream" /\ Separator = 0 /\ sse' = "sleep" /\ wire' = <<>>
        /\ UNCHANGED <<running, sent, read, buffer, mev_queue, forwarding, pending, opportunities, lost,
                       taken>>
    BY DEF SseEnds
  <1>3. FeedsTypeOK'
    BY <1>1, <1>2 DEF FeedsTypeOK
  <1>4. \A n \in DOMAIN buffer : buffer[n].piece # 4
    <2>1. Len(buffer) < 4
      BY <1>1, <1>2, SeparatorFound, EndsFacts DEF StreamInv
    <2>2. \A n \in 1 .. 4 : n <= Len(buffer) => buffer[n].piece = n
      BY <1>1, <1>2, FirstEvent DEF StreamInv
    <2>3. Len(buffer) \in Nat /\ DOMAIN buffer = 1 .. Len(buffer)
      BY <1>1, EndsFacts
    <2>4. \A n \in DOMAIN buffer : n \in 1 .. 4 /\ n <= Len(buffer) /\ n # 4
      BY <2>1, <2>3
    <2>5. QED
      BY <2>2, <2>4
  <1>5. read \subseteq 1 .. sent - ((0 + 3) \div 4)
    <2>1. Len(wire) \in Nat /\ (Len(wire) + 3) \div 4 \in Nat /\ (0 + 3) \div 4 = 0
      BY <1>1, EndsFacts
    <2>2. QED
      BY <1>1, <2>1 DEF StreamInv
  <1>6. Len(wire') = 0
    BY <1>2
  <1>7. StreamInv'
    BY <1>1, <1>2, <1>4, <1>5, <1>6 DEF StreamInv
  <1>8. HintsFlow'
    BY <1>1, <1>2 DEF HintsFlow, Line, Queued, Ends
  <1>9. QED
    BY <1>3, <1>7, <1>8 DEF FeedsInv

(* The relay sends an event, to whom is listening. *)
LEMMA EmitStep ==
  ASSUME FeedsInv, Emit
  PROVE  FeedsInv'
  <1>1. /\ FeedsTypeOK /\ StreamInv /\ HintsFlow /\ sent \in Nat /\ wire \in Seq(Units)
        /\ buffer \in Seq(Units) /\ buffer \in Seq(Unit) /\ wire \in Seq(Unit)
    BY FeedsFacts DEF FeedsInv
  <1>2. /\ sent' = sent + 1 /\ sent' \in 0 .. MaxEvents
        /\ wire' = IF sse = "stream" THEN wire \o Pieces(sent + 1) ELSE wire
        /\ UNCHANGED <<running, sse, buffer, mev_queue, forwarding, pending, opportunities, read, lost,
                       taken>>
    BY <1>1, FeedsAssumption DEF Emit, scannerVars
  <1> DEFINE U == [event : 1 .. sent + 1, piece : 1 .. 4]
  <1>3. buffer \in Seq(U) /\ wire \in Seq(U)
    <2>1. Unit \subseteq U
      BY <1>1 DEF Unit
    <2> HIDE DEF U
    <2>2. QED
      BY <1>1, <2>1, Monotone
  <1>4. wire' \in Seq(U)
    <2>1. Pieces(sent + 1) \in Seq(U)
      BY <1>1 DEF Pieces
    <2> HIDE DEF U
    <2>2. QED
      BY <1>2, <1>3, <2>1, ConcatProperties
  <1>5. FeedsTypeOK'
    <2>1. read' \subseteq 1 .. sent'
      BY <1>1, <1>2 DEF FeedsTypeOK
    <2>2. QED
      BY <1>1, <1>2, <1>3, <1>4, <2>1 DEF FeedsTypeOK
  <1>6. StreamInv'
    <2>1. CASE sse = "stream"
      <3>1. Aligned(buffer', wire', sent') /\ Len(wire') = Len(wire) + 4
        BY <1>1, <1>2, <2>1, EventSent DEF StreamInv
      <3>2. Len(wire) \in Nat
        BY <1>1, EndsFacts
      <3>3. sent' - ((Len(wire') + 3) \div 4) = sent - ((Len(wire) + 3) \div 4)
        <4>1. PICK l \in Nat : l = Len(wire)
          BY <3>2
        <4>2. (l + 4 + 3) \div 4 = ((l + 3) \div 4) + 1 /\ (l + 3) \div 4 \in Int
          OBVIOUS
        <4>3. Len(wire') + 3 = l + 4 + 3 /\ Len(wire) + 3 = l + 3
          BY <3>1, <4>1
        <4>4. (Len(wire') + 3) \div 4 = ((l + 3) \div 4) + 1
          BY <4>2, <4>3
        <4>5. sent' - (((l + 3) \div 4) + 1) = sent - ((l + 3) \div 4)
          BY <1>1, <1>2, <4>2
        <4>6. QED
          BY <4>1, <4>4, <4>5
      <3>4. QED
        BY <1>1, <1>2, <2>1, <3>1, <3>3 DEF StreamInv
    <2>2. CASE sse # "stream"
      <3>1. wire = <<>> /\ wire' = <<>> /\ Len(wire) = 0 /\ (0 + 3) \div 4 = 0
        BY <1>1, <1>2, <2>2 DEF StreamInv
      <3>2. read' \subseteq 1 .. sent' - ((Len(wire') + 3) \div 4)
        <4>1. (Len(wire) + 3) \div 4 = 0 /\ (Len(wire') + 3) \div 4 = 0
          BY <3>1
        <4>2. read \subseteq 1 .. sent - 0
          BY <1>1, <4>1 DEF StreamInv
        <4>3. read' \subseteq 1 .. sent' - 0
          BY <1>1, <1>2, <4>2
        <4>4. QED
          BY <4>1, <4>3
      <3>3. QED
        BY <1>1, <1>2, <2>2, <3>1, <3>2 DEF StreamInv
    <2>3. QED
      BY <2>1, <2>2
  <1>7. HintsFlow'
    BY <1>1, <1>2 DEF HintsFlow, Line, Queued, Ends
  <1>8. QED
    BY <1>5, <1>6, <1>7 DEF FeedsInv

(* A chunk is read: what it completes comes after all that was read before. *)
LEMMA ReadChunkStep ==
  ASSUME FeedsInv, ReadChunk
  PROVE  FeedsInv'
  <1>1. /\ FeedsTypeOK /\ StreamInv /\ LineFlows /\ sent \in Nat /\ wire \in Seq(Units)
        /\ buffer \in Seq(Units) /\ buffer \in Seq(Unit) /\ wire \in Seq(Unit)
    BY FeedsFacts
  <1>2. PICK m \in 1 .. Len(wire) :
           /\ buffer' = buffer \o SubSeq(wire, 1, m) /\ wire' = SubSeq(wire, m + 1, Len(wire))
           /\ read' = read \cup Completed(wire, m)
    BY DEF ReadChunk, Completed
  <1>3. /\ sse = "stream"
        /\ UNCHANGED <<running, sent, sse, mev_queue, forwarding, pending, opportunities, lost, taken>>
    BY DEF ReadChunk
  <1>4. /\ Aligned(buffer', wire', sent) /\ buffer' \in Seq(Units) /\ wire' \in Seq(Units)
        /\ Hints(EndsOf(buffer')) = Hints(EndsOf(buffer)) \cup (Completed(wire, m) \cap Actionable)
        /\ Len(wire') = Len(wire) - m
        /\ \A e \in Completed(wire, m) :
               /\ e \in Int
               /\ sent - ((Len(wire) + 3) \div 4) < e /\ e <= sent - ((Len(wire) - m + 3) \div 4)
               /\ \E n \in 1 .. Len(wire) : e = wire[n].event
    BY <1>1, <1>2, <1>3, ChunkRead DEF StreamInv
  <1>5. Len(wire) \in Nat /\ \A n \in 1 .. Len(wire) : wire[n].event \in 1 .. sent
    <2>1. Len(wire) \in Nat /\ \A n \in 1 .. Len(wire) : wire[n] \in Unit
      BY <1>1, LenProperties, ElementOfSeq
    <2>2. QED
      BY <2>1 DEF Unit
  <1>6. \A e \in Completed(wire, m) : e \in 1 .. sent
    BY <1>4, <1>5
  <1>7. FeedsTypeOK'
    <2>1. m \in 0 .. Len(wire)
      BY <1>5
    <2>2. SubSeq(wire, 1, m) \in Seq(Unit) /\ SubSeq(wire, m + 1, Len(wire)) \in Seq(Unit)
      BY <1>1, <2>1, Cut
    <2>3. buffer \o SubSeq(wire, 1, m) \in Seq(Unit)
      BY <1>1, <2>2, ConcatProperties
    <2>4. /\ buffer' \in Seq([event : 1 .. sent', piece : 1 .. 4])
          /\ wire' \in Seq([event : 1 .. sent', piece : 1 .. 4])
      BY <1>2, <1>3, <2>2, <2>3 DEF Unit
    <2>5. read' \subseteq 1 .. sent'
      BY <1>1, <1>2, <1>3, <1>6 DEF FeedsTypeOK
    <2>6. QED
      BY <1>1, <1>2, <1>3, <2>4, <2>5 DEF FeedsTypeOK
  <1>8. StreamInv'
    <2>1. (Len(wire) + 3) \div 4 >= (Len(wire) - m + 3) \div 4 /\ (Len(wire) + 3) \div 4 \in Int
          /\ (Len(wire) - m + 3) \div 4 \in Int
      BY <1>5
    <2>2. \A e \in read : e \in Nat /\ e <= sent - ((Len(wire) + 3) \div 4) /\ e >= 1
      BY <1>1, KeptIsRead DEF StreamInv
    <2>3. \A e \in read' : e \in 1 .. sent - ((Len(wire) - m + 3) \div 4)
      BY <1>1, <1>2, <1>4, <1>6, <2>1, <2>2
    <2>4. lost' \subseteq read'
      BY <1>1, <1>2, <1>3 DEF StreamInv
    <2>5. QED
      BY <1>3, <1>4, <2>3, <2>4 DEF StreamInv
  <1>9. LineFlows'
    <2> DEFINE new == Completed(wire, m) \cap Actionable
               bound == sent - ((Len(wire) + 3) \div 4)
    <2>1. /\ Hints(EndsOf(buffer')) = Hints(EndsOf(buffer)) \cup new
          /\ \A e \in new : e \in Int /\ bound < e /\ e \in Actionable
          /\ bound \in Int
      BY <1>1, <1>4, <1>5
    <2>2. Rises(EndsOf(buffer'))
      BY <1>1, <1>4, EndsRise
    <2>3. \A h \in Hints(taken) \cup Hints(QueuedOf(opportunities)) \cup Hints(forwarding)
                      \cup Hints(mev_queue) \cup Hints(EndsOf(buffer)) :
              h \in Nat /\ h <= bound
      BY <1>1, KeptIsRead, FeedsFacts
    <2>4. \A e \in new : e \notin lost
      <3>1. \A h \in lost : h \in Nat /\ h <= bound
        BY KeptIsRead
      <3>2. QED
        BY <2>1, <3>1
    <2>5. Kept' = Kept \cup new
      BY <1>2, <1>3, <2>4 DEF Kept
    <2> HIDE DEF new, bound
    <2>6. Below(Hints(taken) \cup Hints(QueuedOf(opportunities)) \cup Hints(forwarding)
                   \cup Hints(mev_queue), Hints(EndsOf(buffer')))
      BY <1>1, <2>1, <2>3 DEF LineFlows, Flows, Below
    <2>7. QED
      BY <1>1, <1>3, <2>1, <2>2, <2>5, <2>6 DEF LineFlows, Flows
  <1>10. QED
    BY <1>7, <1>8, <1>9, FlowsNext

(* The first event of the buffer is cut off and its hint, if any, is sent. *)
LEMMA CutEventStep ==
  ASSUME FeedsInv, CutEvent
  PROVE  FeedsInv'
  <1> DEFINE e == buffer[1].event
             hint == Hint(SubSeq(buffer, 1, 2))
  <1>1. /\ FeedsTypeOK /\ StreamInv /\ LineFlows /\ sent \in Nat /\ wire \in Seq(Units)
        /\ buffer \in Seq(Units) /\ buffer \in Seq(Unit) /\ mev_queue \in Seq(Nat)
        /\ Actionable \subseteq Nat \ {0}
    BY FeedsFacts
  <1>2. sse = "stream" /\ Separator # 0 /\ Aligned(buffer, wire, sent)
    BY <1>1 DEF CutEvent, StreamInv
  <1>3. Len(buffer) \in Nat /\ Len(buffer) >= 4 /\ Separator = 3
    BY <1>1, <1>2, SeparatorFound, EndsFacts
  <1>4. /\ IF Fits(mev_queue, hint, MevQueueSize)
           THEN mev_queue' = mev_queue \o hint /\ UNCHANGED lost
           ELSE lost' = lost \cup Range(hint) /\ UNCHANGED mev_queue
        /\ buffer' = SubSeq(buffer, 5, Len(buffer))
        /\ UNCHANGED <<running, sent, wire, read, sse, forwarding, pending, opportunities, taken>>
    <2>1. Separator - 1 = 2 /\ Separator + 2 = 5
      BY <1>3
    <2>2. QED
      BY <2>1 DEF CutEvent, streamVars
  <1>5. /\ buffer' \in Seq(Units) /\ Aligned(buffer', wire, sent)
        /\ SubSeq(buffer, 1, 2)[1].event = e /\ SubSeq(buffer, 1, 2)[2].event = e
        /\ Len(SubSeq(buffer, 1, 2)) = 2
        /\ Hints(EndsOf(buffer)) = ({e} \cap Actionable) \cup Hints(EndsOf(buffer'))
        /\ Below({e} \cap Actionable, Hints(EndsOf(buffer')))
    BY <1>1, <1>2, <1>3, <1>4, EventCut
  <1>6. hint = IF e \in Actionable THEN <<e>> ELSE <<>>
    BY <1>5 DEF Hint
  <1>7. buffer' \in Seq(Unit)
    <2>1. 4 \in 0 .. Len(buffer)
      BY <1>3
    <2>2. QED
      BY <1>1, <1>4, <2>1, Cut
  <1>8. Rises(EndsOf(buffer'))
    BY <1>1, <1>5, EndsRise
  <1> HIDE DEF hint, e
  <1>9. CASE e \notin Actionable
    <2>1. hint = <<>> /\ Range(<<>>) = {} /\ Fits(mev_queue, hint, MevQueueSize)
      BY <1>6, <1>9 DEF Range, Fits
    <2>2. mev_queue' = mev_queue /\ lost' = lost
      BY <1>1, <1>4, <2>1
    <2>3. FeedsTypeOK'
      BY <1>1, <1>4, <1>7, <2>2 DEF FeedsTypeOK, Unit
    <2>4. StreamInv'
      BY <1>1, <1>2, <1>4, <1>5, <2>2 DEF StreamInv
    <2>5. Hints(EndsOf(buffer')) = Hints(EndsOf(buffer))
      BY <1>5, <1>9
    <2>6. LineFlows'
      BY <1>1, <1>4, <1>8, <2>2, <2>5 DEF LineFlows, Flows, Kept
    <2>7. QED
      BY <2>3, <2>4, <2>6, FlowsNext
  <1>10. CASE e \in Actionable
    <2>1. /\ hint = <<e>> /\ e \in Nat \ {0} /\ {e} \cap Actionable = {e}
          /\ Hints(EndsOf(buffer)) = {e} \cup Hints(EndsOf(buffer'))
          /\ \A h \in Hints(EndsOf(buffer')) : e < h
      BY <1>1, <1>5, <1>6, <1>10 DEF Below
    <2>2. Range(hint) = {e}
      <3>1. DOMAIN <<e>> = 1 .. 1 /\ <<e>>[1] = e
        OBVIOUS
      <3>2. QED
        BY <2>1, <3>1 DEF Range
    <2>3. e \in read /\ e \notin lost
      BY <2>1, KeptIsRead
    <2>4. CASE Len(mev_queue) < MevQueueSize
      <3>1. mev_queue' = Append(mev_queue, e) /\ lost' = lost
        <4>1. mev_queue' = mev_queue \o <<e>> /\ lost' = lost
          BY <1>4, <2>1, <2>4 DEF Fits
        <4>2. QED
          BY <1>1, <2>1, <4>1, AppendIsConcat
      <3>2. FeedsTypeOK'
        <4>1. mev_queue \in Seq(Actionable) /\ Len(mev_queue) \in Nat /\ MevQueueSize \in Nat
          BY <1>1, FeedsAssumption, LenProperties DEF FeedsTypeOK
        <4>2. mev_queue' \in Seq(Actionable) /\ Len(mev_queue') = Len(mev_queue) + 1
          BY <1>10, <3>1, <4>1, AppendProperties
        <4>3. QED
          BY <1>1, <1>4, <1>7, <2>4, <3>1, <4>1, <4>2 DEF FeedsTypeOK, Unit
      <3>3. StreamInv'
        BY <1>1, <1>2, <1>4, <1>5, <3>1 DEF StreamInv
      <3>4. /\ Hints(mev_queue') = Hints(mev_queue) \cup {e}
            /\ Rises(mev_queue') <=> Rises(mev_queue) /\ Below(Hints(mev_queue), {e})
        <4>1. {e} \ {0} = {e} /\ e \in Nat
          BY <2>1
        <4>2. /\ Hints(Append(mev_queue, e)) = Hints(mev_queue) \cup ({e} \ {0})
              /\ Rises(Append(mev_queue, e)) <=>
                    Rises(mev_queue) /\ Below(Hints(mev_queue), {e} \ {0})
          BY <1>1, <4>1, AppendHints
        <4>3. QED
          BY <3>1, <4>1, <4>2
      <3>5. LineFlows'
        BY <1>1, <1>4, <1>8, <2>1, <3>1, <3>4 DEF LineFlows, Flows, Kept, Below
      <3>6. QED
        BY <3>2, <3>3, <3>5, FlowsNext
    <2>5. CASE ~(Len(mev_queue) < MevQueueSize)
      <3>1. mev_queue' = mev_queue /\ lost' = lost \cup {e}
        <4>1. ~Fits(mev_queue, hint, MevQueueSize)
          BY <2>1, <2>5 DEF Fits
        <4>2. QED
          BY <1>4, <2>2, <4>1
      <3>2. FeedsTypeOK'
        BY <1>1, <1>4, <1>7, <1>10, <3>1 DEF FeedsTypeOK, Unit
      <3>3. StreamInv'
        BY <1>1, <1>2, <1>4, <1>5, <2>3, <3>1 DEF StreamInv
      <3>4. Hints(taken) \cup Hints(QueuedOf(opportunities)) \cup Hints(forwarding)
               \cup Hints(mev_queue) \cup Hints(EndsOf(buffer')) = Kept'
        <4>1. Kept' = Kept \ {e}
          BY <1>4, <3>1 DEF Kept
        <4>2. \A h \in Hints(taken) \cup Hints(QueuedOf(opportunities)) \cup Hints(forwarding)
                          \cup Hints(mev_queue) : h < e
          BY <1>1, <2>1 DEF LineFlows, Flows, Below
        <4>3. e \notin Hints(taken) \cup Hints(QueuedOf(opportunities)) \cup Hints(forwarding)
                          \cup Hints(mev_queue) \cup Hints(EndsOf(buffer'))
          BY <2>1, <4>2
        <4>4. QED
          BY <1>1, <2>1, <4>1, <4>3 DEF LineFlows, Flows
      <3>5. LineFlows'
        BY <1>1, <1>4, <1>8, <2>1, <3>1, <3>4 DEF LineFlows, Flows, Below
      <3>6. QED
        BY <3>2, <3>3, <3>5, FlowsNext
    <2>6. QED
      BY <2>4, <2>5
  <1>11. QED
    BY <1>9, <1>10

-----------------------------------------------------------------------------
(* Feeds: the forwarder and the main loop *)

(* The forwarder holds one actionable hint. *)
LEMMA ForwardingFacts ==
  ASSUME FeedsInv, forwarding # <<>>
  PROVE  /\ forwarding = <<forwarding[1]>> /\ forwarding[1] \in Actionable
         /\ Hints(forwarding) = {forwarding[1]}
  <1>1. forwarding \in Seq(Actionable) /\ Len(forwarding) <= 1 /\ Actionable \subseteq Nat \ {0}
    BY FeedsFacts DEF FeedsTypeOK
  <1>2. Len(forwarding) = 1
    <2>1. PICK n \in Nat \ {0} : n = Len(forwarding)
      BY <1>1, EmptySeq
    <2>2. n <= 1
      BY <1>1, <2>1
    <2>3. QED
      BY <2>1, <2>2
  <1>3. forwarding = <<forwarding[1]>> /\ forwarding[1] \in Actionable
    BY <1>1, <1>2
  <1>4. Hints(<<forwarding[1]>>) = {forwarding[1]} \ {0}
    BY <1>1, <1>3, OneHint
  <1>5. QED
    BY <1>1, <1>3, <1>4

(* The forwarder takes the oldest hint of its queue. *)
LEMMA ForwarderTakesStep ==
  ASSUME FeedsInv, ForwarderTakes
  PROVE  FeedsInv'
  <1>1. /\ FeedsTypeOK /\ StreamInv /\ LineFlows /\ mev_queue \in Seq(Nat)
        /\ Actionable \subseteq Nat \ {0}
    BY FeedsFacts
  <1>2. /\ forwarding = <<>> /\ mev_queue # <<>>
        /\ forwarding' = <<Head(mev_queue)>> /\ mev_queue' = Tail(mev_queue)
        /\ UNCHANGED <<running, sent, wire, read, sse, buffer, pending, opportunities, lost, taken>>
    BY DEF ForwarderTakes, streamVars, scannerVars
  <1>3. /\ Head(mev_queue) \in Actionable /\ mev_queue' \in Seq(Actionable)
        /\ Len(mev_queue') = Len(mev_queue) - 1 /\ Len(mev_queue) \in Nat /\ MevQueueSize \in Nat
    <2>1. mev_queue \in Seq(Actionable)
      BY <1>1 DEF FeedsTypeOK
    <2>2. QED
      BY <1>2, <2>1, HeadTailProperties, LenProperties, FeedsAssumption
  <1>4. FeedsTypeOK'
    <2>1. forwarding' \in Seq(Actionable) /\ Len(forwarding') = 1
      BY <1>2, <1>3
    <2>2. QED
      BY <1>1, <1>2, <1>3, <2>1 DEF FeedsTypeOK
  <1>5. StreamInv'
    BY <1>1, <1>2 DEF StreamInv
  <1> DEFINE h == Head(mev_queue)
  <1>6. /\ Hints(mev_queue) = {h} \cup Hints(mev_queue')
        /\ Rises(mev_queue) <=> Rises(mev_queue') /\ Below({h}, Hints(mev_queue'))
        /\ Hints(forwarding') = {h} /\ Rises(forwarding') /\ Hints(forwarding) = {}
    <2>1. {h} \ {0} = {h} /\ h \in Nat
      BY <1>1, <1>3
    <2>2. /\ Hints(mev_queue) = ({h} \ {0}) \cup Hints(Tail(mev_queue))
          /\ Rises(mev_queue) <=> Rises(Tail(mev_queue)) /\ Below({h} \ {0}, Hints(Tail(mev_queue)))
      BY <1>1, <1>2, TailHints
    <2>3. Hints(<<h>>) = {h} \ {0} /\ Rises(<<h>>)
      BY <2>1, OneHint
    <2>4. QED
      BY <1>2, <2>1, <2>2, <2>3, NoHints
  <1> HIDE DEF h
  <1>7. LineFlows'
    BY <1>1, <1>2, <1>6 DEF LineFlows, Flows, Kept, Below
  <1>8. QED
    BY <1>4, <1>5, <1>7, FlowsNext

(* The hint goes into the channel, or is dropped: it is above all others   *)
(* before it and below all others after it.                                *)
LEMMA ForwardStep ==
  ASSUME FeedsInv, Forward
  PROVE  FeedsInv'
  <1> DEFINE h == forwarding[1]
  <1>1. /\ FeedsTypeOK /\ StreamInv /\ LineFlows /\ opportunities \in Seq(Opportunity)
        /\ QueuedOf(opportunities) \in Seq(Nat) /\ Actionable \subseteq Nat \ {0}
    BY FeedsFacts
  <1>2. /\ forwarding # <<>> /\ forwarding' = <<>>
        /\ IF Fits(opportunities, forwarding, ChannelSize)
           THEN opportunities' = Append(opportunities, FromHint(h)) /\ UNCHANGED lost
           ELSE lost' = lost \cup Range(forwarding) /\ UNCHANGED opportunities
        /\ UNCHANGED <<running, sent, wire, read, sse, buffer, mev_queue, pending, taken>>
    BY DEF Forward, streamVars, scannerVars
  <1>3. h \in Actionable /\ h \in Nat \ {0} /\ Hints(forwarding) = {h} /\ Range(forwarding) = {h}
    <2>1. forwarding = <<h>> /\ h \in Actionable /\ Hints(forwarding) = {h}
      BY <1>2, ForwardingFacts
    <2>2. DOMAIN <<h>> = 1 .. 1 /\ <<h>>[1] = h
      OBVIOUS
    <2> HIDE DEF h
    <2>3. Range(<<h>>) = {h}
      BY <2>2 DEF Range
    <2>4. QED
      BY <1>1, <2>1, <2>3
  <1>4. /\ forwarding' \in Seq(Actionable) /\ Len(forwarding') = 0
        /\ Hints(forwarding') = {} /\ Rises(forwarding')
    BY <1>2, NoHints
  <1> HIDE DEF h
  <1>5. CASE Len(opportunities) < ChannelSize
    <2>1. opportunities' = Append(opportunities, FromHint(h)) /\ lost' = lost
      BY <1>2, <1>5 DEF Fits
    <2>2. FromHint(h) \in Opportunity /\ HintIn(FromHint(h)) = h
      BY <1>3 DEF FromHint, Opportunity, HintIn, IsHint
    <2>3. FeedsTypeOK'
      <3>1. opportunities' \in Seq(Opportunity) /\ Len(opportunities') = Len(opportunities) + 1
        BY <1>1, <2>1, <2>2, AppendProperties
      <3>2. Len(opportunities) \in Nat /\ ChannelSize \in Nat
        BY <1>1, QueuedFacts, FeedsAssumption
      <3>3. QED
        BY <1>1, <1>2, <1>4, <1>5, <2>1, <3>1, <3>2 DEF FeedsTypeOK, Opportunity
    <2>4. StreamInv'
      BY <1>1, <1>2, <2>1 DEF StreamInv
    <2>5. /\ Hints(QueuedOf(opportunities')) = Hints(QueuedOf(opportunities)) \cup {h}
          /\ Rises(QueuedOf(opportunities')) <=>
                Rises(QueuedOf(opportunities)) /\ Below(Hints(QueuedOf(opportunities)), {h})
      <3>1. QueuedOf(opportunities') = Append(QueuedOf(opportunities), h) /\ {h} \ {0} = {h}
        BY <1>1, <1>3, <2>1, <2>2, QueuedAppends
      <3>2. /\ Hints(Append(QueuedOf(opportunities), h)) =
                  Hints(QueuedOf(opportunities)) \cup ({h} \ {0})
            /\ Rises(Append(QueuedOf(opportunities), h)) <=>
                  Rises(QueuedOf(opportunities)) /\ Below(Hints(QueuedOf(opportunities)), {h} \ {0})
        BY <1>1, <1>3, AppendHints
      <3>3. QED
        BY <3>1, <3>2
    <2>6. LineFlows'
      BY <1>1, <1>2, <1>3, <1>4, <2>1, <2>5 DEF LineFlows, Flows, Kept, Below
    <2>7. QED
      BY <2>3, <2>4, <2>6, FlowsNext
  <1>6. CASE ~(Len(opportunities) < ChannelSize)
    <2>1. opportunities' = opportunities /\ lost' = lost \cup {h}
      BY <1>2, <1>3, <1>6 DEF Fits
    <2>2. h \in read
      BY <1>3, KeptIsRead
    <2>3. FeedsTypeOK'
      BY <1>1, <1>2, <1>3, <1>4, <2>1 DEF FeedsTypeOK
    <2>4. StreamInv'
      BY <1>1, <1>2, <2>1, <2>2 DEF StreamInv
    <2>5. Kept' = Kept \ {h}
      BY <1>2, <2>1 DEF Kept
    <2>6. /\ \A a \in Hints(taken) \cup Hints(QueuedOf(opportunities)) : a < h
          /\ \A b \in Hints(mev_queue) \cup Hints(EndsOf(buffer)) : h < b
      BY <1>1, <1>3 DEF LineFlows, Flows, Below
    <2>7. h \notin Hints(taken) \cup Hints(QueuedOf(opportunities)) \cup Hints(mev_queue)
                      \cup Hints(EndsOf(buffer))
      BY <1>3, <2>6
    <2>8. Hints(taken) \cup Hints(QueuedOf(opportunities)) \cup Hints(forwarding')
             \cup Hints(mev_queue) \cup Hints(EndsOf(buffer)) = Kept'
      BY <1>1, <1>3, <1>4, <2>5, <2>7 DEF LineFlows, Flows
    <2>9. LineFlows'
      BY <1>1, <1>2, <1>3, <1>4, <2>1, <2>8 DEF LineFlows, Flows, Below
    <2>10. QED
      BY <2>3, <2>4, <2>9, FlowsNext
  <1>7. QED
    BY <1>5, <1>6

(* The main loop receives the first of the channel. *)
LEMMA ReceiveStep ==
  ASSUME FeedsInv, Receive
  PROVE  FeedsInv'
  <1> DEFINE o == Head(opportunities)
  <1>1. /\ FeedsTypeOK /\ StreamInv /\ LineFlows /\ opportunities \in Seq(Opportunity)
        /\ QueuedOf(opportunities) \in Seq(Nat) /\ Actionable \subseteq Nat \ {0}
        /\ taken \in Seq(Nat) /\ taken \in Seq(Actionable)
    BY FeedsFacts DEF FeedsTypeOK
  <1>2. /\ opportunities # <<>> /\ opportunities' = Tail(opportunities)
        /\ taken' = IF IsHint(o) THEN Append(taken, o.hint) ELSE taken
        /\ UNCHANGED <<running, sent, wire, read, sse, buffer, mev_queue, forwarding, pending, lost>>
    BY DEF Receive, streamVars, scannerVars
  <1>3. /\ o \in Opportunity /\ opportunities' \in Seq(Opportunity)
        /\ QueuedOf(opportunities) # <<>> /\ Head(QueuedOf(opportunities)) = HintIn(o)
        /\ Tail(QueuedOf(opportunities)) = QueuedOf(opportunities')
    BY <1>1, <1>2, QueuedFollows
  <1>4. /\ HintIn(o) \in Nat
        /\ Hints(QueuedOf(opportunities)) = ({HintIn(o)} \ {0}) \cup Hints(QueuedOf(opportunities'))
        /\ Rises(QueuedOf(opportunities)) <=>
              /\ Rises(QueuedOf(opportunities'))
              /\ Below({HintIn(o)} \ {0}, Hints(QueuedOf(opportunities')))
    BY <1>1, <1>3, TailHints
  <1> HIDE DEF o
  <1>5. (IsHint(o) => HintIn(o) = o.hint /\ o.hint \in Actionable) /\ (~IsHint(o) => HintIn(o) = 0)
    BY <1>3, HintInFacts
  <1>6. /\ Hints(taken') = Hints(taken) \cup ({HintIn(o)} \ {0})
        /\ Rises(taken') <=> Rises(taken) /\ Below(Hints(taken), {HintIn(o)} \ {0})
        /\ taken' \in Seq(Actionable)
    <2>1. CASE IsHint(o)
      <3>1. taken' = Append(taken, HintIn(o)) /\ HintIn(o) \in Actionable
        BY <1>2, <1>5, <2>1
      <3>2. taken' \in Seq(Actionable)
        BY <1>1, <3>1, AppendProperties
      <3>3. QED
        BY <1>1, <1>4, <3>1, <3>2, AppendHints
    <2>2. CASE ~IsHint(o)
      BY <1>1, <1>2, <1>5, <2>2 DEF Below
    <2>3. QED
      BY <2>1, <2>2
  <1>7. FeedsTypeOK'
    <2>1. Len(opportunities') = Len(opportunities) - 1 /\ Len(opportunities) \in Nat
          /\ ChannelSize \in Nat
      BY <1>1, <1>2, HeadTailProperties, QueuedFacts, FeedsAssumption
    <2>2. QED
      BY <1>1, <1>2, <1>3, <1>6, <2>1 DEF FeedsTypeOK, Opportunity
  <1>8. StreamInv'
    BY <1>1, <1>2 DEF StreamInv
  <1> DEFINE x == {HintIn(o)} \ {0}
  <1>9. /\ Hints(QueuedOf(opportunities)) = x \cup Hints(QueuedOf(opportunities'))
        /\ Rises(QueuedOf(opportunities)) <=>
              Rises(QueuedOf(opportunities')) /\ Below(x, Hints(QueuedOf(opportunities')))
        /\ Hints(taken') = Hints(taken) \cup x
        /\ Rises(taken') <=> Rises(taken) /\ Below(Hints(taken), x)
    BY <1>4, <1>6
  <1> HIDE DEF x
  <1>10. LineFlows'
    <2>1. Hints(taken') \cup Hints(QueuedOf(opportunities')) =
             Hints(taken) \cup Hints(QueuedOf(opportunities))
      BY <1>9
    <2>2. /\ Rises(taken') /\ Rises(QueuedOf(opportunities'))
          /\ Below(Hints(taken'), Hints(QueuedOf(opportunities')))
      BY <1>1, <1>9 DEF LineFlows, Flows, Below
    <2>3. QED
      BY <1>1, <1>2, <2>1, <2>2 DEF LineFlows, Flows, Kept
  <1>11. QED
    BY <1>7, <1>8, <1>10, FlowsNext

-----------------------------------------------------------------------------
(* Feeds: the mempool scanner *)

(* What the mempool scanner sends is no hint. *)
LEMMA DecodeStep ==
  ASSUME FeedsInv, DecodeAndSend
  PROVE  FeedsInv'
  <1> DEFINE o == decode(Encode(pending))
  <1>1. /\ FeedsTypeOK /\ StreamInv /\ LineFlows /\ opportunities \in Seq(Opportunity)
        /\ QueuedOf(opportunities) \in Seq(Nat)
    BY FeedsFacts
  <1>2. /\ pending \in Calls /\ pending' = NoCall
        /\ opportunities' = IF o.is_actionable /\ Len(opportunities) < ChannelSize
                            THEN Append(opportunities, o) ELSE opportunities
        /\ UNCHANGED <<running, sent, wire, read, sse, buffer, mev_queue, forwarding, lost, taken>>
    BY <1>1 DEF DecodeAndSend, FeedsTypeOK, streamVars, scannerVars
  <1>3. o \in Opportunity /\ ~IsHint(o)
    BY <1>2, DecodedIsNoHint DEF Opportunity
  <1> HIDE DEF o
  <1>4. HintIn(o) = 0
    BY <1>3 DEF HintIn
  <1>5. StreamInv'
    BY <1>1, <1>2 DEF StreamInv
  <1>6. CASE opportunities' = opportunities
    <2>1. FeedsTypeOK' /\ LineFlows'
      BY <1>1, <1>2, <1>6 DEF FeedsTypeOK, LineFlows, Kept
    <2>2. QED
      BY <1>5, <2>1, FlowsNext
  <1>7. CASE opportunities' = Append(opportunities, o) /\ Len(opportunities) < ChannelSize
    <2>1. FeedsTypeOK'
      <3>1. opportunities' \in Seq(Opportunity) /\ Len(opportunities') = Len(opportunities) + 1
        BY <1>1, <1>3, <1>7, AppendProperties
      <3>2. Len(opportunities) \in Nat /\ ChannelSize \in Nat
        BY <1>1, QueuedFacts, FeedsAssumption
      <3>3. QED
        BY <1>1, <1>2, <1>7, <3>1, <3>2 DEF FeedsTypeOK, Opportunity
    <2>2. /\ Hints(QueuedOf(opportunities')) = Hints(QueuedOf(opportunities))
          /\ Rises(QueuedOf(opportunities')) <=> Rises(QueuedOf(opportunities))
      <3>1. QueuedOf(opportunities') = Append(QueuedOf(opportunities), 0) /\ {0} \ {0} = {}
        BY <1>1, <1>3, <1>4, <1>7, QueuedAppends
      <3>2. /\ Hints(Append(QueuedOf(opportunities), 0)) =
                  Hints(QueuedOf(opportunities)) \cup ({0} \ {0})
            /\ Rises(Append(QueuedOf(opportunities), 0)) <=>
                  Rises(QueuedOf(opportunities)) /\ Below(Hints(QueuedOf(opportunities)), {0} \ {0})
        BY <1>1, AppendHints
      <3>3. Below(Hints(QueuedOf(opportunities)), {})
        BY DEF Below
      <3>4. QED
        BY <3>1, <3>2, <3>3
    <2>3. LineFlows'
      BY <1>1, <1>2, <2>2 DEF LineFlows, Flows, Kept
    <2>4. QED
      BY <1>5, <2>1, <2>3, FlowsNext
  <1>8. QED
    BY <1>2, <1>6, <1>7

(* A pending call is announced, or ends the process. *)
LEMMA AnnounceStep ==
  ASSUME FeedsInv, DecodePanics \/ \E call \in Calls : AnnounceCall(call)
  PROVE  FeedsInv'
  BY DEF DecodePanics, FeedsInv, AnnounceCall, FeedsTypeOK, StreamInv, HintsFlow, Line, Queued, Ends, streamVars,
     scannerVars

(* Nothing is sent, read or held. *)
LEMMA FeedsInitInv ==
  ASSUME FeedsInit
  PROVE  FeedsInv
  <1>1. /\ sent = 0 /\ wire = <<>> /\ buffer = <<>> /\ opportunities = <<>> /\ taken = <<>>
        /\ forwarding = <<>> /\ mev_queue = <<>> /\ read = {} /\ lost = {} /\ pending = NoCall
        /\ sse = "connect" /\ running = TRUE
    BY DEF FeedsInit
  <1>2. FeedsTypeOK
    BY <1>1, FeedsAssumption DEF FeedsTypeOK
  <1>3. StreamInv
    BY <1>1 DEF StreamInv
  <1>4. Line = <<>>
    <2>1. Queued = <<>> /\ Ends = <<>>
      BY <1>1 DEF Queued, Ends
    <2>2. <<>> \o <<>> = <<>>
      OBVIOUS
    <2>3. QED
      BY <1>1, <2>1, <2>2 DEF Line
  <1>5. HintsFlow
    BY <1>1, <1>4, NoHints DEF HintsFlow
  <1>6. QED
    BY <1>2, <1>3, <1>5 DEF FeedsInv

(* Every step keeps the invariant. *)
LEMMA FeedsStep == FeedsInv /\ [FeedsNext]_feedsVars => FeedsInv'
  <1> SUFFICES ASSUME FeedsInv, [FeedsNext]_feedsVars PROVE FeedsInv'
    OBVIOUS
  <1>1. CASE Connect \/ SseFails \/ Reconnect \/ SseEnds
    BY <1>1, ConnectStep, SseFailsStep, SseEndsStep
  <1>2. CASE ReadChunk \/ CutEvent \/ Emit
    BY <1>2, ReadChunkStep, CutEventStep, EmitStep
  <1>3. CASE ForwarderTakes \/ Forward \/ Receive
    BY <1>3, ForwarderTakesStep, ForwardStep, ReceiveStep
  <1>4. CASE DecodeAndSend
    BY <1>4, DecodeStep
  <1>5. CASE DecodePanics \/ \E call \in Calls : AnnounceCall(call)
    BY <1>5, AnnounceStep
  <1>6. CASE Halted \/ UNCHANGED feedsVars
    BY <1>6 DEF Halted, feedsVars, streamVars, scannerVars, FeedsInv, FeedsTypeOK, StreamInv, HintsFlow,
       Line, Queued, Ends
  <1>7. QED
    BY <1>1, <1>2, <1>3, <1>4, <1>5, <1>6 DEF FeedsNext

(* So every reachable state satisfies it. *)
LEMMA FeedsInvariance == FeedsSpec => []FeedsInv
  BY FeedsInitInv, FeedsStep, PTL DEF FeedsSpec

(* The types of all variables of the feeds: the queues never hold more     *)
(* than they should.                                                       *)
THEOREM FeedsTypesCorrect == FeedsSpec => []FeedsTypeOK
  <1>1. FeedsInv => FeedsTypeOK
    BY DEF FeedsInv
  <1>2. QED
    BY <1>1, FeedsInvariance, PTL

(* However the chunks cut the stream and however often it breaks, every    *)
(* actionable hint that was wholly read goes through the pipeline once, in *)
(* the order it was sent, unless a full channel drops it; and nothing else *)
(* does.                                                                   *)
THEOREM HintsGoThrough == FeedsSpec => []HintsFlow
  <1>1. FeedsInv => HintsFlow
    BY DEF FeedsInv
  <1>2. QED
    BY <1>1, FeedsInvariance, PTL

(* Of the swaps of an exact amount of tokens through pairs, along whatever *)
(* path, whose amount in 18 decimals fits a u128, none makes the decoder   *)
(* panic, and the mempool scanner sends exactly those that trigger (while  *)
(* there is room), with the ends of their paths and their amounts.  The    *)
(* product that scales an amount of that size does not wrap either.        *)
THEOREM PairTriggersAreSent == FeedsSpec => PairSwapsTrigger
  <1> DEFINE Names == {"swapExactTokensForTokens", "swapExactTokensForETH"}
  <1>1. ASSUME FeedsInv, FeedsNext, Decoded(Names),
               SizeIn18(pending) \in 0 .. U128 - 1
        PROVE  running' /\ TriggerSent
    <2>1. pending # NoCall /\ pending' = NoCall /\ pending.selector \in Names /\ pending \in Calls
      BY <1>1 DEF Decoded, FeedsInv, FeedsTypeOK
    <2>2. /\ decode(Encode(pending)) # Panic
          /\ decode(Encode(pending)).is_actionable <=> Triggers(pending)
          /\ Triggers(pending) =>
                decode(Encode(pending)) =
                    [token_in |-> Head(pending.path), token_out |-> Last(pending.path),
                     amount_in |-> pending.amount, min_amount_out |-> pending.limit,
                     is_actionable |-> TRUE]
      BY <1>1, <2>1, TriggersSeen
    <2>3. DecodeAndSend
      BY <1>1, <2>1, <2>2 DEF FeedsNext, Connect, SseFails, Reconnect, ReadChunk, CutEvent,
         ForwarderTakes, Forward, Receive, Emit, SseEnds, AnnounceCall, DecodePanics, Halted,
         feedsVars
    <2>4. /\ running'
          /\ opportunities' =
                IF decode(Encode(pending)).is_actionable /\ Len(opportunities) < ChannelSize
                THEN Append(opportunities, decode(Encode(pending))) ELSE opportunities
      BY <2>3 DEF DecodeAndSend
    <2>5. CASE Triggers(pending)
      BY <2>2, <2>4, <2>5 DEF TriggerSent
    <2>6. CASE ~Triggers(pending)
      BY <2>2, <2>4, <2>6 DEF TriggerSent
    <2>7. QED
      BY <2>4, <2>5, <2>6
  <1>2. FeedsInv /\ [FeedsNext]_feedsVars
           => [Decoded(Names) /\ SizeIn18(pending) \in 0 .. U128 - 1
                  => running' /\ TriggerSent]_feedsVars
    BY <1>1
  <1>3. QED
    BY <1>2, FeedsInvariance, PTL DEF FeedsSpec, PairSwapsTrigger

=============================================================================
