------------------------- MODULE TransportPoolProofs -------------------------
(***************************************************************************)
(* Proofs about TransportPool, for any number of requests, hosts and any   *)
(* limits: the counters and the queues first, then that every connection   *)
(* of the pool is in one hand, then that the pool loses no open connection *)
(* when no idle timeout is configured.                                     *)
(***************************************************************************)
EXTENDS TransportPool, SeqLemmas

----------------------------------------------------------------------------
(* Queues of wantConns                                                     *)

\* FirstIn finds the first member of S, and 0 only if there is none.
LEMMA FirstInProperty ==
  ASSUME NEW X, NEW q \in Seq(X), NEW S
  PROVE  /\ FirstIn(q, S) \in 0 .. Len(q)
         /\ FirstIn(q, S) = 0 => \A i \in 1 .. Len(q) : q[i] \notin S
         /\ FirstIn(q, S) # 0 => q[FirstIn(q, S)] \in S
<1>. DEFINE I == {i \in 1 .. Len(q) : q[i] \in S}
<1>1. FirstIn(q, S) = IF I # {} THEN Min(I) ELSE 0
  BY Zenon DEF FirstIn, SelectInSeq
<1>2. I \subseteq Nat
  OBVIOUS
<1>3. CASE I = {}
  BY <1>1, <1>3
<1>4. CASE I # {}
  <2>1. Min(I) \in I
    <3>. HIDE DEF I
    <3>. QED  BY <1>2, <1>4, MinOfNats, Zenon
  <2>2. Min(I) \in 1 .. Len(q) /\ q[Min(I)] \in S
    BY <2>1, Zenon
  <2>. HIDE DEF I
  <2>. QED  BY <1>1, <1>4, <2>2
<1>. QED  BY <1>3, <1>4, Zenon

\* popFront keeps elements of the queue only.
LEMMA AfterProperty ==
  ASSUME NEW X, NEW q \in Seq(X), NEW i \in 0 .. Len(q)
  PROVE  /\ After(q, i) \in Seq(X)
         /\ \A j \in 1 .. Len(After(q, i)) : \E m \in 1 .. Len(q) : After(q, i)[j] = q[m]
<1>1. After(q, i) \in Seq(X) /\ Len(After(q, i)) = Len(q) - i
  BY DEF After
<1>2. \A j \in 1 .. Len(After(q, i)) : After(q, i)[j] = q[j + i] /\ j + i \in 1 .. Len(q)
  BY <1>1 DEF After
<1>. QED  BY <1>1, <1>2

\* cleanFront and pushBack(w) keep elements of the queue, and add w.
LEMMA EnqueueProperty ==
  ASSUME NEW q \in Seq(Wants), NEW w \in Wants
  PROVE  /\ Enqueue(q, w) \in Seq(Wants)
         /\ \A j \in 1 .. Len(Enqueue(q, w)) :
               Enqueue(q, w)[j] = w \/ \E m \in 1 .. Len(q) : Enqueue(q, w)[j] = q[m]
<1>. DEFINE i == FirstIn(q, Waiters)
<1>1. i \in 0 .. Len(q)
  BY FirstInProperty
<1>2. CASE i = 0
  BY <1>2 DEF Enqueue
<1>3. CASE i # 0
  <2>1. i \in 1 .. Len(q)
    BY <1>1, <1>3
  <2>2. Enqueue(q, w) = Append(SubSeq(q, i, Len(q)), w)
    BY <1>3 DEF Enqueue
  <2>. HIDE DEF i
  <2>. QED  BY <2>1, <2>2, SuffixAppend
<1>. QED  BY <1>2, <1>3

----------------------------------------------------------------------------
(* Type correctness                                                        *)

\* decConnsPerHost keeps the types of the variables it assigns.
LEMMA decConnsPerHostType ==
  ASSUME TypeOK, NEW k \in Keys, NEW S \in SUBSET Wants,
         NEW d \in [Wants -> DialStates],
         decConnsPerHost(k, d, S)
  PROVE  /\ dial' \in [Wants -> DialStates]
         /\ connsPerHost' \in [Keys -> Nat]
         /\ connsPerHostWait' \in [Keys -> Seq(Wants)]
         /\ panicked' \in BOOLEAN
<1>. DEFINE q == connsPerHostWait[k]
            i == FirstIn(q, S)
<1>1. q \in Seq(Wants)
  BY DEF TypeOK
<1>2. i \in 0 .. Len(q) /\ (i # 0 => q[i] \in S)
  BY <1>1, FirstInProperty
<1>3. After(q, i) \in Seq(Wants)
  BY <1>1, <1>2, AfterProperty
<1>4. i # 0 => [d EXCEPT ![q[i]] = "go"] \in [Wants -> DialStates]
  BY <1>2 DEF DialStates
<1>. HIDE DEF q, i
<1>5. \/ MaxConnsPerHost <= 0 /\ dial' = d /\ UNCHANGED limitVars
      \/ panicked' = TRUE /\ dial' = d /\ UNCHANGED <<connsPerHost, connsPerHostWait>>
      \/ /\ i # 0
         /\ dial' = [d EXCEPT ![q[i]] = "go"]
         /\ connsPerHostWait' = [connsPerHostWait EXCEPT ![k] = After(q, i)]
         /\ UNCHANGED <<connsPerHost, panicked>>
      \/ /\ connsPerHost[k] > 0
         /\ dial' = d
         /\ connsPerHostWait' = [connsPerHostWait EXCEPT ![k] = <<>>]
         /\ connsPerHost' = [connsPerHost EXCEPT ![k] = @ - 1]
         /\ UNCHANGED panicked
  BY Zenon DEF decConnsPerHost, q, i
<1>6. /\ connsPerHost \in [Keys -> Nat]
      /\ connsPerHostWait \in [Keys -> Seq(Wants)]
      /\ panicked \in BOOLEAN
  BY DEF TypeOK
<1>7. [connsPerHostWait EXCEPT ![k] = <<>>] \in [Keys -> Seq(Wants)]
  BY <1>6
<1>8. connsPerHost[k] > 0 => [connsPerHost EXCEPT ![k] = @ - 1] \in [Keys -> Nat]
  BY <1>6
<1>9. [connsPerHostWait EXCEPT ![k] = After(q, i)] \in [Keys -> Seq(Wants)]
  BY <1>3, <1>6
<1>. QED  BY <1>4, <1>5, <1>6, <1>7, <1>8, <1>9, Zenon DEF limitVars

\* So does pc.close.
LEMMA closeLockedType ==
  ASSUME TypeOK, NEW c \in Wants, NEW S \in SUBSET Wants, closeLocked(c, S)
  PROVE  /\ dial' \in [Wants -> DialStates]
         /\ connsPerHost' \in [Keys -> Nat]
         /\ connsPerHostWait' \in [Keys -> Seq(Wants)]
         /\ panicked' \in BOOLEAN
         /\ conn' \in [Wants -> {"none", "open", "closed"}]
         /\ proto' = proto
         /\ reused' = reused
<1>1. dial \in [Wants -> DialStates] /\ key[c] \in Keys
  BY PoolAssumption DEF TypeOK
<1>2. CASE conn[c] = "open" /\ decConnsPerHost(key[c], dial, S)
  <2>1. conn' \in [Wants -> {"none", "open", "closed"}] /\ UNCHANGED <<proto, reused>>
    BY <1>2, ZenonT(60) DEF closeLocked, TypeOK
  <2>. QED  BY <1>1, <1>2, <2>1, decConnsPerHostType, Zenon
<1>3. CASE UNCHANGED <<conn, dial, limitVars>>
  BY <1>3 DEF closeLocked, TypeOK, limitVars
<1>. QED  BY <1>2, <1>3, Zenon DEF closeLocked

\* removeIdleConnLocked keeps the types of the variables it assigns.
LEMMA removeIdleConnLockedType ==
  ASSUME TypeOK, NEW c \in Wants, removeIdleConnLocked(c, idleConn, idleLRU)
  PROVE  /\ idleConn' \in [Keys -> Seq(Wants)]
         /\ idleLRU' \in Seq(Wants)
         /\ armed' \in SUBSET Wants
<1>1. key[c] \in Keys /\ idleConn[key[c]] \in Seq(Wants) /\ idleLRU \in Seq(Wants)
  BY PoolAssumption DEF TypeOK
<1>2. RemoveFirst(idleConn[key[c]], c) \in Seq(Wants) /\ RemoveFirst(idleLRU, c) \in Seq(Wants)
  BY <1>1, RemoveFirstType
<1>. QED  BY <1>1, <1>2 DEF removeIdleConnLocked, TypeOK

\* The walk over the idle conns ends at an open conn that is not too old.
LEMMA UsableProperty ==
  ASSUME NEW list \in Seq(Wants), NEW old \in 0 .. Len(list)
  PROVE  /\ Usable(list, old) \in 0 .. Len(list)
         /\ Usable(list, old) # 0 => conn[list[Usable(list, old)]] = "open"
<1>. DEFINE I == {i \in old + 1 .. Len(list) : conn[list[i]] = "open"}
<1>1. Usable(list, old) = IF I # {} THEN Max(I) ELSE 0
  BY Zenon DEF Usable, SelectLastInSubSeq
<1>2. CASE I # {}
  <2>1. I \subseteq 0 .. Len(list) /\ Len(list) \in Nat
    OBVIOUS
  <2>2. Max(I) \in I
    <3>. HIDE DEF I
    <3>. QED  BY <1>2, <2>1, MaxOfNats, Zenon
  <2>3. Max(I) \in 0 .. Len(list)
    BY <2>1, <2>2, Zenon
  <2>4. conn[list[Max(I)]] = "open"
    BY <2>2, Zenon
  <2>. QED  BY <1>1, <1>2, <2>3, <2>4, Zenon
<1>3. CASE I = {}
  BY <1>1, <1>3
<1>. QED  BY <1>2, <1>3, Zenon

\* Delivering an idle conn keeps the types.
LEMMA deliverIdleType ==
  ASSUME TypeOK, NEW c \in Wants, deliverIdle(c)
  PROVE  /\ wpc' \in [Wants -> Wants \cup {NoConn}]
         /\ idleConnWait' \in [Keys -> Seq(Wants)]
<1>. DEFINE q == idleConnWait[key[c]]
            i == FirstIn(q, Waiters)
<1>1. key[c] \in Keys /\ q \in Seq(Wants)
  BY PoolAssumption DEF TypeOK
<1>2. i \in 0 .. Len(q)
  BY <1>1, FirstInProperty
<1>3. After(q, i) \in Seq(Wants)
  BY <1>1, <1>2, AfterProperty
<1>4. wpc' \in [Wants -> Wants \cup {NoConn}]
  BY DEF deliverIdle, TypeOK
<1>5. idleConnWait' = [idleConnWait EXCEPT ![key[c]] = IF proto[c] = "h1" /\ i # 0 THEN After(q, i) ELSE <<>>]
  BY DEF deliverIdle
<1>. HIDE DEF q, i
<1>. QED  BY <1>1, <1>3, <1>4, <1>5 DEF TypeOK

\* Adding a conn to the pool keeps the types.
LEMMA addIdleType ==
  ASSUME TypeOK, NEW c \in Wants, addIdle(c)
  PROVE  /\ idleConn' \in [Keys -> Seq(Wants)]
         /\ idleLRU' \in Seq(Wants)
         /\ armed' \in SUBSET Wants
         /\ dial' \in [Wants -> DialStates]
         /\ connsPerHost' \in [Keys -> Nat]
         /\ connsPerHostWait' \in [Keys -> Seq(Wants)]
         /\ panicked' \in BOOLEAN
         /\ conn' \in [Wants -> {"none", "open", "closed"}]
         /\ proto' = proto
         /\ reused' = reused
<1>. DEFINE list == [idleConn EXCEPT ![key[c]] = Append(@, c)]
            lru == Append(idleLRU, c)
            timer == IF IdleConnTimeout /\ proto[c] = "h1" THEN {c} ELSE {}
            h == Head(lru)
            S == Waiters \ Recipients(c, idleConnWait[key[c]])
<1>1. /\ list \in [Keys -> Seq(Wants)]
      /\ lru \in Seq(Wants)
      /\ timer \subseteq Wants
      /\ S \in SUBSET Wants
  BY PoolAssumption DEF TypeOK, Waiters
<1>2. h \in Wants /\ Tail(lru) \in Seq(Wants)
  <2>1. lru # <<>>
    <3>1. idleLRU \in Seq(Wants)
      BY DEF TypeOK
    <3>. QED  BY <3>1, AppendProperties, Zenon
  <2>. HIDE DEF lru
  <2>. QED  BY <1>1, <2>1
<1>3. RemoveFirst(list[key[h]], h) \in Seq(Wants) /\ key[h] \in Keys
  <2>1. key[h] \in Keys
    BY <1>2, PoolAssumption
  <2>. HIDE DEF list
  <2>. QED  BY <1>1, <2>1, RemoveFirstType
<1>4. \/ /\ idleConn' = list
         /\ idleLRU' = lru
         /\ armed' = armed \cup timer
         /\ UNCHANGED <<connVars, dial, limitVars>>
      \/ /\ closeLocked(h, S)
         /\ idleConn' = [list EXCEPT ![key[h]] = RemoveFirst(@, h)]
         /\ idleLRU' = Tail(lru)
         /\ armed' = (armed \ {h}) \cup timer
  BY Zenon DEF addIdle
<1>. HIDE DEF list, lru, timer, h, S
<1>5. CASE /\ idleConn' = list
           /\ idleLRU' = lru
           /\ armed' = armed \cup timer
           /\ UNCHANGED <<connVars, dial, limitVars>>
  BY <1>1, <1>5 DEF TypeOK, connVars, limitVars
<1>6. CASE /\ closeLocked(h, S)
           /\ idleConn' = [list EXCEPT ![key[h]] = RemoveFirst(@, h)]
           /\ idleLRU' = Tail(lru)
           /\ armed' = (armed \ {h}) \cup timer
  <2>1. /\ idleConn' \in [Keys -> Seq(Wants)]
        /\ idleLRU' \in Seq(Wants)
        /\ armed' \in SUBSET Wants
    BY <1>1, <1>2, <1>3, <1>6 DEF TypeOK
  <2>. QED  BY <1>1, <1>2, <1>6, <2>1, closeLockedType, Zenon
<1>. QED  BY <1>4, <1>5, <1>6, Zenon

\* Every step keeps the types.
LEMMA TypeStep ==
  ASSUME TypeOK, [Next]_vars
  PROVE  TypeOK'
<1>. USE PoolAssumption DEF DialStates, idleVars, limitVars, wantVars, connVars
<1>1. ASSUME NEW w \in Wants, getConnReady(w)
      PROVE  TypeOK'
  <2>1. CASE wpc[w] # NoConn /\ req' = [req EXCEPT ![w] = "using"] /\ held' = [held EXCEPT ![w] = wpc[w]]
    BY <1>1, <2>1 DEF TypeOK, getConnReady
  <2>2. CASE req' = [req EXCEPT ![w] = "done"] /\ UNCHANGED held
    BY <1>1, <2>2 DEF TypeOK, getConnReady
  <2>. QED  BY <1>1, <2>1, <2>2, Zenon DEF getConnReady
<1>2. ASSUME NEW w \in Wants, getConnCanceled(w)
      PROVE  TypeOK'
  BY <1>2 DEF TypeOK, getConnCanceled, Waiting, Put, Putting
<1>3. ASSUME NEW w \in Wants, canceledBeforeRoundTrip(w)
      PROVE  TypeOK'
  <2>1. held[w] \in Wants
    BY <1>3 DEF TypeOK, canceledBeforeRoundTrip
  <2>2. puts' \in SUBSET Putting
    BY <1>3, <2>1 DEF TypeOK, canceledBeforeRoundTrip, Put, Putting
  <2>. QED  BY <1>3, <2>2 DEF TypeOK, canceledBeforeRoundTrip
<1>4. ASSUME NEW w \in Wants, answered(w)
      PROVE  TypeOK'
  <2>1. held[w] \in Wants
    BY <1>4 DEF TypeOK, answered
  <2>2. loop' \in [Wants -> {"none", "run", "put", "close", "remove", "exited"}]
    BY <1>4 DEF TypeOK, answered
  <2>3. puts' \in SUBSET Putting
    BY <1>4, <2>1 DEF TypeOK, answered, Put, Putting
  <2>. QED  BY <1>4, <2>1, <2>2, <2>3 DEF TypeOK, answered
<1>5. ASSUME NEW w \in Wants, dialBegins(w)
      PROVE  TypeOK'
  BY <1>5 DEF TypeOK, dialBegins, Waiting, Put, Putting
<1>6. ASSUME NEW w \in Wants, dialSucceeds(w)
      PROVE  TypeOK'
  <2>1. PICK p \in Protos :
          /\ proto' = [proto EXCEPT ![w] = p]
          /\ loop' = IF p = "h1" THEN [loop EXCEPT ![w] = "run"] ELSE loop
          /\ puts' = IF p = "h2" \/ ~Waiting(w) THEN puts \cup {Put("dial", w, w)} ELSE puts
    BY <1>6 DEF dialSucceeds
  <2>2. proto' \in [Wants -> {"h1", "h2"}]
    BY <2>1 DEF TypeOK
  <2>3. loop' \in [Wants -> {"none", "run", "put", "close", "remove", "exited"}]
    BY <2>1 DEF TypeOK
  <2>4. puts' \in SUBSET Putting
    BY <2>1 DEF TypeOK, Put, Putting
  <2>5. wpc' \in [Wants -> Wants \cup {NoConn}]
    BY <1>6 DEF TypeOK, dialSucceeds, Waiting
  <2>. QED  BY <1>6, <2>2, <2>3, <2>4, <2>5 DEF TypeOK, dialSucceeds
<1>7. ASSUME NEW w \in Wants, dialFails(w)
      PROVE  TypeOK'
  BY <1>7 DEF TypeOK, dialFails, Waiting, Put, Putting
<1>8. ASSUME NEW w \in Wants, timerFires(w)
      PROVE  TypeOK'
  BY <1>8 DEF TypeOK, timerFires, Waiting, Put, Putting
<1>9. ASSUME NEW w \in Wants, queueForIdleConn(w)
      PROVE  TypeOK'
  <2>. DEFINE list == idleConn[key[w]]
  <2>1. CASE UNCHANGED <<idleVars, wpc, held, lateClose>> /\ req' = [req EXCEPT ![w] = "dialq"]
    BY <1>9, <2>1 DEF TypeOK, queueForIdleConn
  <2>. HIDE DEF list
  <2>2. list \in Seq(Wants) /\ key[w] \in Keys /\ Len(list) \in Nat
    BY DEF TypeOK, list
  <2>3. ASSUME NEW old \in 0 .. Len(list), takeIdleConn(w, list, Usable(list, old)),
               closeIdle' = FALSE, UNCHANGED armed
        PROVE  TypeOK'
    <3>. DEFINE n == Usable(list, old)
    <3>1. n \in 1 .. Len(list)
      BY <2>2, <2>3, UsableProperty DEF takeIdleConn
    <3>. HIDE DEF n
    <3>2. list[n] \in Wants /\ SubSeq(list, 1, n - 1) \in Seq(Wants) /\ SubSeq(list, 1, n) \in Seq(Wants)
      BY <2>2, <3>1
    <3>3. RemoveFirst(idleLRU, list[n]) \in Seq(Wants)
      BY RemoveFirstType DEF TypeOK
    <3>4. /\ [idleConn EXCEPT ![key[w]] = SubSeq(list, 1, n - 1)] \in [Keys -> Seq(Wants)]
          /\ [idleConn EXCEPT ![key[w]] = SubSeq(list, 1, n)] \in [Keys -> Seq(Wants)]
      BY <2>2, <3>2 DEF TypeOK
    <3>5. /\ idleConn' \in [Keys -> Seq(Wants)]
          /\ idleLRU' \in Seq(Wants)
      <4>1. \/ /\ idleLRU' = RemoveFirst(idleLRU, list[n])
               /\ idleConn' = [idleConn EXCEPT ![key[w]] = SubSeq(list, 1, n - 1)]
            \/ /\ idleConn' = [idleConn EXCEPT ![key[w]] = SubSeq(list, 1, n)]
               /\ UNCHANGED idleLRU
        BY <2>3, Zenon DEF takeIdleConn, n
      <4>. QED  BY <3>3, <3>4, <4>1 DEF TypeOK
    <3>6. /\ wpc' = [wpc EXCEPT ![w] = list[n]]
          /\ held' = [held EXCEPT ![w] = list[n]]
          /\ req' = [req EXCEPT ![w] = "using"]
          /\ UNCHANGED <<idleConnWait, lateClose>>
      BY <2>3 DEF takeIdleConn, n
    <3>. QED  BY <1>9, <2>3, <3>2, <3>5, <3>6 DEF TypeOK, queueForIdleConn
  <2>4. ASSUME NEW old \in 0 .. Len(list), awaitIdleConn(w, list, old, Usable(list, old)),
               closeIdle' = FALSE, UNCHANGED armed
        PROVE  TypeOK'
    <3>1. Enqueue(idleConnWait[key[w]], w) \in Seq(Wants)
      BY <2>2, EnqueueProperty DEF TypeOK
    <3>2. {list[i] : i \in 1 .. old} \subseteq Wants
      BY <2>2, <2>4
    <3>3. /\ [idleConn EXCEPT ![key[w]] = <<>>] \in [Keys -> Seq(Wants)]
          /\ [idleConnWait EXCEPT ![key[w]] = Enqueue(@, w)] \in [Keys -> Seq(Wants)]
      BY <2>2, <3>1 DEF TypeOK
    <3>4. /\ idleConn' \in [Keys -> Seq(Wants)]
          /\ idleConnWait' \in [Keys -> Seq(Wants)]
          /\ lateClose' \in SUBSET Wants
          /\ req' = [req EXCEPT ![w] = "dialq"]
          /\ UNCHANGED <<idleLRU, wpc, held>>
      BY <2>4, <3>2, <3>3 DEF TypeOK, awaitIdleConn
    <3>. QED  BY <1>9, <2>4, <3>4 DEF TypeOK, queueForIdleConn
  <2>5. (IF IdleConnTimeout THEN 0 .. Len(list) ELSE {0}) \subseteq 0 .. Len(list)
    BY <2>2
  <2>. QED  BY <1>9, <2>1, <2>3, <2>4, <2>5, Zenon DEF queueForIdleConn, list
<1>10. ASSUME NEW w \in Wants, queueForDial(w)
       PROVE  TypeOK'
  <2>1. key[w] \in Keys /\ connsPerHost[key[w]] \in Nat
    BY DEF TypeOK
  <2>2. Enqueue(connsPerHostWait[key[w]], w) \in Seq(Wants)
    BY <2>1, EnqueueProperty DEF TypeOK
  <2>3. /\ [connsPerHost EXCEPT ![key[w]] = @ + 1] \in [Keys -> Nat]
        /\ [connsPerHostWait EXCEPT ![key[w]] = Enqueue(@, w)] \in [Keys -> Seq(Wants)]
        /\ [dial EXCEPT ![w] = "go"] \in [Wants -> DialStates]
    BY <2>1, <2>2 DEF TypeOK
  <2>4. /\ connsPerHost' \in [Keys -> Nat]
        /\ connsPerHostWait' \in [Keys -> Seq(Wants)]
        /\ dial' \in [Wants -> DialStates]
        /\ panicked' \in BOOLEAN
    <3>1. \/ dial' = [dial EXCEPT ![w] = "go"] /\ UNCHANGED limitVars
          \/ /\ connsPerHost' = [connsPerHost EXCEPT ![key[w]] = @ + 1]
             /\ dial' = [dial EXCEPT ![w] = "go"]
             /\ UNCHANGED <<connsPerHostWait, panicked>>
          \/ /\ connsPerHostWait' = [connsPerHostWait EXCEPT ![key[w]] = Enqueue(@, w)]
             /\ UNCHANGED <<connsPerHost, panicked, dial>>
      BY <1>10 DEF queueForDial
    <3>2. /\ connsPerHost \in [Keys -> Nat]
          /\ connsPerHostWait \in [Keys -> Seq(Wants)]
          /\ dial \in [Wants -> DialStates]
          /\ panicked \in BOOLEAN
      BY DEF TypeOK
    <3>. HIDE DEF DialStates
    <3>. QED  BY <2>3, <3>1, <3>2, Zenon DEF limitVars
  <2>. QED  BY <1>10, <2>4, ZenonT(60) DEF queueForDial, TypeOK
<1>11. ASSUME NEW w \in Wants, roundTripFailed(w)
       PROVE  TypeOK'
  <2>1. held[w] \in Wants /\ Waiters \in SUBSET Wants
    BY <1>11 DEF TypeOK, roundTripFailed, Waiters
  <2>2. CASE closeLocked(held[w], Waiters)
    <3>. HIDE DEF DialStates
    <3>. QED  BY <1>11, <2>1, <2>2, closeLockedType, ZenonT(60) DEF TypeOK, roundTripFailed
  <2>3. CASE UNCHANGED <<connVars, dial, limitVars>>
    BY <1>11, <2>3 DEF TypeOK, roundTripFailed
  <2>. QED  BY <1>11, <2>2, <2>3, Zenon DEF roundTripFailed
<1>12. ASSUME NEW w \in Wants, noCachedConn(w)
       PROVE  TypeOK'
  <2>1. held[w] \in Wants
    BY <1>12 DEF TypeOK, noCachedConn
  <2>2. /\ idleConn' \in [Keys -> Seq(Wants)]
        /\ idleLRU' \in Seq(Wants)
        /\ armed' \in SUBSET Wants
    BY <1>12, <2>1, removeIdleConnLockedType, Zenon DEF noCachedConn
  <2>. QED  BY <1>12, <2>1, <2>2 DEF TypeOK, noCachedConn
<1>13. ASSUME NEW w \in Wants, noCachedConnDec(w)
       PROVE  TypeOK'
  <2>1. held[w] \in Wants /\ key[held[w]] \in Keys /\ Waiters \in SUBSET Wants
        /\ dial \in [Wants -> DialStates]
    BY <1>13 DEF TypeOK, noCachedConnDec, Waiters
  <2>. HIDE DEF DialStates
  <2>. QED  BY <1>13, <2>1, decConnsPerHostType DEF TypeOK, noCachedConnDec
<1>14. ASSUME NEW w \in Wants, dialGivesUp(w)
       PROVE  TypeOK'
  <2>1. key[w] \in Keys /\ Waiters \in SUBSET Wants
        /\ [dial EXCEPT ![w] = "done"] \in [Wants -> DialStates]
    BY DEF TypeOK, Waiters
  <2>. HIDE DEF DialStates
  <2>. QED  BY <1>14, <2>1, decConnsPerHostType DEF TypeOK, dialGivesUp
<1>15. ASSUME NEW c \in Wants, readLoopCloses(c)
       PROVE  TypeOK'
  <2>1. Waiters \in SUBSET Wants
    BY DEF Waiters
  <2>2. loop' \in [Wants -> {"none", "run", "put", "close", "remove", "exited"}]
    BY <1>15 DEF TypeOK, readLoopCloses
  <2>. HIDE DEF DialStates
  <2>. QED  BY <1>15, <2>1, <2>2, closeLockedType, ZenonT(60) DEF TypeOK, readLoopCloses
<1>16. ASSUME NEW c \in Wants, readLoopExits(c)
       PROVE  TypeOK'
  <2>1. /\ idleConn' \in [Keys -> Seq(Wants)]
        /\ idleLRU' \in Seq(Wants)
        /\ armed' \in SUBSET Wants
    BY <1>16, removeIdleConnLockedType, Zenon DEF readLoopExits
  <2>. QED  BY <1>16, <2>1 DEF TypeOK, readLoopExits
<1>17. ASSUME NEW c \in Wants, closeConnIfStillIdle(c)
       PROVE  TypeOK'
  <2>1. Waiters \in SUBSET Wants
    BY DEF Waiters
  <2>2. CASE removeIdleConnLocked(c, idleConn, idleLRU) /\ closeLocked(c, Waiters)
    <3>. HIDE DEF DialStates
    <3>1. /\ idleConn' \in [Keys -> Seq(Wants)]
          /\ idleLRU' \in Seq(Wants)
          /\ armed' \in SUBSET Wants
      BY <2>2, removeIdleConnLockedType, Zenon
    <3>. QED  BY <1>17, <2>1, <2>2, <3>1, closeLockedType DEF TypeOK, closeConnIfStillIdle
  <2>3. CASE UNCHANGED <<idleConn, idleLRU, armed, connVars, dial, limitVars>>
    BY <1>17, <2>3 DEF TypeOK, closeConnIfStillIdle
  <2>. QED  BY <1>17, <2>2, <2>3, Zenon DEF closeConnIfStillIdle
<1>18. ASSUME NEW c \in Wants, closeIdleConn(c)
       PROVE  TypeOK'
  <2>1. Waiters \in SUBSET Wants
    BY DEF Waiters
  <2>. HIDE DEF DialStates
  <2>. QED  BY <1>18, <2>1, closeLockedType DEF TypeOK, closeIdleConn
<1>19. CASE CloseIdleConnections
  <2>1. \A k \in Keys : ToSet(idleConn[k]) \subseteq Wants
    BY DEF ToSet, TypeOK
  <2>2. UNION {ToSet(idleConn[k]) : k \in Keys} \subseteq Wants
    BY <2>1
  <2>. QED  BY <1>19, <2>2 DEF TypeOK, CloseIdleConnections
<1>20. ASSUME NEW p \in puts, tryPutCheck(p)
       PROVE  TypeOK'
  <2>1. p \in Putting
    BY DEF TypeOK
  <2>2. [p EXCEPT !.at = "lock"] \in Putting /\ [p EXCEPT !.at = "close"] \in Putting /\ p.conn \in Wants
    BY <2>1 DEF Putting
  <2>3. /\ puts' \in SUBSET Putting
        /\ reused' \in SUBSET Wants
        /\ UNCHANGED loop
    BY <1>20, <2>2 DEF TypeOK, tryPutCheck, PutRefused
  <2>. QED  BY <1>20, <2>3 DEF TypeOK, tryPutCheck
<1>21. ASSUME NEW p \in puts, putClose(p)
       PROVE  TypeOK'
  <2>1. p.conn \in Wants /\ Waiters \in SUBSET Wants
    BY DEF TypeOK, Putting, Waiters
  <2>2. /\ loop' \in [Wants -> {"none", "run", "put", "close", "remove", "exited"}]
        /\ puts' \in SUBSET Putting
    BY <1>21, <2>1 DEF TypeOK, putClose
  <2>. HIDE DEF DialStates
  <2>. QED  BY <1>21, <2>1, <2>2, closeLockedType DEF TypeOK, putClose
<1>22. ASSUME NEW p \in puts, tryPutIdleConn(p)
       PROVE  TypeOK'
  <2>. DEFINE c == p.conn
              lru == Append(idleLRU, c)
  <2>1. c \in Wants /\ key[c] \in Keys /\ p \in Putting
    BY DEF TypeOK, Putting
  <2>2. /\ loop' \in [Wants -> {"none", "run", "put", "close", "remove", "exited"}]
        /\ puts' \in SUBSET Putting
    <3>1. [p EXCEPT !.at = "close"] \in Putting
      BY <2>1 DEF Putting
    <3>2. PutAccepted(p) \/ PutRefused(p)
      BY <1>22, Zenon DEF tryPutIdleConn
    <3>. QED  BY <2>1, <3>1, <3>2 DEF TypeOK, PutAccepted, PutRefused
  <2>. HIDE DEF c
  <2>3. CASE UNCHANGED <<idleVars, wpc, connVars, dial, limitVars>>
    BY <1>22, <2>2, <2>3 DEF TypeOK, tryPutIdleConn
  <2>4. ASSUME deliverIdle(c)
        PROVE  /\ wpc' \in [Wants -> Wants \cup {NoConn}]
               /\ idleConnWait' \in [Keys -> Seq(Wants)]
    BY <2>1, <2>4, deliverIdleType, Zenon
  <2>5. CASE /\ deliverIdle(c)
             /\ UNCHANGED <<closeIdle, idleConn, idleLRU, armed, connVars, dial, limitVars>>
    BY <1>22, <2>2, <2>4, <2>5 DEF TypeOK, tryPutIdleConn
  <2>6. CASE deliverIdle(c) /\ addIdle(c) /\ UNCHANGED closeIdle
    BY <1>22, <2>1, <2>2, <2>4, <2>6, addIdleType DEF TypeOK, tryPutIdleConn
  <2>. QED  BY <1>22, <2>3, <2>5, <2>6, Zenon DEF tryPutIdleConn, c
<1>23. CASE UNCHANGED vars
  BY <1>23 DEF TypeOK, vars
<1>. QED
  BY <1>1, <1>2, <1>3, <1>4, <1>5, <1>6, <1>7, <1>8, <1>9, <1>10, <1>11, <1>12, <1>13,
     <1>14, <1>15, <1>16, <1>17, <1>18, <1>19, <1>20, <1>21, <1>22, <1>23, Zenon
  DEF Next, Request, Cancel, Dial, IdleClose, PutStep

\* TypeOK holds in every behaviour: the pool's data stay well-formed, and no
\* request ever works with a nil conn.
THEOREM TypeCorrect == Spec => []TypeOK
<1>1. Init => TypeOK
  <2>. SUFFICES ASSUME Init PROVE TypeOK
    OBVIOUS
  <2>1. <<>> \in Seq(Wants)
    OBVIOUS
  <2>. QED  BY <2>1, PoolAssumption DEF Init, TypeOK, DialStates
<1>2. TypeOK /\ [Next]_vars => TypeOK'
  BY TypeStep
<1>. QED  BY <1>1, <1>2, PTL DEF Spec

----------------------------------------------------------------------------
(* A wantConn is answered for good                                         *)

\* No step makes a wantConn wait that did not: tryDeliver and cancel, whatever
\* their order, leave it with a conn or with an error.
LEMMA WaitersShrink ==
  ASSUME TypeOK, [Next]_vars
  PROVE  \A w \in Wants : Waiting(w)' => Waiting(w)
<1>. USE DEF wantVars, Waiting
<1>1. CASE UNCHANGED <<wpc, werr>>
  BY <1>1
<1>2. ASSUME NEW w \in Wants, queueForIdleConn(w)
      PROVE  \A v \in Wants : Waiting(v)' => Waiting(v)
  <2>1. CASE UNCHANGED wpc
    BY <1>2, <2>1 DEF queueForIdleConn
  <2>2. ASSUME NEW c, wpc' = [wpc EXCEPT ![w] = c], c # NoConn
        PROVE  \A v \in Wants : Waiting(v)' => Waiting(v)
    BY <1>2, <2>2 DEF queueForIdleConn, TypeOK
  <2>3. ASSUME NEW old \in 0 .. Len(idleConn[key[w]]),
               takeIdleConn(w, idleConn[key[w]], Usable(idleConn[key[w]], old))
        PROVE  \E c : wpc' = [wpc EXCEPT ![w] = c] /\ c # NoConn
    <3>. DEFINE list == idleConn[key[w]]
                n == Usable(list, old)
    <3>1. list \in Seq(Wants)
      BY PoolAssumption DEF TypeOK
    <3>2. n \in 1 .. Len(list)
      BY <2>3, <3>1, UsableProperty DEF takeIdleConn
    <3>. HIDE DEF n, list
    <3>3. list[n] # NoConn
      BY <3>1, <3>2, PoolAssumption
    <3>4. wpc' = [wpc EXCEPT ![w] = list[n]]
      BY <2>3 DEF takeIdleConn, n, list
    <3>. QED  BY <3>3, <3>4, Zenon
  <2>4. \A old \in (IF IdleConnTimeout THEN 0 .. Len(idleConn[key[w]]) ELSE {0}) :
          old \in 0 .. Len(idleConn[key[w]])
    BY PoolAssumption DEF TypeOK
  <2>. QED  BY <1>2, <2>1, <2>2, <2>3, <2>4, Zenon DEF queueForIdleConn, awaitIdleConn, idleVars
<1>3. ASSUME NEW w \in Wants, getConnCanceled(w) \/ dialSucceeds(w) \/ dialFails(w)
      PROVE  \A v \in Wants : Waiting(v)' => Waiting(v)
  <2>1. w # NoConn
    BY PoolAssumption
  <2>2. CASE getConnCanceled(w)
    BY <2>2 DEF getConnCanceled, TypeOK
  <2>3. CASE dialSucceeds(w)
    BY <2>1, <2>3 DEF dialSucceeds, TypeOK
  <2>4. CASE dialFails(w)
    BY <2>4 DEF dialFails, TypeOK
  <2>. QED  BY <1>3, <2>2, <2>3, <2>4
<1>4. ASSUME NEW p \in puts, tryPutIdleConn(p)
      PROVE  \A v \in Wants : Waiting(v)' => Waiting(v)
  <2>1. p.conn # NoConn
    BY PoolAssumption DEF TypeOK, Putting
  <2>2. CASE UNCHANGED wpc
    BY <1>4, <2>2 DEF tryPutIdleConn
  <2>3. CASE deliverIdle(p.conn)
    BY <1>4, <2>1, <2>3 DEF tryPutIdleConn, deliverIdle, TypeOK
  <2>. QED  BY <1>4, <2>2, <2>3, Zenon DEF tryPutIdleConn
<1>5. \/ UNCHANGED <<wpc, werr>>
      \/ \E w \in Wants : queueForIdleConn(w) \/ getConnCanceled(w) \/ dialSucceeds(w) \/ dialFails(w)
      \/ \E p \in puts : tryPutIdleConn(p)
  <2>1. CASE UNCHANGED vars
    BY <2>1 DEF vars
  <2>2. CASE Next
    BY <2>2, Zenon
    DEF Next, Request, Cancel, Dial, IdleClose, PutStep, queueForDial, getConnReady, answered,
        roundTripFailed, noCachedConn, noCachedConnDec, canceledBeforeRoundTrip, dialBegins,
        dialGivesUp, readLoopCloses, readLoopExits, timerFires, closeConnIfStillIdle,
        closeIdleConn, tryPutCheck, putClose, CloseIdleConnections
  <2>. QED  BY <2>1, <2>2
<1>. QED  BY <1>1, <1>2, <1>3, <1>4, <1>5, Zenon

----------------------------------------------------------------------------
(* Permission to dial                                                      *)

\* connsPerHost and its queues are changed by queueForDial and by
\* decConnsPerHost only.
LEMMA LimitsStep ==
  ASSUME TypeOK, [Next]_vars
  PROVE  \/ UNCHANGED <<connsPerHost, connsPerHostWait>>
         \/ \E w \in Wants : queueForDial(w)
         \/ \E k \in Keys : \E d, S : decConnsPerHost(k, d, S)
<1>. DEFINE Dec == \E k \in Keys : \E d, S : decConnsPerHost(k, d, S)
            Same == UNCHANGED <<connsPerHost, connsPerHostWait>>
<1>1. ASSUME NEW c \in Wants, NEW S, closeLocked(c, S)
      PROVE  Same \/ Dec
  <2>1. key[c] \in Keys
    BY PoolAssumption
  <2>. QED  BY <1>1, <2>1, Zenon DEF closeLocked, limitVars
<1>2. \A p \in puts : p.conn \in Wants
  BY DEF TypeOK, Putting
<1>3. \A w \in Wants : req[w] \in {"using", "dec"} => held[w] \in Wants /\ key[held[w]] \in Keys
  BY PoolAssumption DEF TypeOK
<1>4. \A c \in Wants : Head(Append(idleLRU, c)) \in Wants
  <2>. SUFFICES ASSUME NEW c \in Wants PROVE Head(Append(idleLRU, c)) \in Wants
    OBVIOUS
  <2>1. idleLRU \in Seq(Wants)
    BY DEF TypeOK
  <2>2. Append(idleLRU, c) \in Seq(Wants) /\ Append(idleLRU, c) # <<>>
    BY <2>1, AppendProperties, Zenon
  <2>. QED  BY <2>2, HeadTailProperties, Zenon
<1>. HIDE DEF Dec, Same
<1>5. ASSUME NEW w \in Wants, roundTripFailed(w)
      PROVE  Same \/ Dec
  <2>1. held[w] \in Wants
    BY <1>3, <1>5 DEF roundTripFailed
  <2>. QED  BY <1>1, <1>5, <2>1, Zenon DEF roundTripFailed, limitVars, Same
<1>6. ASSUME NEW w \in Wants, noCachedConnDec(w)
      PROVE  Same \/ Dec
  <2>1. key[held[w]] \in Keys
    BY <1>3, <1>6 DEF noCachedConnDec
  <2>. QED  BY <1>6, <2>1, Zenon DEF noCachedConnDec, Dec
<1>7. ASSUME NEW w \in Wants, dialGivesUp(w)
      PROVE  Same \/ Dec
  <2>1. key[w] \in Keys
    BY PoolAssumption
  <2>. QED  BY <1>7, <2>1, Zenon DEF dialGivesUp, Dec
<1>8. ASSUME NEW p \in puts, tryPutIdleConn(p)
      PROVE  Same \/ Dec
  BY <1>1, <1>2, <1>4, <1>8, Zenon DEF tryPutIdleConn, addIdle, limitVars, Same
<1>9. ASSUME NEW c \in Wants, readLoopCloses(c) \/ closeConnIfStillIdle(c) \/ closeIdleConn(c)
      PROVE  Same \/ Dec
  BY <1>1, <1>9, Zenon DEF readLoopCloses, closeConnIfStillIdle, closeIdleConn, limitVars, Same
<1>10. ASSUME NEW p \in puts, putClose(p)
       PROVE  Same \/ Dec
  BY <1>1, <1>2, <1>10, Zenon DEF putClose
<1>11. CASE Next
  BY <1>5, <1>6, <1>7, <1>8, <1>9, <1>10, <1>11, Zenon
  DEF Next, Request, Cancel, Dial, IdleClose, PutStep, queueForIdleConn, getConnReady, answered,
      noCachedConn, getConnCanceled, canceledBeforeRoundTrip, dialBegins, dialSucceeds, dialFails,
      readLoopExits, timerFires, tryPutCheck, CloseIdleConnections, limitVars, Same, Dec
<1>12. CASE UNCHANGED vars
  BY <1>12 DEF vars, limitVars, Same
<1>. QED  BY <1>11, <1>12, Zenon DEF Same, Dec

\* r is q after wantConns have been taken from it.
Shortened(q, r) ==
  r \in Seq(Wants) /\ \A j \in 1 .. Len(r) : \E m \in 1 .. Len(q) : r[j] = q[m]

\* NoPermissionLost is kept by a step that, for every host, empties the queue,
\* leaves no permission, or gives up none and adds no call to the queue.
LEMMA NoPermissionKept ==
  ASSUME TypeOK, TypeOK', NoPermissionLost,
         \A w \in Wants : Waiting(w)' => Waiting(w),
         \A l \in Keys :
           \/ connsPerHostWait'[l] = <<>>
           \/ connsPerHost'[l] >= MaxConnsPerHost
           \/ /\ connsPerHost'[l] >= connsPerHost[l]
              /\ Shortened(connsPerHostWait[l], connsPerHostWait'[l])
  PROVE  NoPermissionLost'
<1>. SUFFICES ASSUME NEW l \in Keys, NEW i \in DOMAIN connsPerHostWait'[l],
                     Waiting(connsPerHostWait[l][i])'
              PROVE  connsPerHost'[l] >= MaxConnsPerHost
  BY Zenon DEF NoPermissionLost, WaitingIn
<1>1. connsPerHost[l] \in Nat /\ connsPerHost'[l] \in Nat /\ MaxConnsPerHost \in Nat
  BY PoolAssumption DEF TypeOK
<1>2. i \in 1 .. Len(connsPerHostWait'[l]) /\ connsPerHostWait'[l] \in Seq(Wants)
  BY DEF TypeOK
<1>3. connsPerHostWait'[l] # <<>>
  BY <1>2
<1>4. ASSUME Shortened(connsPerHostWait[l], connsPerHostWait'[l])
      PROVE  connsPerHost[l] >= MaxConnsPerHost
  <2>1. PICK m \in 1 .. Len(connsPerHostWait[l]) : connsPerHostWait'[l][i] = connsPerHostWait[l][m]
    BY <1>2, <1>4 DEF Shortened
  <2>. DEFINE w == connsPerHostWait[l][m]
  <2>2. w \in Wants /\ m \in DOMAIN connsPerHostWait[l]
    BY DEF TypeOK
  <2>3. wpc'[w] = NoConn /\ ~werr'[w]
    BY <2>1 DEF Waiting
  <2>4. Waiting(w)
    BY <2>2, <2>3 DEF Waiting
  <2>. QED  BY <2>2, <2>4 DEF NoPermissionLost, WaitingIn
<1>. QED  BY <1>1, <1>3, <1>4

\* decConnsPerHost cannot lose a permission: it passes it on to a call that
\* waits for one, or there is none.
LEMMA decConnsPerHostKeeps ==
  ASSUME TypeOK, TypeOK', NoPermissionLost, NEW k \in Keys, NEW d, NEW S,
         decConnsPerHost(k, d, S), \A w \in Wants : Waiting(w)' => Waiting(w)
  PROVE  NoPermissionLost'
<1>. DEFINE q == connsPerHostWait[k]
            i == FirstIn(q, S)
<1>1. \/ UNCHANGED <<connsPerHost, connsPerHostWait>>
      \/ connsPerHostWait' = [connsPerHostWait EXCEPT ![k] = After(q, i)] /\ UNCHANGED connsPerHost
      \/ /\ connsPerHostWait' = [connsPerHostWait EXCEPT ![k] = <<>>]
         /\ connsPerHost' = [connsPerHost EXCEPT ![k] = @ - 1]
  BY Zenon DEF decConnsPerHost, limitVars
<1>2. q \in Seq(Wants)
  BY DEF TypeOK
<1>3. i \in 0 .. Len(q)
  BY <1>2, FirstInProperty
<1>. HIDE DEF i
<1>4. Shortened(q, After(q, i))
  BY <1>2, <1>3, AfterProperty DEF Shortened
<1>. HIDE DEF q
<1>5. ASSUME NEW l \in Keys
      PROVE  \/ connsPerHostWait'[l] = <<>>
             \/ connsPerHost'[l] = connsPerHost[l] /\ Shortened(connsPerHostWait[l], connsPerHostWait'[l])
  <2>1. connsPerHostWait[l] \in Seq(Wants) /\ k \in DOMAIN connsPerHostWait
        /\ l \in DOMAIN connsPerHostWait /\ l \in DOMAIN connsPerHost
    BY DEF TypeOK
  <2>2. CASE UNCHANGED <<connsPerHost, connsPerHostWait>>
    BY <2>1, <2>2 DEF Shortened
  <2>3. CASE connsPerHostWait' = [connsPerHostWait EXCEPT ![k] = After(q, i)] /\ UNCHANGED connsPerHost
    <3>1. CASE l = k
      <4>1. connsPerHostWait'[l] = After(q, i) /\ connsPerHost'[l] = connsPerHost[l]
        BY <2>1, <2>3, <3>1
      <4>2. connsPerHostWait[l] = q
        BY <3>1 DEF q
      <4>. QED  BY <1>4, <4>1, <4>2, Zenon
    <3>2. CASE l # k
      <4>1. connsPerHostWait'[l] = connsPerHostWait[l] /\ connsPerHost'[l] = connsPerHost[l]
        BY <2>1, <2>3, <3>2
      <4>. QED  BY <2>1, <4>1, Zenon DEF Shortened
    <3>. QED  BY <3>1, <3>2
  <2>4. CASE /\ connsPerHostWait' = [connsPerHostWait EXCEPT ![k] = <<>>]
             /\ connsPerHost' = [connsPerHost EXCEPT ![k] = @ - 1]
    <3>1. CASE l = k
      BY <2>1, <2>4, <3>1
    <3>2. CASE l # k
      <4>1. connsPerHostWait'[l] = connsPerHostWait[l] /\ connsPerHost'[l] = connsPerHost[l]
        BY <2>1, <2>4, <3>2
      <4>. QED  BY <2>1, <4>1, Zenon DEF Shortened
    <3>. QED  BY <3>1, <3>2
  <2>. QED  BY <1>1, <2>2, <2>3, <2>4, Zenon
<1>6. \A l \in Keys : connsPerHost[l] \in Nat
  BY DEF TypeOK
<1>7. \A l \in Keys :
        \/ connsPerHostWait'[l] = <<>>
        \/ connsPerHost'[l] >= connsPerHost[l] /\ Shortened(connsPerHostWait[l], connsPerHostWait'[l])
  BY <1>5, <1>6
<1>. QED  BY <1>7, NoPermissionKept

\* No step loses a permission to dial.
LEMMA NoPermissionStep ==
  ASSUME TypeOK, NoPermissionLost, [Next]_vars
  PROVE  NoPermissionLost'
<1>. TypeOK'
  BY TypeStep
<1>1. \A w \in Wants : Waiting(w)' => Waiting(w)
  BY WaitersShrink
<1>2. CASE UNCHANGED <<connsPerHost, connsPerHostWait>>
  <2>1. \A l \in Keys : connsPerHostWait[l] \in Seq(Wants)
    BY DEF TypeOK
  <2>2. ASSUME NEW l \in Keys
        PROVE  connsPerHost'[l] = connsPerHost[l] /\ Shortened(connsPerHostWait[l], connsPerHostWait'[l])
    BY <1>2, <2>1 DEF Shortened
  <2>3. \A l \in Keys :
          connsPerHost'[l] >= connsPerHost[l] /\ Shortened(connsPerHostWait[l], connsPerHostWait'[l])
    BY <2>2 DEF TypeOK
  <2>. QED  BY <1>1, <2>3, NoPermissionKept, Zenon
<1>3. ASSUME NEW w \in Wants, queueForDial(w)
      PROVE  NoPermissionLost'
  <2>. DEFINE k == key[w]
  <2>1. k \in Keys
    BY PoolAssumption
  <2>. HIDE DEF k
  <2>2. ASSUME NEW l \in Keys
        PROVE  \/ connsPerHost'[l] >= MaxConnsPerHost
               \/ connsPerHost'[l] >= connsPerHost[l] /\ connsPerHostWait'[l] = connsPerHostWait[l]
    <3>1. CASE UNCHANGED limitVars
      BY <3>1 DEF limitVars, TypeOK
    <3>2. CASE connsPerHost' = [connsPerHost EXCEPT ![k] = @ + 1] /\ UNCHANGED connsPerHostWait
      BY <2>1, <3>2 DEF TypeOK
    <3>3. CASE /\ connsPerHost[k] >= MaxConnsPerHost
               /\ connsPerHostWait' = [connsPerHostWait EXCEPT ![k] = Enqueue(@, w)]
               /\ UNCHANGED connsPerHost
      BY <2>1, <3>3 DEF TypeOK
    <3>. QED  BY <1>3, <3>1, <3>2, <3>3, Zenon DEF queueForDial, k
  <2>3. \A l \in Keys : Shortened(connsPerHostWait[l], connsPerHostWait[l])
    BY DEF Shortened, TypeOK
  <2>4. \A l \in Keys :
          \/ connsPerHost'[l] >= MaxConnsPerHost
          \/ connsPerHost'[l] >= connsPerHost[l] /\ Shortened(connsPerHostWait[l], connsPerHostWait'[l])
    BY <2>2, <2>3, Zenon
  <2>. QED  BY <1>1, <2>4, NoPermissionKept, Zenon
<1>4. ASSUME NEW k \in Keys, NEW d, NEW S, decConnsPerHost(k, d, S)
      PROVE  NoPermissionLost'
  BY <1>1, <1>4, decConnsPerHostKeeps
<1>. QED  BY <1>2, <1>3, <1>4, LimitsStep, Zenon

\* A call waits for permission to dial only while MaxConnsPerHost permissions
\* are taken, whatever queueForDial, decConnsPerHost, tryDeliver and cancel do.
THEOREM PermissionSafe == Spec => []NoPermissionLost
<1>1. Init => NoPermissionLost
  BY DEF Init, NoPermissionLost, WaitingIn
<1>2. TypeOK /\ NoPermissionLost /\ [Next]_vars => NoPermissionLost'
  BY NoPermissionStep
<1>. QED  BY <1>1, <1>2, TypeCorrect, PTL DEF Spec

----------------------------------------------------------------------------
(* Idle conns and the calls that wait for them                             *)

\* What a step may do to the list of idle conns of a host, from list to
\* list2, and to its queue of waiting calls, from q to q2.
IdleStepOf(list, list2, q, q2) ==
  \/ list2 = <<>>
  \/ q2 = <<>>
  \/ (list = <<>> => list2 = <<>>) /\ Shortened(q, q2)

\* Such a step passes nobody over.
LEMMA NoWaiterKept ==
  ASSUME TypeOK, TypeOK', NoWaiterPassedOver,
         \A w \in Wants : Waiting(w)' => Waiting(w),
         \A l \in Keys : IdleStepOf(idleConn[l], idleConn'[l], idleConnWait[l], idleConnWait'[l])
  PROVE  NoWaiterPassedOver'
<1>. SUFFICES ASSUME NEW l \in Keys, NEW i \in DOMAIN idleConnWait'[l],
                     Waiting(idleConnWait[l][i])'
              PROVE  idleConn'[l] = <<>>
  BY Zenon DEF NoWaiterPassedOver, WaitingIn
<1>1. i \in 1 .. Len(idleConnWait'[l]) /\ idleConnWait'[l] \in Seq(Wants)
  BY DEF TypeOK
<1>2. idleConnWait'[l] # <<>>
  BY <1>1
<1>3. ASSUME Shortened(idleConnWait[l], idleConnWait'[l])
      PROVE  idleConn[l] = <<>>
  <2>1. PICK m \in 1 .. Len(idleConnWait[l]) : idleConnWait'[l][i] = idleConnWait[l][m]
    BY <1>1, <1>3 DEF Shortened
  <2>. DEFINE w == idleConnWait[l][m]
  <2>2. w \in Wants /\ m \in DOMAIN idleConnWait[l]
    BY DEF TypeOK
  <2>3. wpc'[w] = NoConn /\ ~werr'[w]
    BY <2>1 DEF Waiting
  <2>4. Waiting(w)
    BY <2>2, <2>3 DEF Waiting
  <2>. QED  BY <2>2, <2>4 DEF NoWaiterPassedOver, WaitingIn
<1>. QED  BY <1>2, <1>3, Zenon DEF IdleStepOf

\* Every step is such a step.
LEMMA IdleStep ==
  ASSUME TypeOK, [Next]_vars, NEW l \in Keys
  PROVE  IdleStepOf(idleConn[l], idleConn'[l], idleConnWait[l], idleConnWait'[l])
<1>. DEFINE Goal == IdleStepOf(idleConn[l], idleConn'[l], idleConnWait[l], idleConnWait'[l])
<1>. SUFFICES Goal
  OBVIOUS
<1>1. /\ idleConn[l] \in Seq(Wants) /\ idleConnWait[l] \in Seq(Wants)
      /\ l \in DOMAIN idleConn /\ l \in DOMAIN idleConnWait
  BY DEF TypeOK
<1>2. Shortened(idleConnWait[l], idleConnWait[l])
  BY <1>1 DEF Shortened
<1>3. ASSUME idleConnWait'[l] = idleConnWait[l], idleConn[l] = <<>> => idleConn'[l] = <<>>
      PROVE  Goal
  BY <1>2, <1>3, Zenon DEF IdleStepOf
<1>. HIDE DEF Goal
<1>4. CASE UNCHANGED <<idleConn, idleConnWait>>
  BY <1>3, <1>4
<1>5. ASSUME NEW c \in Wants, removeIdleConnLocked(c, idleConn, idleLRU), UNCHANGED idleConnWait
      PROVE  Goal
  <2>1. idleConn'[l] = IF l = key[c] THEN RemoveFirst(idleConn[l], c) ELSE idleConn[l]
    BY <1>1, <1>5, PoolAssumption DEF removeIdleConnLocked
  <2>2. idleConn[l] = <<>> => idleConn'[l] = <<>>
    BY <2>1, RemoveFirstEmpty
  <2>. QED  BY <1>3, <1>5, <2>2
<1>6. CASE CloseIdleConnections
  BY <1>6 DEF CloseIdleConnections, IdleStepOf, Goal
<1>7. ASSUME NEW w \in Wants, queueForIdleConn(w)
      PROVE  Goal
  <2>1. CASE UNCHANGED <<idleConn, idleConnWait>>
    BY <1>4, <2>1
  <2>2. ASSUME NEW n \in 0 .. Len(idleConn[key[w]]), takeIdleConn(w, idleConn[key[w]], n)
        PROVE  Goal
    <3>1. key[w] \in Keys /\ idleConn[key[w]] \in Seq(Wants)
      BY PoolAssumption DEF TypeOK
    <3>2. idleConn[key[w]] # <<>>
      BY <2>2, <3>1 DEF takeIdleConn
    <3>3. l # key[w] => idleConn'[l] = idleConn[l]
      BY <1>1, <2>2 DEF takeIdleConn
    <3>4. UNCHANGED idleConnWait
      BY <2>2 DEF takeIdleConn
    <3>. QED  BY <1>3, <3>2, <3>3, <3>4
  <2>3. ASSUME NEW old, NEW n, awaitIdleConn(w, idleConn[key[w]], old, n)
        PROVE  Goal
    <3>1. CASE l = key[w]
      BY <1>1, <2>3, <3>1 DEF awaitIdleConn, IdleStepOf, Goal
    <3>2. CASE l # key[w]
      <4>1. idleConn'[l] = idleConn[l] /\ idleConnWait'[l] = idleConnWait[l]
        BY <1>1, <2>3, <3>2 DEF awaitIdleConn
      <4>. QED  BY <1>3, <4>1
    <3>. QED  BY <3>1, <3>2
  <2>4. \A old \in (IF IdleConnTimeout THEN 0 .. Len(idleConn[key[w]]) ELSE {0}) :
          Usable(idleConn[key[w]], old) \in 0 .. Len(idleConn[key[w]])
    <3>1. key[w] \in Keys /\ idleConn[key[w]] \in Seq(Wants)
      BY PoolAssumption DEF TypeOK
    <3>2. \A old \in (IF IdleConnTimeout THEN 0 .. Len(idleConn[key[w]]) ELSE {0}) :
            old \in 0 .. Len(idleConn[key[w]])
      BY <3>1
    <3>. QED  BY <3>1, <3>2, UsableProperty
  <2>. QED  BY <1>7, <2>1, <2>2, <2>3, <2>4, Zenon DEF queueForIdleConn, idleVars
<1>8. ASSUME NEW p \in puts, tryPutIdleConn(p)
      PROVE  Goal
  <2>. DEFINE c == p.conn
              k == key[c]
              q == idleConnWait[k]
              i == FirstIn(q, Waiters)
  <2>1. c \in Wants /\ k \in Keys /\ q \in Seq(Wants)
    BY PoolAssumption DEF TypeOK, Putting
  <2>2. i \in 0 .. Len(q)
    BY <2>1, FirstInProperty
  <2>3. Shortened(q, After(q, i))
    <3>. HIDE DEF i, q
    <3>. QED  BY <2>1, <2>2, AfterProperty DEF Shortened
  <2>4. ASSUME deliverIdle(c)
        PROVE  /\ l = k => idleConnWait'[l] = IF proto[c] = "h1" /\ i # 0 THEN After(q, i) ELSE <<>>
               /\ l # k => idleConnWait'[l] = idleConnWait[l]
    BY <1>1, <2>1, <2>4 DEF deliverIdle
  <2>5. CASE UNCHANGED <<idleConn, idleConnWait>>
    BY <1>4, <2>5
  <2>6. CASE deliverIdle(c) /\ UNCHANGED idleConn
    <3>1. CASE l = k
      BY <2>3, <2>4, <2>6, <3>1, Zenon DEF IdleStepOf, Goal
    <3>2. CASE l # k
      BY <1>3, <2>4, <2>6, <3>2
    <3>. QED  BY <3>1, <3>2
  <2>7. CASE deliverIdle(c) /\ addIdle(c) /\ ~(proto[c] = "h1" /\ Recipients(c, q) # {})
    <3>1. CASE l = k
      <4>1. ~(proto[c] = "h1" /\ i # 0)
        BY <2>7 DEF Recipients
      <4>2. idleConnWait'[l] = <<>>
        BY <2>4, <2>7, <3>1, <4>1
      <4>. QED  BY <4>2 DEF IdleStepOf, Goal
    <3>2. CASE l # k
      <4>. DEFINE h == Head(Append(idleLRU, c))
      <4>1. idleConn'[l] = idleConn[l] \/ idleConn'[l] = RemoveFirst(idleConn[l], h)
        BY <1>1, <2>7, <3>2 DEF addIdle
      <4>2. idleConn[l] = <<>> => idleConn'[l] = <<>>
        BY <4>1, RemoveFirstEmpty, Zenon
      <4>. QED  BY <1>3, <2>4, <2>7, <3>2, <4>2
    <3>. QED  BY <3>1, <3>2
  <2>. QED  BY <1>8, <2>5, <2>6, <2>7, Zenon DEF tryPutIdleConn, idleVars
<1>9. ASSUME NEW c \in Wants, closeConnIfStillIdle(c) \/ readLoopExits(c)
      PROVE  Goal
  BY <1>4, <1>5, <1>9, Zenon DEF closeConnIfStillIdle, readLoopExits
<1>10. ASSUME NEW w \in Wants, noCachedConn(w)
       PROVE  Goal
  <2>1. held[w] \in Wants
    BY <1>10 DEF noCachedConn, TypeOK
  <2>. QED  BY <1>5, <1>10, <2>1, Zenon DEF noCachedConn
<1>11. CASE Next
  BY <1>4, <1>6, <1>7, <1>8, <1>9, <1>10, <1>11, Zenon
  DEF Next, Request, Cancel, Dial, IdleClose, PutStep, queueForDial, getConnReady, answered,
      roundTripFailed, noCachedConnDec, getConnCanceled, canceledBeforeRoundTrip, dialBegins,
      dialSucceeds, dialFails, dialGivesUp, readLoopCloses, timerFires, closeIdleConn, tryPutCheck,
      putClose, idleVars
<1>12. CASE UNCHANGED vars
  BY <1>4, <1>12 DEF vars, idleVars
<1>. QED  BY <1>11, <1>12, Zenon

\* No call of getConn waits for an idle conn while the pool has one for its
\* host: tryPutIdleConn, queueForIdleConn and eviction pass nobody over.
THEOREM NobodyPassedOver == Spec => []NoWaiterPassedOver
<1>1. Init => NoWaiterPassedOver
  BY DEF Init, NoWaiterPassedOver, WaitingIn
<1>2. TypeOK /\ NoWaiterPassedOver /\ [Next]_vars => NoWaiterPassedOver'
  BY TypeStep, WaitersShrink, IdleStep, NoWaiterKept
<1>. QED  BY <1>1, <1>2, TypeCorrect, PTL DEF Spec

----------------------------------------------------------------------------
(* Owners.  The inductive invariant says that a call is dialed for at most *)
(* once, that nothing refers to a conn that has not been dialed, and that  *)
(* a conn that is idle or about to be closed by CloseIdleConnections is    *)
(* nobody's.                                                               *)

\* A call that has not reached queueForDial waits nowhere for permission, one
\* that has not reached queueForIdleConn waits nowhere at all.
Registered ==
  /\ \A w \in Wants : req[w] \in {"new", "dialq"} => dial[w] = "none"
  /\ \A w \in Wants : req[w] = "new" => wpc[w] = NoConn
  /\ \A k \in Keys : \A w \in ToSet(idleConnWait[k]) : req[w] # "new"

\* A call is dialed for at most once: while it waits for permission it is in
\* one queue, once, and its conn exists only when its dial is done.
DialedOnce ==
  /\ \A k \in Keys : \A w \in ToSet(connsPerHostWait[k]) :
       key[w] = k /\ dial[w] = "none" /\ req[w] \notin {"new", "dialq"}
  /\ \A k \in Keys : IsInjective(connsPerHostWait[k])
  /\ \A w \in Wants : conn[w] # "none" => dial[w] = "done"

\* Whatever refers to a conn refers to one that has been dialed.
Dialed ==
  /\ \A w \in Wants : wpc[w] # NoConn => conn[wpc[w]] # "none"
  /\ \A w \in Wants : held[w] # NoConn => conn[held[w]] # "none"
  /\ \A p \in puts : conn[p.conn] # "none"
  /\ \A c \in ToSet(idleLRU) \cup toClose : conn[c] # "none"

\* w has been given c and is not through with it.
Uses(w, c) ==
  \/ req[w] = "using" /\ held[w] = c
  \/ req[w] \in {"dialq", "select"} /\ wpc[w] = c

\* Idle, or taken from the pool by CloseIdleConnections.
Parked(c) == c \in ToSet(idleLRU) \/ c \in toClose

\* c is in one hand: one request's, one put's, the pool's or that of
\* CloseIdleConnections.
OwnedOnce(c) ==
  /\ \A u, v \in Wants : Uses(u, c) /\ Uses(v, c) => u = v
  /\ \A p, q \in puts : p.conn = c /\ q.conn = c => p = q
  /\ \A u \in Wants : Uses(u, c) => ~Parked(c) /\ \A p \in puts : p.conn # c
  /\ \A p \in puts : p.conn = c => ~Parked(c)
  /\ ~(c \in ToSet(idleLRU) /\ c \in toClose)

\* ExclusiveUse, counting as idle all of the LRU list.
OneOwner == \A c \in Wants : proto[c] = "h1" => OwnedOnce(c)

\* PoolConsistent, and each conn is in the list of its own host.
PoolFiled ==
  /\ PoolConsistent
  /\ \A k \in Keys : \A c \in ToSet(idleConn[k]) : key[c] = k

OwnersInv == TypeOK /\ Registered /\ DialedOnce /\ Dialed /\ OneOwner /\ PoolFiled

----------------------------------------------------------------------------
(* A call is dialed for at most once                                       *)

\* What a step may do to the calls' positions and to those that wait for an
\* idle conn.
ReqStep ==
  /\ \A w \in Wants : req'[w] \in {"new", "dialq"} => req[w] \in {"new", "dialq"}
  /\ \A w \in Wants : req'[w] = "new" => req[w] = "new" /\ wpc'[w] = wpc[w]
  /\ \A k \in Keys : \A w \in ToSet(idleConnWait'[k]) :
       w \in ToSet(idleConnWait[k]) \/ req'[w] # "new"

\* What a step may do to dials and to the calls that wait for permission.
DialStep ==
  /\ \A k \in Keys : IsInjective(connsPerHostWait'[k])
  /\ \A k \in Keys : \A w \in ToSet(connsPerHostWait'[k]) :
       \/ w \in ToSet(connsPerHostWait[k])
       \/ key[w] = k /\ dial'[w] = "none" /\ req'[w] = "select"
  /\ \A w \in Wants :
       \/ dial'[w] = dial[w]
       \/ dial[w] \in {"go", "dialing", "dec"}
       \/ /\ dial'[w] = "go" /\ dial[w] = "none" /\ req'[w] \notin {"new", "dialq"}
          /\ \A k \in Keys : w \notin ToSet(connsPerHostWait'[k])
  /\ \A w \in Wants : conn'[w] # "none" => conn[w] # "none" \/ dial'[w] = "done"

\* Such steps keep the first half of the invariant.
LEMMA DialedOnceKept ==
  ASSUME TypeOK, Registered, DialedOnce, ReqStep, DialStep
  PROVE  Registered' /\ DialedOnce'
<1>1. \A k \in Keys : ToSet(connsPerHostWait[k]) \subseteq Wants /\ ToSet(idleConnWait[k]) \subseteq Wants
  BY ElementsOf DEF TypeOK
<1>2. \A w \in Wants : req'[w] \in {"new", "dialq"} => dial'[w] = "none"
  BY DEF Registered, ReqStep, DialStep
<1>3. \A w \in Wants : req'[w] = "new" => wpc'[w] = NoConn
  BY DEF Registered, ReqStep
<1>4. \A k \in Keys : \A w \in ToSet(idleConnWait'[k]) : req'[w] # "new"
  BY <1>1 DEF Registered, ReqStep
<1>5. \A k \in Keys : \A w \in ToSet(connsPerHostWait'[k]) :
        key[w] = k /\ dial'[w] = "none" /\ req'[w] \notin {"new", "dialq"}
  <2>. SUFFICES ASSUME NEW k \in Keys, NEW w \in ToSet(connsPerHostWait'[k])
                PROVE  key[w] = k /\ dial'[w] = "none" /\ req'[w] \notin {"new", "dialq"}
    OBVIOUS
  <2>1. CASE key[w] = k /\ dial'[w] = "none" /\ req'[w] = "select"
    BY <2>1
  <2>2. CASE w \in ToSet(connsPerHostWait[k])
    <3>1. w \in Wants /\ key[w] = k /\ dial[w] = "none" /\ req[w] \notin {"new", "dialq"}
      BY <1>1, <2>2 DEF DialedOnce
    <3>2. dial'[w] = "none"
      BY <3>1 DEF DialStep
    <3>. QED  BY <3>1, <3>2 DEF ReqStep
  <2>. QED  BY <2>1, <2>2 DEF DialStep
<1>6. \A w \in Wants : conn'[w] # "none" => dial'[w] = "done"
  BY DEF DialedOnce, DialStep
<1>. QED  BY <1>2, <1>3, <1>4, <1>5, <1>6 DEF Registered, DialedOnce, DialStep

\* After drops the call it follows for good.
LEMMA AfterSet ==
  ASSUME NEW X, NEW q \in Seq(X), NEW i \in 1 .. Len(q), IsInjective(q)
  PROVE  /\ ToSet(After(q, i)) \subseteq ToSet(q) /\ IsInjective(After(q, i))
         /\ q[i] \in ToSet(q) /\ q[i] \notin ToSet(After(q, i))
<1>1. i + 1 \in 1 .. Len(q) + 1 /\ Len(q) \in 0 .. Len(q) /\ i < i + 1
  OBVIOUS
<1>2. /\ ToSet(After(q, i)) \subseteq ToSet(q) /\ IsInjective(After(q, i))
      /\ q[i] \notin ToSet(After(q, i))
  BY <1>1, SubSeqSet DEF After
<1>3. q[i] \in ToSet(q)
  BY ElementsOf, Zenon
<1>. QED  BY <1>2, <1>3

\* Enqueue adds one call, at most once.
LEMMA EnqueueSet ==
  ASSUME NEW q \in Seq(Wants), NEW w \in Wants
  PROVE  /\ ToSet(Enqueue(q, w)) \subseteq ToSet(q) \cup {w}
         /\ IsInjective(q) /\ w \notin ToSet(q) => IsInjective(Enqueue(q, w))
<1>. DEFINE i == FirstIn(q, Waiters)
            s == SubSeq(q, i, Len(q))
<1>1. i \in 0 .. Len(q)
  BY FirstInProperty
<1>. HIDE DEF i
<1>2. CASE i = 0
  <2>1. Enqueue(q, w) = <<w>>
    BY <1>2 DEF Enqueue, i
  <2>. QED  BY <2>1 DEF ToSet, IsInjective
<1>3. CASE i # 0
  <2>1. Enqueue(q, w) = Append(s, w)
    BY <1>3 DEF Enqueue, i
  <2>2. i \in 1 .. Len(q) + 1 /\ Len(q) \in 0 .. Len(q)
    BY <1>1, <1>3
  <2>3. s \in Seq(Wants) /\ ToSet(s) \subseteq ToSet(q) /\ (IsInjective(q) => IsInjective(s))
    BY <2>2, SubSeqSet
  <2>. HIDE DEF s
  <2>4. /\ ToSet(Append(s, w)) = ToSet(s) \cup {w}
        /\ IsInjective(s) /\ w \notin ToSet(s) => IsInjective(Append(s, w))
    BY <2>3, AppendSet
  <2>. QED  BY <2>1, <2>3, <2>4
<1>. QED  BY <1>2, <1>3

\* decConnsPerHost hands a permission to a call that has not been dialed for,
\* and takes it from the queue.
LEMMA decDialStep ==
  ASSUME TypeOK, DialedOnce, NEW k \in Keys, NEW S, NEW d \in [Wants -> DialStates],
         \A w \in Wants : d[w] = dial[w] \/ dial[w] \in {"go", "dialing", "dec"},
         decConnsPerHost(k, d, S),
         \A w \in Wants : req'[w] \in {"new", "dialq"} => req[w] \in {"new", "dialq"},
         \A w \in Wants : conn'[w] # "none" => conn[w] # "none"
  PROVE  DialStep
<1>. DEFINE q == connsPerHostWait[k]
            i == FirstIn(q, S)
<1>1. q \in Seq(Wants) /\ IsInjective(q) /\ connsPerHostWait \in [Keys -> Seq(Wants)]
  BY DEF TypeOK, DialedOnce
<1>2. i \in 0 .. Len(q)
  BY <1>1, FirstInProperty
<1>3. \A w \in Wants : conn'[w] # "none" => conn[w] # "none" \/ dial'[w] = "done"
  OBVIOUS
<1>. HIDE DEF i
<1>4. CASE dial' = d /\ UNCHANGED connsPerHostWait
  BY <1>3, <1>4 DEF DialStep, DialedOnce
<1>5. CASE dial' = d /\ connsPerHostWait' = [connsPerHostWait EXCEPT ![k] = <<>>]
  <2>1. \A l \in Keys : connsPerHostWait'[l] = connsPerHostWait[l] \/ connsPerHostWait'[l] = <<>>
    BY <1>1, <1>5
  <2>2. \A l \in Keys : /\ ToSet(connsPerHostWait'[l]) \subseteq ToSet(connsPerHostWait[l])
                        /\ IsInjective(connsPerHostWait'[l])
    BY <2>1, EmptyElements DEF DialedOnce
  <2>. QED  BY <1>3, <1>5, <2>2 DEF DialStep
<1>6. CASE /\ i # 0 /\ dial' = [d EXCEPT ![q[i]] = "go"]
           /\ connsPerHostWait' = [connsPerHostWait EXCEPT ![k] = After(q, i)]
  <2>1. /\ ToSet(After(q, i)) \subseteq ToSet(q) /\ IsInjective(After(q, i))
        /\ q[i] \in ToSet(q) /\ q[i] \notin ToSet(After(q, i)) /\ q[i] \in Wants
    <3>1. i \in 1 .. Len(q)
      BY <1>1, <1>2, <1>6
    <3>. HIDE DEF q
    <3>. QED  BY <1>1, <3>1, AfterSet
  <2>2. key[q[i]] = k /\ dial[q[i]] = "none" /\ req[q[i]] \notin {"new", "dialq"}
    BY <2>1 DEF DialedOnce
  <2>3. \A l \in Keys : connsPerHostWait'[l] = IF l = k THEN After(q, i) ELSE connsPerHostWait[l]
    BY <1>1, <1>6
  <2>4. \A l \in Keys : /\ ToSet(connsPerHostWait'[l]) \subseteq ToSet(connsPerHostWait[l])
                        /\ IsInjective(connsPerHostWait'[l]) /\ q[i] \notin ToSet(connsPerHostWait'[l])
    BY <2>1, <2>2, <2>3 DEF DialedOnce
  <2>5. \A w \in Wants : dial'[w] = IF w = q[i] THEN "go" ELSE d[w]
    BY <1>6
  <2>6. req'[q[i]] \notin {"new", "dialq"}
    BY <2>1, <2>2
  <2>. HIDE DEF q
  <2>. QED  BY <1>3, <2>1, <2>2, <2>4, <2>5, <2>6 DEF DialStep
<1>. QED  BY <1>4, <1>5, <1>6 DEF decConnsPerHost, limitVars, i

\* Closing a conn changes its state only if it was open.
LEMMA closeLockedConn ==
  ASSUME TypeOK, NEW c \in Wants, NEW S, closeLocked(c, S)
  PROVE  /\ \A x \in Wants : conn'[x] = conn[x] \/ (x = c /\ conn[x] = "open" /\ conn'[x] = "closed")
         /\ conn'[c] # "open" /\ proto' = proto
<1>1. conn \in [Wants -> {"none", "open", "closed"}]
  BY DEF TypeOK
<1>2. (UNCHANGED conn /\ conn[c] # "open") \/ (conn[c] = "open" /\ conn' = [conn EXCEPT ![c] = "closed"])
  BY Zenon DEF closeLocked
<1>3. proto' = proto
  BY Zenon DEF closeLocked
<1>. QED  BY <1>1, <1>2, <1>3

\* Nor does it dial for a call twice.
LEMMA closeDialStep ==
  ASSUME TypeOK, DialedOnce, NEW c \in Wants, NEW S, closeLocked(c, S),
         \A w \in Wants : req'[w] \in {"new", "dialq"} => req[w] \in {"new", "dialq"}
  PROVE  DialStep
<1>1. \A w \in Wants : conn'[w] # "none" => conn[w] # "none"
  BY closeLockedConn
<1>2. CASE decConnsPerHost(key[c], dial, S)
  <2>1. key[c] \in Keys /\ dial \in [Wants -> DialStates]
    BY PoolAssumption DEF TypeOK
  <2>. QED  BY <1>1, <1>2, <2>1, decDialStep
<1>3. CASE UNCHANGED <<conn, dial, limitVars>>
  BY <1>1, <1>3 DEF DialStep, DialedOnce, limitVars
<1>. QED  BY <1>2, <1>3 DEF closeLocked

\* No step dials for a call twice, or registers one too early.
LEMMA DialsStep ==
  ASSUME OwnersInv, [Next]_vars
  PROVE  ReqStep /\ DialStep
<1>. USE DEF OwnersInv
<1>a. ASSUME UNCHANGED <<connsPerHostWait, dial, conn>>  PROVE DialStep
  BY <1>a DEF DialStep, DialedOnce
<1>b. ASSUME UNCHANGED <<req, wpc, idleConnWait>>  PROVE ReqStep
  BY <1>b DEF ReqStep
<1>c. ASSUME NEW w \in Wants, NEW x, req[w] \notin {"new", "dialq"}, x \notin {"new", "dialq"},
             req' = [req EXCEPT ![w] = x], \A v \in Wants : wpc'[v] = wpc[v] \/ v = w,
             UNCHANGED idleConnWait
      PROVE  ReqStep
  BY <1>c DEF ReqStep, TypeOK
<1>1. ASSUME NEW w \in Wants, queueForIdleConn(w)
      PROVE  ReqStep /\ DialStep
  <2>1. UNCHANGED <<connsPerHostWait, dial, conn>> /\ req[w] = "new"
    BY <1>1, Zenon DEF queueForIdleConn, limitVars, connVars
  <2>2. PICK x \in {"using", "dialq"} : req' = [req EXCEPT ![w] = x]
    BY <1>1 DEF queueForIdleConn, takeIdleConn, awaitIdleConn
  <2>3. \A v \in Wants : v # w => wpc'[v] = wpc[v]
    BY <1>1 DEF queueForIdleConn, takeIdleConn, awaitIdleConn, TypeOK
  <2>4. \A k \in Keys : ToSet(idleConnWait'[k]) \subseteq ToSet(idleConnWait[k]) \cup {w}
    <3>1. \/ UNCHANGED idleConnWait
          \/ idleConnWait' = [idleConnWait EXCEPT ![key[w]] = Enqueue(@, w)]
      BY <1>1, Zenon DEF queueForIdleConn, takeIdleConn, awaitIdleConn, idleVars
    <3>2. idleConnWait \in [Keys -> Seq(Wants)] /\ key[w] \in Keys
      BY PoolAssumption DEF TypeOK
    <3>3. ToSet(Enqueue(idleConnWait[key[w]], w)) \subseteq ToSet(idleConnWait[key[w]]) \cup {w}
      BY <3>2, EnqueueSet
    <3>. QED  BY <3>1, <3>2, <3>3
  <2>5. req \in [Wants -> {"new", "dialq", "select", "using", "dec", "done"}]
    BY DEF TypeOK
  <2>6. ReqStep
    BY <2>1, <2>2, <2>3, <2>4, <2>5 DEF ReqStep
  <2>. QED  BY <1>a, <2>1, <2>6
<1>2. ASSUME NEW w \in Wants, queueForDial(w)
      PROVE  ReqStep /\ DialStep
  <2>1. /\ req[w] = "dialq" /\ req' = [req EXCEPT ![w] = "select"]
        /\ UNCHANGED <<wpc, idleConnWait, conn>>
    BY <1>2, Zenon DEF queueForDial, idleVars, wantVars, connVars
  <2>2. /\ key[w] \in Keys /\ connsPerHostWait \in [Keys -> Seq(Wants)] /\ dial \in [Wants -> DialStates]
        /\ req \in [Wants -> {"new", "dialq", "select", "using", "dec", "done"}]
    BY PoolAssumption DEF TypeOK
  <2>3. ReqStep
    BY <2>1, <2>2 DEF ReqStep
  <2>4. dial[w] = "none" /\ \A k \in Keys : w \notin ToSet(connsPerHostWait[k])
    BY <2>1 DEF Registered, DialedOnce
  <2>5. CASE dial' = [dial EXCEPT ![w] = "go"] /\ UNCHANGED connsPerHostWait
    <3>1. \A v \in Wants : dial'[v] = IF v = w THEN "go" ELSE dial[v]
      BY <2>2, <2>5
    <3>2. req'[w] = "select"
      BY <2>1, <2>2
    <3>3. \A k \in Keys : connsPerHostWait'[k] = connsPerHostWait[k] /\ IsInjective(connsPerHostWait'[k])
      BY <2>5 DEF DialedOnce
    <3>4. \A v \in Wants :
            \/ dial'[v] = dial[v]
            \/ /\ dial'[v] = "go" /\ dial[v] = "none" /\ req'[v] \notin {"new", "dialq"}
               /\ \A k \in Keys : v \notin ToSet(connsPerHostWait'[k])
      BY <2>4, <3>1, <3>2, <3>3
    <3>5. conn' = conn
      BY <2>1
    <3>. QED  BY <2>3, <3>3, <3>4, <3>5, Zenon DEF DialStep
  <2>6. CASE /\ UNCHANGED dial
             /\ connsPerHostWait' = [connsPerHostWait EXCEPT ![key[w]] = Enqueue(@, w)]
    <3>. DEFINE q == connsPerHostWait[key[w]]
    <3>1. q \in Seq(Wants) /\ IsInjective(q) /\ w \notin ToSet(q)
      BY <2>2, <2>4 DEF DialedOnce
    <3>. HIDE DEF q
    <3>2. ToSet(Enqueue(q, w)) \subseteq ToSet(q) \cup {w} /\ IsInjective(Enqueue(q, w))
      BY <3>1, EnqueueSet
    <3>3. \A k \in Keys : connsPerHostWait'[k] = IF k = key[w] THEN Enqueue(q, w) ELSE connsPerHostWait[k]
      BY <2>2, <2>6 DEF q
    <3>4. \A k \in Keys : IsInjective(connsPerHostWait'[k])
      BY <3>2, <3>3 DEF DialedOnce
    <3>5. \A k \in Keys : \A v \in ToSet(connsPerHostWait'[k]) :
            v \in ToSet(connsPerHostWait[k]) \/ (v = w /\ k = key[w])
      BY <3>2, <3>3 DEF q
    <3>6. dial'[w] = "none" /\ req'[w] = "select"
      BY <2>1, <2>2, <2>4, <2>6
    <3>7. \A k \in Keys : \A v \in ToSet(connsPerHostWait'[k]) :
            \/ v \in ToSet(connsPerHostWait[k])
            \/ key[v] = k /\ dial'[v] = "none" /\ req'[v] = "select"
      BY <3>5, <3>6
    <3>8. conn' = conn /\ dial' = dial
      BY <2>1, <2>6
    <3>. QED  BY <2>3, <3>4, <3>7, <3>8, Zenon DEF DialStep
  <2>. QED  BY <1>2, <2>3, <2>5, <2>6 DEF queueForDial, limitVars
<1>3. ASSUME NEW w \in Wants, getConnReady(w) \/ getConnCanceled(w) \/ canceledBeforeRoundTrip(w)
      PROVE  ReqStep /\ DialStep
  <2>1. req[w] \in {"select", "using"} /\ UNCHANGED <<connsPerHostWait, dial, conn, idleConnWait>>
    BY <1>3 DEF getConnReady, getConnCanceled, canceledBeforeRoundTrip, idleVars, limitVars,
       connVars
  <2>2. \E x \in {"using", "done"} : req' = [req EXCEPT ![w] = x]
    BY <1>3 DEF getConnReady, getConnCanceled, canceledBeforeRoundTrip
  <2>3. \A v \in Wants : wpc'[v] = wpc[v] \/ v = w
    BY <1>3 DEF getConnReady, getConnCanceled, canceledBeforeRoundTrip, wantVars, TypeOK
  <2>. QED  BY <1>a, <1>c, <2>1, <2>2, <2>3
<1>4. ASSUME NEW w \in Wants, answered(w) \/ noCachedConn(w)
      PROVE  ReqStep /\ DialStep
  <2>1. req[w] = "using" /\ UNCHANGED <<connsPerHostWait, dial, conn, idleConnWait, wpc>>
    BY <1>4 DEF answered, noCachedConn, idleVars, limitVars, wantVars, connVars
  <2>2. \E x \in {"dec", "done"} : req' = [req EXCEPT ![w] = x]
    BY <1>4 DEF answered, noCachedConn
  <2>. QED  BY <1>a, <1>c, <2>1, <2>2
<1>5. ASSUME NEW w \in Wants, roundTripFailed(w)
      PROVE  ReqStep /\ DialStep
  <2>1. /\ req[w] = "using" /\ req' = [req EXCEPT ![w] = "done"]
        /\ UNCHANGED <<idleConnWait, wpc>> /\ held[w] \in Wants
    BY <1>5 DEF roundTripFailed, idleVars, wantVars, TypeOK
  <2>2. ReqStep
    BY <1>c, <2>1
  <2>3. CASE closeLocked(held[w], Waiters)
    BY <2>1, <2>2, <2>3, closeDialStep DEF ReqStep
  <2>4. CASE UNCHANGED <<connVars, dial, limitVars>>
    BY <1>a, <2>2, <2>4 DEF connVars, limitVars
  <2>. QED  BY <1>5, <2>2, <2>3, <2>4 DEF roundTripFailed
<1>6. ASSUME NEW w \in Wants, noCachedConnDec(w)
      PROVE  ReqStep /\ DialStep
  <2>1. /\ req[w] = "dec" /\ req' = [req EXCEPT ![w] = "done"]
        /\ UNCHANGED <<idleConnWait, wpc, conn>> /\ held[w] \in Wants
    BY <1>6 DEF noCachedConnDec, idleVars, wantVars, connVars, TypeOK
  <2>2. ReqStep
    BY <1>c, <2>1
  <2>3. key[held[w]] \in Keys /\ dial \in [Wants -> DialStates] /\ decConnsPerHost(key[held[w]], dial, Waiters)
    BY <1>6, <2>1, PoolAssumption DEF noCachedConnDec, TypeOK
  <2>. QED  BY <2>1, <2>2, <2>3, decDialStep DEF ReqStep
<1>7. ASSUME NEW w \in Wants, dialBegins(w) \/ dialSucceeds(w) \/ dialFails(w)
      PROVE  ReqStep /\ DialStep
  <2>1. dial[w] \in {"go", "dialing"} /\ UNCHANGED <<req, idleConnWait, connsPerHostWait>>
    BY <1>7 DEF dialBegins, dialSucceeds, dialFails, idleVars, limitVars
  <2>2. \E x \in {"dialing", "done", "dec"} : dial' = [dial EXCEPT ![w] = x]
    BY <1>7 DEF dialBegins, dialSucceeds, dialFails
  <2>3. UNCHANGED conn \/ (conn' = [conn EXCEPT ![w] = "open"] /\ dial' = [dial EXCEPT ![w] = "done"])
    BY <1>7 DEF dialBegins, dialSucceeds, dialFails, connVars
  <2>4. \A v \in Wants : wpc'[v] = wpc[v] \/ v = w
    BY <1>7 DEF dialBegins, dialSucceeds, dialFails, wantVars, TypeOK
  <2>5. req[w] # "new"
    BY <2>1 DEF Registered
  <2>6. ReqStep
    BY <2>1, <2>4, <2>5 DEF ReqStep
  <2>7. DialStep
    BY <2>1, <2>2, <2>3 DEF DialStep, DialedOnce, TypeOK
  <2>. QED  BY <2>6, <2>7
<1>8. ASSUME NEW w \in Wants, dialGivesUp(w)
      PROVE  ReqStep /\ DialStep
  <2>. DEFINE d == [dial EXCEPT ![w] = "done"]
  <2>1. /\ key[w] \in Keys /\ d \in [Wants -> DialStates] /\ decConnsPerHost(key[w], d, Waiters)
        /\ dial[w] \in {"go", "dec"} /\ UNCHANGED <<req, wpc, idleConnWait, conn>>
    BY <1>8, PoolAssumption DEF dialGivesUp, TypeOK, DialStates, idleVars, wantVars, connVars
  <2>2. \A v \in Wants : d[v] = dial[v] \/ dial[v] \in {"go", "dialing", "dec"}
    BY <2>1 DEF TypeOK
  <2>. HIDE DEF d
  <2>. QED  BY <1>b, <2>1, <2>2, decDialStep
<1>9. ASSUME NEW c \in Wants, readLoopCloses(c) \/ closeIdleConn(c)
      PROVE  ReqStep /\ DialStep
  <2>1. closeLocked(c, Waiters) /\ UNCHANGED <<req, wpc, idleConnWait>>
    BY <1>9 DEF readLoopCloses, closeIdleConn, idleVars, wantVars
  <2>. QED  BY <1>b, <2>1, closeDialStep
<1>10. ASSUME NEW c \in Wants, closeConnIfStillIdle(c)
      PROVE  ReqStep /\ DialStep
  <2>1. UNCHANGED <<req, wpc, idleConnWait>>
    BY <1>10 DEF closeConnIfStillIdle, wantVars
  <2>2. closeLocked(c, Waiters) \/ UNCHANGED <<connsPerHostWait, dial, conn>>
    BY <1>10, Zenon DEF closeConnIfStillIdle, limitVars, connVars
  <2>. QED  BY <1>a, <1>b, <2>1, <2>2, closeDialStep
<1>11. ASSUME NEW c \in Wants, readLoopExits(c) \/ timerFires(c)
      PROVE  ReqStep /\ DialStep
  BY <1>a, <1>b, <1>11 DEF readLoopExits, timerFires, limitVars, wantVars, connVars
<1>12. ASSUME NEW p \in puts, tryPutCheck(p)
      PROVE  ReqStep /\ DialStep
  BY <1>a, <1>b, <1>12 DEF tryPutCheck, idleVars, limitVars, wantVars
<1>13. ASSUME NEW p \in puts, putClose(p)
      PROVE  ReqStep /\ DialStep
  <2>1. p.conn \in Wants /\ closeLocked(p.conn, Waiters) /\ UNCHANGED <<req, wpc, idleConnWait>>
    BY <1>13 DEF putClose, TypeOK, Putting, idleVars, wantVars
  <2>. QED  BY <1>b, <2>1, closeDialStep
<1>14. ASSUME NEW p \in puts, tryPutIdleConn(p)
      PROVE  ReqStep /\ DialStep
  <2>. DEFINE c == p.conn
              q == idleConnWait[key[c]]
              i == FirstIn(q, Waiters)
  <2>1. c \in Wants /\ key[c] \in Keys /\ q \in Seq(Wants) /\ UNCHANGED req
    BY <1>14, PoolAssumption DEF tryPutIdleConn, TypeOK, Putting
  <2>. HIDE DEF c
  <2>2. i \in 0 .. Len(q)
    BY <2>1, FirstInProperty
  <2>3. UNCHANGED <<wpc, idleConnWait>> \/ deliverIdle(c)
    BY <1>14, Zenon DEF tryPutIdleConn, idleVars, c
  <2>4. ReqStep
    <3>1. CASE UNCHANGED <<wpc, idleConnWait>>
      BY <1>b, <2>1, <3>1
    <3>2. CASE deliverIdle(c)
      <4>1. Recipients(c, q) \subseteq ToSet(q)
        BY <2>1, <2>2, ElementsOf DEF Recipients, WaitingIn
      <4>2. \A w \in Wants : req[w] = "new" => wpc'[w] = wpc[w]
        BY <2>1, <3>2, <4>1 DEF deliverIdle, Registered
      <4>3. \A k \in Keys :
              \/ idleConnWait'[k] = idleConnWait[k]
              \/ idleConnWait'[k] = <<>>
              \/ i # 0 /\ k = key[c] /\ idleConnWait'[k] = After(q, i)
        <5>. DEFINE r == IF proto[c] = "h1" /\ i # 0 THEN After(q, i) ELSE <<>>
        <5>1. idleConnWait' = [idleConnWait EXCEPT ![key[c]] = r]
          BY <3>2, Zenon DEF deliverIdle
        <5>2. r = <<>> \/ (i # 0 /\ r = After(q, i))
          OBVIOUS
        <5>. HIDE DEF r
        <5>3. \A k \in Keys : idleConnWait'[k] = idleConnWait[k] \/ (k = key[c] /\ idleConnWait'[k] = r)
          BY <5>1 DEF TypeOK
        <5>. QED  BY <5>2, <5>3
      <4>4. i # 0 => ToSet(After(q, i)) \subseteq ToSet(q)
        <5>1. i # 0 => i + 1 \in 1 .. Len(q) + 1 /\ Len(q) \in 0 .. Len(q)
          BY <2>1, <2>2
        <5>. HIDE DEF q, i
        <5>. QED  BY <2>1, <5>1, SubSeqSet DEF After
      <4>5. \A k \in Keys : ToSet(idleConnWait'[k]) \subseteq ToSet(idleConnWait[k])
        BY <4>3, <4>4, EmptyElements
      <4>. QED  BY <2>1, <4>2, <4>5 DEF ReqStep
    <3>. QED  BY <2>3, <3>1, <3>2
  <2>5. DialStep
    <3>1. \/ UNCHANGED <<connsPerHostWait, dial, conn>>
          \/ \E S : idleLRU \in Seq(Wants) /\ closeLocked(Head(Append(idleLRU, c)), S)
      BY <1>14 DEF tryPutIdleConn, addIdle, connVars, limitVars, c, TypeOK
    <3>2. Head(Append(idleLRU, c)) \in Wants
      BY <2>1 DEF TypeOK
    <3>. QED  BY <1>a, <2>1, <3>1, <3>2, closeDialStep
  <2>. QED  BY <2>4, <2>5
<1>15. CASE CloseIdleConnections \/ UNCHANGED vars
  BY <1>a, <1>b, <1>15 DEF CloseIdleConnections, vars, idleVars, limitVars, wantVars, connVars
<1>. QED
  BY <1>1, <1>2, <1>3, <1>4, <1>5, <1>6, <1>7, <1>8, <1>9, <1>10, <1>11, <1>12, <1>13, <1>14,
     <1>15, Zenon
     DEF Next, Request, Cancel, Dial, IdleClose, PutStep

----------------------------------------------------------------------------
(* The idle lists and the LRU list                                         *)

\* Taking conns out of the lists, and out of the LRU list only those that are
\* in no list, keeps them in step.
LEMMA PoolShrinks ==
  ASSUME TypeOK, PoolFiled, IsInjective(idleLRU'), Len(idleLRU') <= Len(idleLRU), idleLRU' \in Seq(Wants),
         \A k \in Keys :
           /\ idleConn'[k] \in Seq(Wants) /\ IsInjective(idleConn'[k])
           /\ Len(idleConn'[k]) <= Len(idleConn[k])
           /\ ToSet(idleConn'[k]) \subseteq ToSet(idleConn[k])
           /\ ToSet(idleConn'[k]) \subseteq ToSet(idleLRU')
  PROVE  PoolFiled'
<1>1. \A k \in Keys : idleConn'[k] # <<>> => Len(idleConn'[k]) <= maxIdleConnsPerHost
  <2>. SUFFICES ASSUME NEW k \in Keys, idleConn'[k] # <<>>
                PROVE  Len(idleConn'[k]) <= maxIdleConnsPerHost
    OBVIOUS
  <2>1. Len(idleConn'[k]) \in Nat /\ Len(idleConn'[k]) # 0
    OBVIOUS
  <2>2. idleConn[k] \in Seq(Wants) /\ Len(idleConn[k]) \in Nat
    BY DEF TypeOK
  <2>3. idleConn[k] # <<>>
    BY <2>1, <2>2
  <2>4. Len(idleConn[k]) <= maxIdleConnsPerHost
    BY <2>3 DEF PoolFiled, PoolConsistent
  <2>5. maxIdleConnsPerHost \in Int
    BY PoolAssumption DEF maxIdleConnsPerHost
  <2>. QED  BY <2>1, <2>2, <2>4, <2>5
<1>2. MaxIdleConns # 0 => Len(idleLRU') <= MaxIdleConns
  <2>1. Len(idleLRU) \in Nat /\ Len(idleLRU') \in Nat /\ MaxIdleConns \in Nat
    BY PoolAssumption DEF TypeOK
  <2>. QED  BY <2>1 DEF PoolFiled, PoolConsistent
<1>3. \A k \in Keys : \A c \in ToSet(idleConn'[k]) : key[c] = k
  BY DEF PoolFiled
<1>. QED  BY <1>1, <1>2, <1>3 DEF PoolFiled, PoolConsistent, maxIdleConnsPerHost

\* removeIdleConnLocked takes c, and nothing else, out of both lists.
LEMMA removeIdleConnLockedSets ==
  ASSUME TypeOK, PoolFiled, NEW c \in Wants, removeIdleConnLocked(c, idleConn, idleLRU)
  PROVE  PoolFiled' /\ ToSet(idleLRU') = ToSet(idleLRU) \ {c}
<1>. DEFINE r == RemoveFirst(idleConn[key[c]], c)
<1>1. /\ key[c] \in Keys /\ idleConn \in [Keys -> Seq(Wants)] /\ idleLRU \in Seq(Wants)
      /\ \A k \in Keys : IsInjective(idleConn[k]) /\ ToSet(idleConn[k]) \subseteq ToSet(idleLRU)
      /\ IsInjective(idleLRU)
      /\ \A k \in Keys : k # key[c] => c \notin ToSet(idleConn[k])
  BY PoolAssumption DEF TypeOK, PoolFiled, PoolConsistent
<1>2. /\ idleLRU' \in Seq(Wants) /\ Len(idleLRU') <= Len(idleLRU)
      /\ ToSet(idleLRU') = ToSet(idleLRU) \ {c} /\ IsInjective(idleLRU')
  BY <1>1, RemoveFirstSet DEF removeIdleConnLocked
<1>3. /\ r \in Seq(Wants) /\ Len(r) <= Len(idleConn[key[c]])
      /\ ToSet(r) = ToSet(idleConn[key[c]]) \ {c} /\ IsInjective(r)
  BY <1>1, RemoveFirstSet
<1>4. \A k \in Keys : idleConn'[k] = IF k = key[c] THEN r ELSE idleConn[k]
  BY <1>1 DEF removeIdleConnLocked
<1>. HIDE DEF r
<1>5. \A k \in Keys : /\ idleConn'[k] \in Seq(Wants) /\ IsInjective(idleConn'[k])
                      /\ Len(idleConn'[k]) <= Len(idleConn[k])
  <2>1. \A k \in Keys : Len(idleConn[k]) \in Nat
    BY <1>1
  <2>. QED  BY <1>1, <1>3, <1>4, <2>1
<1>6. \A k \in Keys : /\ ToSet(idleConn'[k]) \subseteq ToSet(idleConn[k])
                      /\ ToSet(idleConn'[k]) \subseteq ToSet(idleLRU')
  BY <1>1, <1>2, <1>3, <1>4
<1>. QED  BY <1>2, <1>5, <1>6, PoolShrinks

\* queueForIdleConn takes an idle conn, and an HTTP/1 conn for good.
LEMMA takeIdleConnSets ==
  ASSUME TypeOK, PoolFiled, NEW w \in Wants, NEW n \in 0 .. Len(idleConn[key[w]]),
         takeIdleConn(w, idleConn[key[w]], n)
  PROVE  LET c == idleConn[key[w]][n]
         IN  /\ PoolFiled' /\ n # 0 /\ c \in Wants /\ c \in ToSet(idleLRU)
             /\ ToSet(idleLRU') \subseteq ToSet(idleLRU)
             /\ proto[c] = "h1" => c \notin ToSet(idleLRU')
<1>. DEFINE list == idleConn[key[w]]
            c == list[n]
<1>1. /\ key[w] \in Keys /\ idleConn \in [Keys -> Seq(Wants)] /\ idleLRU \in Seq(Wants)
      /\ \A k \in Keys : IsInjective(idleConn[k]) /\ ToSet(idleConn[k]) \subseteq ToSet(idleLRU)
      /\ IsInjective(idleLRU)
      /\ \A k \in Keys : \A d \in ToSet(idleConn[k]) : key[d] = k
  BY PoolAssumption DEF TypeOK, PoolFiled, PoolConsistent
<1>2. list \in Seq(Wants) /\ IsInjective(list) /\ n \in 1 .. Len(list) /\ n # 0 /\ Len(list) \in Nat
  BY <1>1 DEF takeIdleConn
<1>3. c \in ToSet(list) /\ c \in Wants /\ c \in ToSet(idleLRU)
  <2>. HIDE DEF list
  <2>1. c \in ToSet(list) /\ c \in Wants
    BY <1>2, ElementsOf
  <2>. QED  BY <1>1, <2>1 DEF list
<1>4. ASSUME NEW b \in 0 .. Len(list)
      PROVE  LET r == SubSeq(list, 1, b)
             IN  /\ r \in Seq(Wants) /\ Len(r) <= Len(list) /\ ToSet(r) \subseteq ToSet(list)
                 /\ IsInjective(r)
                 /\ n > b => c \notin ToSet(r)
  <2>. HIDE DEF list
  <2>1. 1 \in 1 .. Len(list) + 1
    BY <1>2
  <2>. QED  BY <1>2, <2>1, SubSeqSet
<1>5. /\ RemoveFirst(idleLRU, c) \in Seq(Wants) /\ Len(RemoveFirst(idleLRU, c)) <= Len(idleLRU)
      /\ ToSet(RemoveFirst(idleLRU, c)) = ToSet(idleLRU) \ {c} /\ IsInjective(RemoveFirst(idleLRU, c))
  <2>. HIDE DEF c
  <2>. QED  BY <1>1, RemoveFirstSet
<1>6. ASSUME NEW r \in Seq(Wants), Len(r) <= Len(list), ToSet(r) \subseteq ToSet(list), IsInjective(r),
             ToSet(r) \subseteq ToSet(idleLRU'), IsInjective(idleLRU'), Len(idleLRU') <= Len(idleLRU),
             idleLRU' \in Seq(Wants), ToSet(idleLRU) \ {c} \subseteq ToSet(idleLRU'),
             idleConn' = [idleConn EXCEPT ![key[w]] = r]
      PROVE  PoolFiled'
  <2>1. \A k \in Keys : idleConn'[k] = IF k = key[w] THEN r ELSE idleConn[k]
    BY <1>1, <1>6
  <2>2. key[c] = key[w]
    BY <1>1, <1>3
  <2>3. \A k \in Keys : k # key[w] => c \notin ToSet(idleConn[k])
    BY <1>1, <2>2
  <2>4. \A k \in Keys : /\ idleConn'[k] \in Seq(Wants) /\ IsInjective(idleConn'[k])
                        /\ Len(idleConn'[k]) <= Len(idleConn[k])
    <3>1. \A k \in Keys : Len(idleConn[k]) \in Nat
      BY <1>1
    <3>. QED  BY <1>1, <1>6, <2>1, <3>1
  <2>5. \A k \in Keys : /\ ToSet(idleConn'[k]) \subseteq ToSet(idleConn[k])
                        /\ ToSet(idleConn'[k]) \subseteq ToSet(idleLRU')
    <3>. HIDE DEF c
    <3>. QED  BY <1>1, <1>6, <2>1, <2>3
  <2>. QED  BY <1>6, <2>4, <2>5, PoolShrinks
<1>7. CASE /\ proto[c] = "h1" /\ idleLRU' = RemoveFirst(idleLRU, c)
           /\ idleConn' = [idleConn EXCEPT ![key[w]] = SubSeq(list, 1, n - 1)]
  <2>. DEFINE r == SubSeq(list, 1, n - 1)
  <2>1. n - 1 \in 0 .. Len(list) /\ n > n - 1
    BY <1>2
  <2>2. /\ r \in Seq(Wants) /\ Len(r) <= Len(list) /\ ToSet(r) \subseteq ToSet(list)
        /\ IsInjective(r) /\ c \notin ToSet(r)
    BY <1>4, <2>1
  <2>. HIDE DEF r
  <2>3. ToSet(r) \subseteq ToSet(idleLRU')
    BY <1>1, <1>5, <1>7, <2>2
  <2>4. PoolFiled'
    <3>. HIDE DEF c, list
    <3>. QED  BY <1>5, <1>6, <1>7, <2>2, <2>3 DEF r
  <2>. QED  BY <1>2, <1>3, <1>5, <1>7, <2>4
<1>8. CASE /\ proto[c] = "h2" /\ UNCHANGED idleLRU
           /\ idleConn' = [idleConn EXCEPT ![key[w]] = SubSeq(list, 1, n)]
  <2>. DEFINE r == SubSeq(list, 1, n)
  <2>1. /\ r \in Seq(Wants) /\ Len(r) <= Len(list) /\ ToSet(r) \subseteq ToSet(list) /\ IsInjective(r)
    BY <1>4
  <2>. HIDE DEF r
  <2>2. ToSet(r) \subseteq ToSet(idleLRU')
    BY <1>1, <1>8, <2>1
  <2>3. PoolFiled'
    <3>1. Len(idleLRU') <= Len(idleLRU)
      BY <1>1, <1>8
    <3>. HIDE DEF c, list
    <3>. QED  BY <1>1, <1>6, <1>8, <2>1, <2>2, <3>1 DEF r
  <2>. QED  BY <1>2, <1>3, <1>8, <2>3
<1>. QED  BY <1>7, <1>8 DEF takeIdleConn

\* Appending c to the list of its host keeps every list within its limit.
LEMMA AppendedList ==
  ASSUME TypeOK, PoolFiled, NEW c \in Wants, c \notin ToSet(idleLRU),
         Len(idleConn[key[c]]) < maxIdleConnsPerHost,
         NEW k \in Keys, NEW list, list = idleConn[k] \/ (k = key[c] /\ list = Append(idleConn[k], c))
  PROVE  /\ list \in Seq(Wants) /\ IsInjective(list)
         /\ ToSet(list) \subseteq ToSet(idleLRU) \cup {c}
         /\ Len(list) <= maxIdleConnsPerHost
         /\ \A d \in ToSet(list) : key[d] = k
<1>. DEFINE l == idleConn[key[c]]
            r == Append(l, c)
<1>1. /\ key[c] \in Keys /\ idleConn \in [Keys -> Seq(Wants)]
      /\ \A j \in Keys : IsInjective(idleConn[j]) /\ ToSet(idleConn[j]) \subseteq ToSet(idleLRU)
      /\ \A j \in Keys : \A d \in ToSet(idleConn[j]) : key[d] = j
  BY PoolAssumption DEF TypeOK, PoolFiled, PoolConsistent
<1>2. /\ \A j \in Keys : idleConn[j] \in Seq(Wants) /\ Len(idleConn[j]) \in Nat
      /\ l \in Seq(Wants) /\ maxIdleConnsPerHost \in Int
  BY <1>1, PoolAssumption DEF maxIdleConnsPerHost
<1>3. c \notin ToSet(l) /\ IsInjective(l)
  BY <1>1
<1>4. list = idleConn[k] \/ (k = key[c] /\ list = r)
  OBVIOUS
<1>5. 0 < maxIdleConnsPerHost
  BY <1>1, <1>2
<1>6. \A j \in Keys : Len(idleConn[j]) <= maxIdleConnsPerHost
  <2>1. \A j \in Keys : idleConn[j] = <<>> => Len(idleConn[j]) = 0
    BY <1>2
  <2>. QED  BY <1>2, <1>5, <2>1 DEF PoolFiled, PoolConsistent
<1>7. Len(l) < maxIdleConnsPerHost
  OBVIOUS
<1>. HIDE DEF l
<1>8. r \in Seq(Wants) /\ Len(r) = Len(l) + 1 /\ ToSet(r) = ToSet(l) \cup {c} /\ IsInjective(r)
  BY <1>2, <1>3, AppendSet
<1>9. Len(r) <= maxIdleConnsPerHost
  BY <1>2, <1>7, <1>8
<1>10. ToSet(r) \subseteq ToSet(idleLRU) \cup {c} /\ \A d \in ToSet(r) : key[d] = key[c]
  BY <1>1, <1>8 DEF l
<1>. HIDE DEF r
<1>. QED  BY <1>1, <1>2, <1>4, <1>6, <1>8, <1>9, <1>10

\* addIdle files c and no other conn; what it closes was idle.
LEMMA addIdleSets ==
  ASSUME TypeOK, PoolFiled, NEW c \in Wants, c \notin ToSet(idleLRU),
         Len(idleConn[key[c]]) < maxIdleConnsPerHost, addIdle(c)
  PROVE  /\ PoolFiled' /\ ToSet(idleLRU') \subseteq ToSet(idleLRU) \cup {c} /\ proto' = proto
         /\ \A x \in Wants : conn'[x] = conn[x]
              \/ (x \in ToSet(idleLRU) /\ conn[x] = "open" /\ conn'[x] = "closed" /\ x \notin ToSet(idleLRU'))
<1>. DEFINE list == [idleConn EXCEPT ![key[c]] = Append(@, c)]
            lru == Append(idleLRU, c)
            h == Head(lru)
<1>1. /\ idleLRU \in Seq(Wants) /\ IsInjective(idleLRU) /\ MaxIdleConns \in Nat /\ Len(idleLRU) \in Nat
      /\ MaxIdleConns # 0 => Len(idleLRU) <= MaxIdleConns
      /\ idleConn \in [Keys -> Seq(Wants)]
  BY PoolAssumption DEF TypeOK, PoolFiled, PoolConsistent
<1>2. /\ lru \in Seq(Wants) /\ Len(lru) = Len(idleLRU) + 1 /\ ToSet(lru) = ToSet(idleLRU) \cup {c}
      /\ IsInjective(lru) /\ lru # <<>>
  BY <1>1, AppendSet
<1>3. list \in [Keys -> Seq(Wants)]
  BY <1>1, PoolAssumption
<1>4. \A k \in Keys :
        /\ list[k] \in Seq(Wants) /\ IsInjective(list[k])
        /\ ToSet(list[k]) \subseteq ToSet(idleLRU) \cup {c}
        /\ Len(list[k]) <= maxIdleConnsPerHost
        /\ \A d \in ToSet(list[k]) : key[d] = k
  <2>1. \A k \in Keys : list[k] = idleConn[k] \/ (k = key[c] /\ list[k] = Append(idleConn[k], c))
    BY <1>1
  <2>. HIDE DEF list
  <2>. QED  BY <2>1, AppendedList
<1>5. CASE /\ MaxIdleConns = 0 \/ Len(lru) <= MaxIdleConns
           /\ idleConn' = list /\ idleLRU' = lru /\ UNCHANGED connVars
  <2>. HIDE DEF list, lru
  <2>1. PoolFiled'
    BY <1>2, <1>4, <1>5 DEF PoolFiled, PoolConsistent, maxIdleConnsPerHost
  <2>. QED  BY <1>2, <1>5, <2>1 DEF connVars
<1>6. CASE /\ MaxIdleConns # 0 /\ Len(lru) > MaxIdleConns
           /\ closeLocked(h, Waiters \ Recipients(c, idleConnWait[key[c]]))
           /\ idleConn' = [list EXCEPT ![key[h]] = RemoveFirst(@, h)]
           /\ idleLRU' = Tail(lru)
  <2>1. h \in Wants /\ h \in ToSet(idleLRU) /\ h # c
    <3>1. Len(idleLRU) >= 1
      BY <1>1, <1>2, <1>6
    <3>2. h = idleLRU[1] /\ 1 \in 1 .. Len(idleLRU)
      BY <1>1, <3>1
    <3>3. h \in ToSet(idleLRU)
      BY <1>1, <3>2, ElementsOf, Zenon
    <3>4. h \in Wants
      BY <1>1, <3>2
    <3>. QED  BY <3>3, <3>4
  <2>. DEFINE r == RemoveFirst(list[key[h]], h)
  <2>2. key[h] \in Keys
    BY <2>1, PoolAssumption
  <2>3. \A k \in Keys : idleConn'[k] = IF k = key[h] THEN r ELSE list[k]
    BY <1>3, <1>6, <2>2
  <2>. HIDE DEF list
  <2>4. r \in Seq(Wants) /\ Len(r) <= Len(list[key[h]]) /\ ToSet(r) = ToSet(list[key[h]]) \ {h} /\ IsInjective(r)
    BY <1>4, <2>2, RemoveFirstSet
  <2>5. \A k \in Keys : k # key[h] => h \notin ToSet(list[k])
    BY <1>4
  <2>. HIDE DEF r
  <2>. HIDE DEF lru
  <2>6. /\ idleLRU' \in Seq(Wants) /\ Len(idleLRU') = Len(lru) - 1 /\ IsInjective(idleLRU')
        /\ ToSet(idleLRU') = ToSet(lru) \ {h}
    BY <1>2, <1>6, TailSet
  <2>. HIDE DEF h
  <2>7. \A k \in Keys : /\ IsInjective(idleConn'[k]) /\ ToSet(idleConn'[k]) \subseteq ToSet(idleLRU')
                        /\ \A d \in ToSet(idleConn'[k]) : key[d] = k
    BY <1>2, <1>4, <2>2, <2>3, <2>4, <2>5, <2>6
  <2>8. Len(r) <= maxIdleConnsPerHost
    <3>1. Len(r) \in Nat /\ Len(list[key[h]]) \in Nat /\ maxIdleConnsPerHost \in Int
      BY <1>4, <2>2, <2>4, PoolAssumption DEF maxIdleConnsPerHost
    <3>. QED  BY <1>4, <2>2, <2>4, <3>1
  <2>9. \A k \in Keys : Len(idleConn'[k]) <= maxIdleConnsPerHost
    BY <1>4, <2>3, <2>8
  <2>10. Len(idleLRU') <= MaxIdleConns
    BY <1>1, <1>2, <1>6, <2>6
  <2>11. PoolFiled'
    BY <2>6, <2>7, <2>9, <2>10 DEF PoolFiled, PoolConsistent, maxIdleConnsPerHost
  <2>12. /\ \A x \in Wants : conn'[x] = conn[x] \/ (x = h /\ conn[x] = "open" /\ conn'[x] = "closed")
         /\ proto' = proto
    BY <1>6, <2>1, closeLockedConn
  <2>. QED  BY <1>2, <2>1, <2>6, <2>11, <2>12
<1>. QED  BY <1>5, <1>6 DEF addIdle

\* What queueForIdleConn does with the list of idle conns.
LEMMA queueForIdleConnCases ==
  ASSUME TypeOK, NEW w \in Wants, queueForIdleConn(w)
  PROVE  \/ /\ UNCHANGED <<idleConn, idleLRU, wpc, held>> /\ req' = [req EXCEPT ![w] = "dialq"]
         \/ /\ idleConn' = [idleConn EXCEPT ![key[w]] = <<>>] /\ UNCHANGED <<idleLRU, wpc, held>>
            /\ req' = [req EXCEPT ![w] = "dialq"]
         \/ \E n \in 0 .. Len(idleConn[key[w]]) :
              takeIdleConn(w, idleConn[key[w]], n) /\ (n # 0 => conn[idleConn[key[w]][n]] = "open")
<1>. DEFINE list == idleConn[key[w]]
            Old == IF IdleConnTimeout THEN 0 .. Len(list) ELSE {0}
<1>1. list \in Seq(Wants)
  BY PoolAssumption DEF TypeOK
<1>2. CASE UNCHANGED <<idleConn, idleLRU, wpc, held>> /\ req' = [req EXCEPT ![w] = "dialq"]
  BY <1>2
<1>3. ASSUME NEW old \in Old, takeIdleConn(w, list, Usable(list, old))
      PROVE  \E n \in 0 .. Len(list) : takeIdleConn(w, list, n) /\ (n # 0 => conn[list[n]] = "open")
  <2>1. old \in 0 .. Len(list)
    BY <1>1, PoolAssumption
  <2>. HIDE DEF list
  <2>2. /\ Usable(list, old) \in 0 .. Len(list)
        /\ Usable(list, old) # 0 => conn[list[Usable(list, old)]] = "open"
    BY <1>1, <2>1, UsableProperty
  <2>. QED  BY <1>3, <2>2, Zenon
<1>4. ASSUME NEW old \in Old, awaitIdleConn(w, list, old, Usable(list, old))
      PROVE  /\ idleConn' = [idleConn EXCEPT ![key[w]] = <<>>] /\ UNCHANGED <<idleLRU, wpc, held>>
             /\ req' = [req EXCEPT ![w] = "dialq"]
  BY <1>4, Zenon DEF awaitIdleConn
<1>. QED  BY <1>2, <1>3, <1>4, Zenon DEF queueForIdleConn, idleVars

\* A conn on its way to the pool is not in it, but for HTTP/2.
LEMMA PutNotIdle ==
  ASSUME OwnersInv, NEW p \in puts, ~alreadyIdle(p.conn)
  PROVE  p.conn \in Wants /\ p.conn \notin ToSet(idleLRU)
<1>1. p.conn \in Wants /\ proto[p.conn] \in {"h1", "h2"}
  BY DEF OwnersInv, TypeOK, Putting
<1>2. proto[p.conn] = "h1" => ~Parked(p.conn)
  BY <1>1 DEF OwnersInv, OneOwner, OwnedOnce
<1>. QED  BY <1>1, <1>2 DEF Parked, alreadyIdle

\* What tryPutIdleConn does to the pool.
LEMMA tryPutIdleConnSets ==
  ASSUME OwnersInv, NEW p \in puts, tryPutIdleConn(p)
  PROVE  /\ PoolFiled' /\ ToSet(idleLRU') \subseteq ToSet(idleLRU) \cup {p.conn} /\ proto' = proto
         /\ \A x \in Wants : conn'[x] = conn[x]
              \/ (x \in ToSet(idleLRU) /\ conn[x] = "open" /\ conn'[x] = "closed" /\ x \notin ToSet(idleLRU'))
<1>1. CASE UNCHANGED <<idleConn, idleLRU, connVars>>
  BY <1>1 DEF OwnersInv, PoolFiled, PoolConsistent, maxIdleConnsPerHost, connVars
<1>2. CASE ~alreadyIdle(p.conn) /\ addIdle(p.conn) /\ ~(Len(idleConn[key[p.conn]]) >= maxIdleConnsPerHost)
  <2>1. p.conn \in Wants /\ p.conn \notin ToSet(idleLRU)
    BY <1>2, PutNotIdle
  <2>2. Len(idleConn[key[p.conn]]) < maxIdleConnsPerHost
    <3>1. Len(idleConn[key[p.conn]]) \in Nat /\ maxIdleConnsPerHost \in Int
      BY <2>1, PoolAssumption DEF OwnersInv, TypeOK, maxIdleConnsPerHost
    <3>. QED  BY <1>2, <3>1
  <2>. QED  BY <1>2, <2>1, <2>2, addIdleSets DEF OwnersInv
<1>. QED  BY <1>1, <1>2, Zenon DEF tryPutIdleConn, idleVars

\* No step loses the order of the pool.
LEMMA PoolStep ==
  ASSUME OwnersInv, [Next]_vars
  PROVE  PoolFiled'
<1>1. CASE UNCHANGED <<idleConn, idleLRU>>
  BY <1>1 DEF OwnersInv, PoolFiled, PoolConsistent, maxIdleConnsPerHost
<1>2. ASSUME NEW c \in Wants, removeIdleConnLocked(c, idleConn, idleLRU)
      PROVE  PoolFiled'
  BY <1>2, removeIdleConnLockedSets DEF OwnersInv
<1>3. CASE CloseIdleConnections
  <2>1. idleLRU' = <<>> /\ \A k \in Keys : idleConn'[k] = <<>>
    BY <1>3 DEF CloseIdleConnections
  <2>2. MaxIdleConns # 0 => Len(<<>>) <= MaxIdleConns
    BY PoolAssumption
  <2>. QED  BY <2>1, <2>2, EmptyElements DEF PoolFiled, PoolConsistent
<1>4. ASSUME NEW w \in Wants, queueForIdleConn(w)
      PROVE  PoolFiled'
  <2>1. CASE idleConn' = [idleConn EXCEPT ![key[w]] = <<>>] /\ UNCHANGED idleLRU
    <3>1. \A k \in Keys : idleConn'[k] = idleConn[k] \/ idleConn'[k] = <<>>
      BY <2>1 DEF OwnersInv, TypeOK
    <3>. QED
      BY <2>1, <3>1, EmptyElements DEF OwnersInv, PoolFiled, PoolConsistent, maxIdleConnsPerHost
  <2>2. ASSUME NEW n \in 0 .. Len(idleConn[key[w]]), takeIdleConn(w, idleConn[key[w]], n)
        PROVE  PoolFiled'
    BY <2>2, takeIdleConnSets DEF OwnersInv
  <2>. QED  BY <1>1, <1>4, <2>1, <2>2, queueForIdleConnCases, Zenon DEF OwnersInv
<1>5. ASSUME NEW w \in Wants, noCachedConn(w)
      PROVE  PoolFiled'
  <2>1. held[w] \in Wants
    BY <1>5 DEF noCachedConn, OwnersInv, TypeOK
  <2>. QED  BY <1>2, <1>5, <2>1, Zenon DEF noCachedConn
<1>6. CASE Next
  BY <1>1, <1>2, <1>3, <1>4, <1>5, <1>6, tryPutIdleConnSets, ZenonT(60)
  DEF Next, Request, Cancel, Dial, IdleClose, PutStep, queueForDial, getConnReady, answered,
      roundTripFailed, noCachedConnDec, getConnCanceled, canceledBeforeRoundTrip, dialBegins,
      dialSucceeds, dialFails, dialGivesUp, readLoopCloses, readLoopExits, timerFires,
      closeConnIfStillIdle, closeIdleConn, tryPutCheck, putClose, idleVars
<1>7. CASE UNCHANGED vars
  BY <1>1, <1>7 DEF vars, idleVars
<1>. QED  BY <1>6, <1>7, Zenon

----------------------------------------------------------------------------
(* Nothing refers to a conn that has not been dialed                       *)

\* A conn is dialed, open and then closed.
LEMMA ConnStep ==
  ASSUME OwnersInv, [Next]_vars
  PROVE  \A x \in Wants : \/ conn'[x] = conn[x]
                          \/ conn[x] = "none" /\ dialSucceeds(x)
                          \/ conn[x] = "open" /\ conn'[x] = "closed"
<1>. DEFINE Goal == \A x \in Wants : \/ conn'[x] = conn[x]
                                     \/ conn[x] = "none" /\ dialSucceeds(x)
                                     \/ conn[x] = "open" /\ conn'[x] = "closed"
<1>. USE DEF OwnersInv
<1>1. CASE UNCHANGED conn
  BY <1>1
<1>2. ASSUME NEW c \in Wants, NEW S, closeLocked(c, S)
      PROVE  Goal
  BY <1>2, closeLockedConn
<1>3. ASSUME NEW w \in Wants, dialSucceeds(w)
      PROVE  Goal
  <2>1. dial[w] = "dialing" /\ conn' = [conn EXCEPT ![w] = "open"]
    BY <1>3, Zenon DEF dialSucceeds
  <2>2. conn[w] = "none"
    BY <2>1 DEF DialedOnce
  <2>. QED  BY <1>3, <2>1, <2>2 DEF TypeOK
<1>4. ASSUME NEW w \in Wants, roundTripFailed(w)
      PROVE  Goal
  <2>1. held[w] \in Wants
    BY <1>4 DEF roundTripFailed, TypeOK
  <2>. HIDE DEF Goal
  <2>. QED  BY <1>1, <1>2, <1>4, <2>1, Zenon DEF roundTripFailed, connVars, Goal
<1>5. ASSUME NEW p \in puts, tryPutIdleConn(p)
      PROVE  Goal
  BY <1>5, tryPutIdleConnSets
<1>6. ASSUME NEW p \in puts, putClose(p)
      PROVE  Goal
  <2>1. p.conn \in Wants /\ closeLocked(p.conn, Waiters)
    BY <1>6 DEF putClose, TypeOK, Putting
  <2>. QED  BY <1>2, <2>1
<1>7. CASE Next
  <2>. HIDE DEF OwnersInv, Goal
  <2>. QED
    BY <1>1, <1>2, <1>3, <1>4, <1>5, <1>6, <1>7, ZenonT(60)
    DEF Next, Request, Cancel, Dial, IdleClose, PutStep, queueForIdleConn, queueForDial, getConnReady,
        answered, noCachedConn, noCachedConnDec, getConnCanceled, canceledBeforeRoundTrip, dialBegins,
        dialFails, dialGivesUp, readLoopCloses, readLoopExits, timerFires, closeConnIfStillIdle,
        closeIdleConn, CloseIdleConnections, tryPutCheck, connVars, Goal
<1>8. CASE UNCHANGED vars
  BY <1>8 DEF vars, connVars
<1>. QED  BY <1>7, <1>8, Zenon

\* A step that hands on only conns that have been dialed.
LEMMA DialedKept ==
  ASSUME TypeOK, Dialed,
         \A x \in Wants : conn[x] # "none" => conn'[x] # "none",
         \A w \in Wants : \/ wpc'[w] \in {wpc[w], NoConn}
                          \/ conn'[wpc'[w]] # "none",
         \A w \in Wants : \/ held'[w] \in {held[w], wpc[w]}
                          \/ conn'[held'[w]] # "none",
         \A p \in puts' : (\E q \in puts : p.conn = q.conn) \/ conn'[p.conn] # "none",
         \A c \in ToSet(idleLRU') \cup toClose' : c \in ToSet(idleLRU) \cup toClose \/ conn'[c] # "none"
  PROVE  Dialed'
<1>1. ToSet(idleLRU) \cup toClose \subseteq Wants /\ \A p \in puts : p.conn \in Wants
  BY ElementsOf DEF TypeOK, Putting
<1>2. \A w \in Wants : wpc'[w] # NoConn => conn'[wpc'[w]] # "none"
  BY DEF TypeOK, Dialed
<1>3. \A w \in Wants : held'[w] # NoConn => conn'[held'[w]] # "none"
  BY DEF TypeOK, Dialed
<1>4. \A p \in puts' : conn'[p.conn] # "none"
  BY <1>1 DEF Dialed
<1>5. \A c \in ToSet(idleLRU') \cup toClose' : conn'[c] # "none"
  BY <1>1 DEF Dialed
<1>. QED  BY <1>2, <1>3, <1>4, <1>5 DEF Dialed

----------------------------------------------------------------------------
(* A conn is in one hand                                                   *)

\* The step gives c to nobody: c stays in a hand it was in, or leaves it.
Kept(c) ==
  /\ \A u \in Wants : Uses(u, c)' => Uses(u, c)
  /\ \A p \in puts' : p.conn = c => \E q \in puts : q.conn = c
  /\ proto[c] = "h1" => \A p, q \in puts' : p.conn = c /\ q.conn = c => p = q
  /\ Parked(c)' => Parked(c)
  /\ c \in ToSet(idleLRU') /\ c \in toClose' => c \in ToSet(idleLRU) /\ c \in toClose

\* A step that gives conns to nobody keeps each in one hand.
LEMMA OwnedKept ==
  ASSUME NEW c \in Wants, proto[c] = "h1", OwnedOnce(c), Kept(c)
  PROVE  OwnedOnce(c)'
BY Zenon DEF OwnedOnce, Kept

\* A request that is through with its conn, or has failed, uses none.
LEMMA UsesEnds ==
  ASSUME TypeOK, NEW w \in Wants, NEW x, x \notin {"using", "dialq", "select"},
         req' = [req EXCEPT ![w] = x], UNCHANGED held, \A v \in Wants : v # w => wpc'[v] = wpc[v]
  PROVE  \A u, c \in Wants : Uses(u, c)' => u # w /\ Uses(u, c)
<1>1. req'[w] = x /\ \A v \in Wants : v # w => req'[v] = req[v]
  BY DEF TypeOK
<1>. QED  BY <1>1 DEF Uses

\* Steps that do not touch the hands of conns.
LEMMA UsesSame ==
  ASSUME UNCHANGED <<req, held, wpc>>
  PROVE  \A u, c \in Wants : Uses(u, c)' => Uses(u, c)
BY DEF Uses

\* A step that only takes conns out of hands.
LEMMA HandsShrink ==
  ASSUME OwnersInv, [Next]_vars, UNCHANGED proto,
         \A u, c \in Wants : Uses(u, c)' => Uses(u, c),
         \A w \in Wants : wpc'[w] \in {wpc[w], NoConn},
         \A w \in Wants : held'[w] \in {held[w], wpc[w]},
         puts' \subseteq puts,
         ToSet(idleLRU') \subseteq ToSet(idleLRU), toClose' \subseteq toClose
  PROVE  Dialed' /\ OneOwner'
<1>1. \A x \in Wants : conn[x] # "none" => conn'[x] # "none"
  BY ConnStep DEF dialSucceeds, OwnersInv, TypeOK
<1>2. Dialed'
  BY <1>1, DialedKept DEF OwnersInv
<1>3. ASSUME NEW c \in Wants, proto[c] = "h1"  PROVE OwnedOnce(c)'
  <2>1. OwnedOnce(c)
    BY <1>3 DEF OwnersInv, OneOwner
  <2>2. Kept(c)
    BY <2>1, Zenon DEF Kept, OwnedOnce, Parked
  <2>. QED  BY <1>3, <2>1, <2>2, OwnedKept
<1>. QED  BY <1>2, <1>3 DEF OneOwner

\* One conn changes hands, and what it is given to has it alone.
LEMMA HandsMove ==
  ASSUME OwnersInv, [Next]_vars, NEW c \in Wants, conn'[c] # "none",
         \A x \in Wants : x # c /\ proto'[x] = "h1" => proto[x] = "h1" /\ Kept(x),
         proto'[c] = "h1" => OwnedOnce(c)',
         \A w \in Wants : wpc'[w] \in {wpc[w], NoConn, c},
         \A w \in Wants : held'[w] \in {held[w], wpc[w], c},
         \A p \in puts' : (\E q \in puts : p.conn = q.conn) \/ p.conn = c,
         \A x \in ToSet(idleLRU') \cup toClose' : x \in ToSet(idleLRU) \cup toClose \/ x = c
  PROVE  Dialed' /\ OneOwner'
<1>1. \A x \in Wants : conn[x] # "none" => conn'[x] # "none"
  BY ConnStep DEF dialSucceeds, OwnersInv, TypeOK
<1>2. Dialed'
  BY <1>1, DialedKept DEF OwnersInv
<1>3. ASSUME NEW x \in Wants, x # c, proto'[x] = "h1"  PROVE OwnedOnce(x)'
  BY <1>3, OwnedKept DEF OwnersInv, OneOwner
<1>. QED  BY <1>2, <1>3 DEF OneOwner

\* A step that keeps the hands of every conn but c.
LEMMA KeptApart ==
  ASSUME OwnersInv, NEW c \in Wants, NEW x \in Wants, x # c, proto[x] = "h1",
         \A u \in Wants : Uses(u, x)' => Uses(u, x),
         \A p \in puts' : p \in puts \/ p.conn = c,
         ToSet(idleLRU') \subseteq ToSet(idleLRU) \cup {c}, toClose' \subseteq toClose
  PROVE  Kept(x)
<1>1. OwnedOnce(x)
  BY DEF OwnersInv, OneOwner
<1>2. \A p \in puts' : p.conn = x => p \in puts
  OBVIOUS
<1>3. Parked(x)' => Parked(x)
  BY DEF Parked
<1>. QED  BY <1>1, <1>2, <1>3, Zenon DEF Kept, OwnedOnce, Parked

\* A request gives its conn back, by a put.
LEMMA HandsBack ==
  ASSUME OwnersInv, [Next]_vars, NEW w \in Wants, NEW c \in Wants, Uses(w, c), conn[c] # "none",
         NEW p, p.conn = c, puts' = puts \cup {p},
         \A u, x \in Wants : Uses(u, x)' => u # w /\ Uses(u, x),
         \A v \in Wants : wpc'[v] \in {wpc[v], NoConn},
         UNCHANGED <<conn, proto, held, idleLRU, toClose>>
  PROVE  Dialed' /\ OneOwner'
<1>1. ASSUME NEW x \in Wants, x # c, proto'[x] = "h1"  PROVE Kept(x)
  BY <1>1, KeptApart
<1>2. ASSUME proto'[c] = "h1"  PROVE OwnedOnce(c)'
  <2>1. OwnedOnce(c)
    BY <1>2 DEF OwnersInv, OneOwner
  <2>2. \A u \in Wants : ~Uses(u, c)'
    BY <2>1 DEF OwnedOnce
  <2>3. \A q \in puts' : q.conn = c => q = p
    BY <2>1 DEF OwnedOnce
  <2>4. ~Parked(c)'
    BY <2>1 DEF OwnedOnce, Parked
  <2>. QED  BY <2>2, <2>3, <2>4 DEF OwnedOnce, Parked
<1>3. \A q \in puts' : (\E r \in puts : q.conn = r.conn) \/ q.conn = c
  OBVIOUS
<1>. QED  BY <1>1, <1>2, <1>3, HandsMove

\* queueForIdleConn gives the call the conn it finds.
LEMMA queueForIdleConnHands ==
  ASSUME OwnersInv, [Next]_vars, NEW w \in Wants, queueForIdleConn(w)
  PROVE  Dialed' /\ OneOwner'
<1>. USE DEF OwnersInv
<1>1. req[w] = "new" /\ UNCHANGED <<conn, proto, puts, toClose>>
  BY Zenon DEF queueForIdleConn, connVars
<1>2. wpc[w] = NoConn
  BY <1>1 DEF Registered
<1>3. CASE UNCHANGED <<idleLRU, wpc, held>> /\ req' = [req EXCEPT ![w] = "dialq"]
  <2>1. \A u, c \in Wants : Uses(u, c)' => Uses(u, c)
    BY <1>2, <1>3, PoolAssumption DEF Uses, TypeOK
  <2>. QED  BY <1>1, <1>3, <2>1, HandsShrink
<1>4. ASSUME NEW n \in 0 .. Len(idleConn[key[w]]), takeIdleConn(w, idleConn[key[w]], n)
      PROVE  Dialed' /\ OneOwner'
  <2>0. PICK c \in Wants : c = idleConn[key[w]][n]
    BY <1>4, takeIdleConnSets
  <2>1. /\ c \in ToSet(idleLRU) /\ ToSet(idleLRU') \subseteq ToSet(idleLRU)
        /\ proto[c] = "h1" => c \notin ToSet(idleLRU')
    BY <1>4, <2>0, takeIdleConnSets
  <2>2. /\ wpc' = [wpc EXCEPT ![w] = c] /\ held' = [held EXCEPT ![w] = c]
        /\ req' = [req EXCEPT ![w] = "using"]
    BY <1>4, <2>0 DEF takeIdleConn
  <2>3. conn'[c] # "none"
    BY <1>1, <2>1 DEF Dialed
  <2>4. \A u, x \in Wants : Uses(u, x)' => Uses(u, x) \/ (u = w /\ x = c)
    BY <2>2 DEF Uses, TypeOK
  <2>5. ASSUME NEW x \in Wants, x # c, proto'[x] = "h1"  PROVE Kept(x)
    BY <1>1, <2>1, <2>4, <2>5, KeptApart
  <2>6. ASSUME proto'[c] = "h1"  PROVE OwnedOnce(c)'
    <3>1. OwnedOnce(c)
      BY <1>1, <2>1, <2>6 DEF OneOwner
    <3>2. (\A u \in Wants : ~Uses(u, c)) /\ (\A p \in puts : p.conn # c) /\ c \notin toClose
      BY <2>1, <3>1 DEF OwnedOnce, Parked
    <3>3. \A u \in Wants : Uses(u, c)' => u = w
      BY <2>1, <2>4, <3>2
    <3>4. ~Parked(c)' /\ \A p \in puts' : p.conn # c
      BY <1>1, <2>1, <2>6, <3>2 DEF Parked
    <3>. QED  BY <3>3, <3>4, Zenon DEF OwnedOnce, Parked
  <2>7. /\ \A v \in Wants : wpc'[v] \in {wpc[v], NoConn, c}
        /\ \A v \in Wants : held'[v] \in {held[v], wpc[v], c}
    BY <2>2 DEF TypeOK
  <2>8. \A x \in ToSet(idleLRU') \cup toClose' : x \in ToSet(idleLRU) \cup toClose
    BY <1>1, <2>1
  <2>9. \A x \in Wants : x # c /\ proto'[x] = "h1" => proto[x] = "h1" /\ Kept(x)
    BY <1>1, <2>5
  <2>. HIDE DEF OwnersInv
  <2>. QED  BY <1>1, <2>1, <2>3, <2>6, <2>7, <2>8, <2>9, HandsMove
<1>. QED  BY <1>3, <1>4, queueForIdleConnCases, Zenon

\* tryPutIdleConn hands a conn to calls that wait, an HTTP/1 conn to one.
LEMMA RecipientsWait ==
  ASSUME TypeOK, NEW c \in Wants
  PROVE  /\ Recipients(c, idleConnWait[key[c]]) \subseteq Waiters
         /\ proto[c] = "h1" => \A u, v \in Recipients(c, idleConnWait[key[c]]) : u = v
<1>. DEFINE q == idleConnWait[key[c]]
            i == FirstIn(q, Waiters)
<1>1. q \in Seq(Wants)
  BY PoolAssumption DEF TypeOK
<1>2. i # 0 => q[i] \in Waiters
  BY <1>1, FirstInProperty
<1>3. \A j \in WaitingIn(q) : q[j] \in Waiters
  BY <1>1 DEF WaitingIn, Waiters
<1>. HIDE DEF q, i
<1>. QED  BY <1>2, <1>3 DEF Recipients, q, i

\* tryPutIdleConn moves the conn from the put to a waiting call or to the
\* pool, or leaves it to the put, which will close it.
LEMMA tryPutIdleConnHands ==
  ASSUME OwnersInv, [Next]_vars, NEW p \in puts, tryPutIdleConn(p)
  PROVE  Dialed' /\ OneOwner'
<1>. USE DEF OwnersInv
<1>0. PICK c \in Wants : c = p.conn
  BY DEF TypeOK, Putting
<1>1. UNCHANGED <<req, held, toClose, proto>> /\ ToSet(idleLRU') \subseteq ToSet(idleLRU) \cup {c}
  BY <1>0, tryPutIdleConnSets DEF tryPutIdleConn
<1>. DEFINE R == Recipients(c, idleConnWait[key[c]])
<1>2. R \subseteq Waiters /\ (proto[c] = "h1" => \A u, v \in R : u = v)
  BY RecipientsWait
<1>. HIDE DEF R
<1>3. \A q \in puts' : q \in puts \/ q.conn = c
  BY <1>0 DEF tryPutIdleConn, PutAccepted, PutRefused, TypeOK, Putting
<1>4. \A w \in Wants : wpc'[w] = wpc[w] \/ (w \in R /\ wpc'[w] = c)
  BY <1>0 DEF tryPutIdleConn, deliverIdle, R
<1>5. \A u, x \in Wants : Uses(u, x)' => Uses(u, x) \/ (x = c /\ u \in R)
  BY <1>1, <1>4 DEF Uses
<1>6. ASSUME NEW x \in Wants, x # c, proto'[x] = "h1"  PROVE proto[x] = "h1" /\ Kept(x)
  <2>1. proto[x] = "h1" /\ (\A u \in Wants : Uses(u, x)' => Uses(u, x)) /\ toClose' \subseteq toClose
    BY <1>1, <1>5, <1>6
  <2>. HIDE DEF OwnersInv
  <2>. QED  BY <1>1, <1>3, <1>6, <2>1, KeptApart
<1>7. ASSUME proto'[c] = "h1"  PROVE OwnedOnce(c)'
  <2>1. proto[c] = "h1" /\ OwnedOnce(c)
    BY <1>1, <1>7 DEF OneOwner
  <2>2. /\ \A u \in Wants : ~Uses(u, c)
        /\ \A q \in puts : q.conn = c => q = p
        /\ c \notin ToSet(idleLRU) /\ c \notin toClose
    BY <1>0, <2>1, Zenon DEF OwnedOnce, Parked
  <2>3. \A u \in Wants : Uses(u, c)' => u \in R
    BY <1>5, <2>2
  <2>4. ~alreadyIdle(c)
    BY <2>1 DEF alreadyIdle
  <2>5. CASE R # {} /\ puts' = puts \ {p} /\ UNCHANGED idleLRU
    <3>1. \A u, v \in Wants : Uses(u, c)' /\ Uses(v, c)' => u = v
      BY <1>2, <2>1, <2>3
    <3>2. \A q \in puts' : q.conn # c
      BY <2>2, <2>5
    <3>3. c \notin ToSet(idleLRU') /\ c \notin toClose'
      BY <1>1, <2>2, <2>5
    <3>. QED  BY <3>1, <3>2, <3>3, Zenon DEF OwnedOnce, Parked
  <2>6. CASE R = {} /\ puts' = (puts \ {p}) \cup {[p EXCEPT !.at = "close"]} /\ UNCHANGED idleLRU
    <3>1. \A u \in Wants : ~Uses(u, c)'
      BY <2>3, <2>6
    <3>2. \A q \in puts' : q.conn = c => q = [p EXCEPT !.at = "close"]
      BY <2>2, <2>6
    <3>3. c \notin ToSet(idleLRU') /\ c \notin toClose'
      BY <1>1, <2>2, <2>6
    <3>. QED  BY <3>1, <3>2, <3>3, Zenon DEF OwnedOnce, Parked
  <2>7. CASE R = {} /\ puts' = puts \ {p}
    <3>1. \A u \in Wants : ~Uses(u, c)'
      BY <2>3, <2>7
    <3>2. \A q \in puts' : q.conn # c
      BY <2>2, <2>7
    <3>3. c \notin toClose'
      BY <1>1, <2>2
    <3>. QED  BY <3>1, <3>2, <3>3, Zenon DEF OwnedOnce, Parked
  <2>. QED
    BY <1>0, <2>1, <2>4, <2>5, <2>6, <2>7, Zenon DEF tryPutIdleConn, PutAccepted, PutRefused, R
<1>8. conn'[c] # "none"
  BY <1>0, ConnStep DEF Dialed, dialSucceeds, TypeOK
<1>. HIDE DEF OwnersInv
<1>9. /\ \A w \in Wants : wpc'[w] \in {wpc[w], NoConn, c}
      /\ \A w \in Wants : held'[w] \in {held[w], wpc[w], c}
  BY <1>1, <1>4
<1>. QED  BY <1>1, <1>3, <1>6, <1>7, <1>8, <1>9, HandsMove

\* A dial gives its conn to the call it was for, or to a put.
LEMMA dialSucceedsHands ==
  ASSUME OwnersInv, [Next]_vars, NEW w \in Wants, dialSucceeds(w)
  PROVE  Dialed' /\ OneOwner'
<1>. USE DEF OwnersInv
<1>1. /\ dial[w] = "dialing" /\ UNCHANGED <<req, held, toClose, idleLRU>>
      /\ conn' = [conn EXCEPT ![w] = "open"]
      /\ wpc' = IF Waiting(w) THEN [wpc EXCEPT ![w] = w] ELSE wpc
  BY Zenon DEF dialSucceeds, idleVars
<1>2. PICK t \in Protos : /\ proto' = [proto EXCEPT ![w] = t]
                          /\ puts' = IF t = "h2" \/ ~Waiting(w) THEN puts \cup {Put("dial", w, w)} ELSE puts
  BY Zenon DEF dialSucceeds
<1>3. conn[w] = "none" /\ conn'[w] # "none"
  BY <1>1 DEF DialedOnce, TypeOK
<1>4. /\ \A u \in Wants : ~Uses(u, w)
      /\ \A q \in puts : q.conn # w
      /\ w \notin ToSet(idleLRU) /\ w \notin toClose
  BY <1>3, PoolAssumption DEF Dialed, Uses, TypeOK
<1>5. Put("dial", w, w).conn = w
  BY DEF Put
<1>6. \A q \in puts' : q \in puts \/ q.conn = w
  BY <1>2, <1>5
<1>7. \A v \in Wants : wpc'[v] = wpc[v] \/ (v = w /\ wpc'[v] = w /\ Waiting(w))
  BY <1>1 DEF TypeOK
<1>8. \A u, x \in Wants : Uses(u, x)' => Uses(u, x) \/ (x = w /\ u = w /\ Waiting(w))
  BY <1>1, <1>7 DEF Uses
<1>9. ASSUME NEW x \in Wants, x # w, proto'[x] = "h1"  PROVE proto[x] = "h1" /\ Kept(x)
  <2>1. proto[x] = "h1"
    BY <1>2, <1>9 DEF TypeOK
  <2>2. /\ \A u \in Wants : Uses(u, x)' => Uses(u, x)
        /\ ToSet(idleLRU') \subseteq ToSet(idleLRU) \cup {w} /\ toClose' \subseteq toClose
    BY <1>1, <1>8, <1>9
  <2>. HIDE DEF OwnersInv
  <2>. QED  BY <1>6, <1>9, <2>1, <2>2, KeptApart
<1>10. ASSUME proto'[w] = "h1"  PROVE OwnedOnce(w)'
  <2>1. t = "h1"
    BY <1>2, <1>10 DEF TypeOK
  <2>2. w \notin ToSet(idleLRU') /\ w \notin toClose'
    BY <1>1, <1>4
  <2>3. \A u \in Wants : Uses(u, w)' => u = w /\ Waiting(w)
    BY <1>4, <1>8
  <2>4. \A q \in puts' : q.conn = w => q = Put("dial", w, w) /\ ~Waiting(w)
    BY <1>2, <1>4, <2>1
  <2>. QED  BY <2>2, <2>3, <2>4, Zenon DEF OwnedOnce, Parked
<1>. HIDE DEF OwnersInv
<1>11. /\ \A v \in Wants : wpc'[v] \in {wpc[v], NoConn, w}
       /\ \A v \in Wants : held'[v] \in {held[v], wpc[v], w}
  BY <1>1, <1>7
<1>. QED  BY <1>1, <1>3, <1>6, <1>9, <1>10, <1>11, HandsMove

\* Every step keeps every HTTP/1 conn in one hand.
LEMMA HandsStep ==
  ASSUME OwnersInv, [Next]_vars
  PROVE  Dialed' /\ OneOwner'
<1>. USE DEF OwnersInv
<1>1. CASE UNCHANGED <<proto, req, held, wpc, puts, idleLRU, toClose>>
  BY <1>1, UsesSame, HandsShrink
<1>2. ASSUME NEW c \in Wants, UNCHANGED <<proto, req, held, wpc, puts, toClose>>,
             removeIdleConnLocked(c, idleConn, idleLRU)
      PROVE  Dialed' /\ OneOwner'
  BY <1>2, removeIdleConnLockedSets, UsesSame, HandsShrink
<1>3. ASSUME NEW w \in Wants, queueForDial(w)
      PROVE  Dialed' /\ OneOwner'
  <2>1. /\ req[w] = "dialq" /\ req' = [req EXCEPT ![w] = "select"]
        /\ UNCHANGED <<proto, held, wpc, puts, idleLRU, toClose>>
    BY <1>3, Zenon DEF queueForDial, wantVars, connVars, idleVars
  <2>2. \A u, c \in Wants : Uses(u, c)' => Uses(u, c)
    BY <2>1 DEF Uses, TypeOK
  <2>. QED  BY <2>1, <2>2, HandsShrink
<1>4. ASSUME NEW w \in Wants, getConnReady(w)
      PROVE  Dialed' /\ OneOwner'
  <2>1. req[w] = "select" /\ UNCHANGED <<proto, wpc, puts, idleLRU, toClose>>
    BY <1>4, Zenon DEF getConnReady, wantVars, connVars, idleVars
  <2>2. \/ req' = [req EXCEPT ![w] = "using"] /\ held' = [held EXCEPT ![w] = wpc[w]]
        \/ req' = [req EXCEPT ![w] = "done"] /\ UNCHANGED held
    BY <1>4, Zenon DEF getConnReady
  <2>3. \A u, c \in Wants : Uses(u, c)' => Uses(u, c)
    BY <2>1, <2>2 DEF Uses, TypeOK
  <2>4. \A v \in Wants : held'[v] \in {held[v], wpc[v]}
    BY <2>2 DEF TypeOK
  <2>. QED  BY <2>1, <2>3, <2>4, HandsShrink
<1>5. ASSUME NEW w \in Wants, getConnCanceled(w)
      PROVE  Dialed' /\ OneOwner'
  <2>1. /\ req[w] = "select" /\ req' = [req EXCEPT ![w] = "done"] /\ wpc' = [wpc EXCEPT ![w] = NoConn]
        /\ puts' = IF wpc[w] = NoConn THEN puts ELSE puts \cup {Put("req", w, wpc[w])}
        /\ UNCHANGED <<conn, proto, held, idleLRU, toClose>>
    BY <1>5, Zenon DEF getConnCanceled, connVars, idleVars
  <2>2. \A v \in Wants : wpc'[v] \in {wpc[v], NoConn} /\ (v # w => wpc'[v] = wpc[v])
    BY <2>1 DEF TypeOK
  <2>3. \A u, c \in Wants : Uses(u, c)' => u # w /\ Uses(u, c)
    BY <2>1, <2>2, UsesEnds
  <2>4. CASE wpc[w] = NoConn
    BY <2>1, <2>2, <2>3, <2>4, HandsShrink
  <2>5. CASE wpc[w] # NoConn
    <3>1. PICK c \in Wants : c = wpc[w]
      BY <2>5 DEF TypeOK
    <3>2. Uses(w, c) /\ conn[c] # "none"
      BY <2>1, <2>5, <3>1 DEF Uses, Dialed
    <3>3. puts' = puts \cup {Put("req", w, c)} /\ Put("req", w, c).conn = c
      BY <2>1, <2>5, <3>1 DEF Put
    <3>. QED  BY <2>1, <2>2, <2>3, <3>2, <3>3, HandsBack
  <2>. QED  BY <2>4, <2>5
<1>6. ASSUME NEW w \in Wants, canceledBeforeRoundTrip(w) \/ answered(w)
      PROVE  Dialed' /\ OneOwner'
  <2>1. PICK c \in Wants : c = held[w]
    BY <1>6 DEF canceledBeforeRoundTrip, answered, TypeOK
  <2>2. /\ req[w] = "using" /\ req' = [req EXCEPT ![w] = "done"]
        /\ UNCHANGED <<conn, proto, wpc, held, idleLRU, toClose>>
    BY <1>6, Zenon DEF canceledBeforeRoundTrip, answered, wantVars, connVars, idleVars
  <2>3. \A u, x \in Wants : Uses(u, x)' => u # w /\ Uses(u, x)
    BY <2>2, UsesEnds
  <2>4. Uses(w, c) /\ conn[c] # "none"
    BY <2>1, <2>2, PoolAssumption DEF Uses, Dialed
  <2>5. puts' = puts \/ \E p : p.conn = c /\ puts' = puts \cup {p}
    <3>1. Put("req", w, c).conn = c /\ Put("loop", c, c).conn = c
      BY DEF Put
    <3>. QED  BY <1>6, <2>1, <3>1, Zenon DEF canceledBeforeRoundTrip, answered
  <2>6. CASE puts' = puts
    BY <2>2, <2>3, <2>6, HandsShrink
  <2>7. ASSUME NEW p, p.conn = c, puts' = puts \cup {p}
        PROVE  Dialed' /\ OneOwner'
    BY <2>2, <2>3, <2>4, <2>7, HandsBack
  <2>. QED  BY <2>5, <2>6, <2>7
<1>7. ASSUME NEW w \in Wants, roundTripFailed(w) \/ noCachedConnDec(w)
      PROVE  Dialed' /\ OneOwner'
  <2>1. req' = [req EXCEPT ![w] = "done"] /\ UNCHANGED <<proto, wpc, held, puts, idleLRU, toClose>>
    BY <1>7, Zenon DEF roundTripFailed, noCachedConnDec, closeLocked, wantVars, connVars, idleVars
  <2>. QED  BY <2>1, UsesEnds, HandsShrink
<1>8. ASSUME NEW w \in Wants, noCachedConn(w)
      PROVE  Dialed' /\ OneOwner'
  <2>1. UNCHANGED <<proto, wpc, held, puts, toClose>> /\ held[w] \in Wants
    BY <1>8 DEF noCachedConn, wantVars, connVars, TypeOK
  <2>2. PICK x \in {"dec", "done"} : req' = [req EXCEPT ![w] = x]
    BY <1>8 DEF noCachedConn
  <2>3. ToSet(idleLRU') \subseteq ToSet(idleLRU)
    BY <1>8, <2>1, removeIdleConnLockedSets DEF noCachedConn
  <2>. QED  BY <2>1, <2>2, <2>3, UsesEnds, HandsShrink
<1>9. ASSUME NEW c \in Wants, closeConnIfStillIdle(c)
      PROVE  Dialed' /\ OneOwner'
  <2>1. UNCHANGED <<proto, req, wpc, held, puts, toClose>>
    BY <1>9, Zenon DEF closeConnIfStillIdle, closeLocked, wantVars, connVars
  <2>. QED  BY <1>1, <1>2, <1>9, <2>1, Zenon DEF closeConnIfStillIdle
<1>10. ASSUME NEW c \in Wants, closeIdleConn(c)
       PROVE  Dialed' /\ OneOwner'
  <2>1. UNCHANGED <<proto, req, wpc, held, puts, idleLRU>> /\ toClose' \subseteq toClose
    BY <1>10 DEF closeIdleConn, closeLocked, wantVars, idleVars
  <2>. QED  BY <2>1, UsesSame, HandsShrink
<1>11. ASSUME NEW p \in puts, putClose(p)
       PROVE  Dialed' /\ OneOwner'
  <2>1. UNCHANGED <<proto, req, wpc, held, idleLRU, toClose>> /\ puts' \subseteq puts
    BY <1>11 DEF putClose, closeLocked, wantVars, idleVars
  <2>. QED  BY <2>1, UsesSame, HandsShrink
<1>12. ASSUME NEW p \in puts, tryPutCheck(p)
       PROVE  Dialed' /\ OneOwner'
  <2>1. UNCHANGED <<conn, proto, req, wpc, held, idleLRU, toClose>>
    BY <1>12, Zenon DEF tryPutCheck, wantVars, idleVars
  <2>2. PICK q : q.conn = p.conn /\ puts' = (puts \ {p}) \cup {q}
    <3>1. [p EXCEPT !.at = "close"].conn = p.conn /\ [p EXCEPT !.at = "lock"].conn = p.conn
      BY DEF TypeOK, Putting
    <3>. QED  BY <1>12, <3>1, Zenon DEF tryPutCheck, PutRefused
  <2>3. p.conn \in Wants /\ conn'[p.conn] # "none"
    BY <2>1 DEF TypeOK, Putting, Dialed
  <2>4. \A u, c \in Wants : Uses(u, c)' => Uses(u, c)
    BY <2>1, UsesSame
  <2>5. ASSUME NEW c \in Wants, proto'[c] = "h1"  PROVE Kept(c)
    <3>1. proto[c] = "h1" /\ OwnedOnce(c)
      BY <2>1, <2>5 DEF OneOwner
    <3>2. \A r \in puts' : r.conn = c => r \in puts \ {p} \/ r = q
      BY <2>2
    <3>3. \A r \in puts' : r.conn = c => \E s \in puts : s.conn = c
      BY <2>2
    <3>4. \A r, s \in puts' : r.conn = c /\ s.conn = c => r = s
      BY <2>2, <3>1, <3>2, Zenon DEF OwnedOnce
    <3>5. UNCHANGED <<idleLRU, toClose>>
      BY <2>1
    <3>. QED  BY <2>4, <3>3, <3>4, <3>5 DEF Kept, Parked
  <2>6. ASSUME NEW c \in Wants, proto'[c] = "h1"  PROVE OwnedOnce(c)'
    BY <2>1, <2>5, <2>6, OwnedKept DEF OneOwner
  <2>7. Dialed'
    <3>1. \A r \in puts' : \E s \in puts : r.conn = s.conn
      BY <2>2
    <3>. QED  BY <2>1, <3>1, DialedKept
  <2>. QED  BY <2>6, <2>7 DEF OneOwner
<1>13. CASE CloseIdleConnections
  <2>1. /\ toClose' = toClose \cup UNION {ToSet(idleConn[k]) : k \in Keys} /\ idleLRU' = <<>>
        /\ UNCHANGED <<conn, proto, req, wpc, held, puts>>
    BY <1>13, Zenon DEF CloseIdleConnections, wantVars, connVars
  <2>2. toClose' \subseteq toClose \cup ToSet(idleLRU) /\ ToSet(idleLRU') = {}
    BY <2>1, EmptyElements DEF PoolFiled, PoolConsistent
  <2>3. \A u, c \in Wants : Uses(u, c)' => Uses(u, c)
    BY <2>1, UsesSame
  <2>4. ASSUME NEW c \in Wants, proto'[c] = "h1"  PROVE OwnedOnce(c)'
    <3>1. proto[c] = "h1" /\ OwnedOnce(c)
      BY <2>1, <2>4 DEF OneOwner
    <3>2. (Parked(c)' => Parked(c)) /\ c \notin ToSet(idleLRU') /\ puts' = puts
      BY <2>1, <2>2 DEF Parked
    <3>3. Kept(c)
      BY <2>3, <3>1, <3>2, Zenon DEF Kept, OwnedOnce
    <3>. QED  BY <3>1, <3>3, OwnedKept
  <2>5. Dialed'
    BY <2>1, <2>2, DialedKept
  <2>. QED  BY <2>4, <2>5 DEF OneOwner
<1>. HIDE DEF OwnersInv
<1>14. CASE Next
  BY <1>1, <1>2, <1>3, <1>4, <1>5, <1>6, <1>7, <1>8, <1>9, <1>10, <1>11, <1>12, <1>13, <1>14,
     queueForIdleConnHands, tryPutIdleConnHands, dialSucceedsHands, Zenon
  DEF Next, Request, Cancel, Dial, IdleClose, PutStep, dialBegins, dialFails, dialGivesUp,
      readLoopCloses, readLoopExits, timerFires, closeLocked, idleVars, wantVars, connVars
<1>15. CASE UNCHANGED vars
  BY <1>1, <1>15 DEF vars, connVars, wantVars, idleVars
<1>. QED  BY <1>14, <1>15, Zenon

----------------------------------------------------------------------------
(* The pool's promises                                                     *)

\* The inductive invariant holds in every state of the pool.
THEOREM Owners == Spec => []OwnersInv
<1>1. Init => OwnersInv
  <2>. SUFFICES ASSUME Init  PROVE OwnersInv
    OBVIOUS
  <2>1. TypeOK
    <3>1. <<>> \in Seq(Wants)
      OBVIOUS
    <3>. QED  BY <3>1, PoolAssumption DEF Init, TypeOK, DialStates
  <2>2. /\ \A k \in Keys : /\ idleConn[k] = <<>> /\ idleConnWait[k] = <<>> /\ connsPerHostWait[k] = <<>>
        /\ idleLRU = <<>> /\ puts = {} /\ toClose = {}
        /\ \A w \in Wants : /\ wpc[w] = NoConn /\ held[w] = NoConn /\ dial[w] = "none" /\ req[w] = "new"
                            /\ conn[w] = "none"
    BY DEF Init
  <2>3. Registered /\ DialedOnce /\ Dialed
    BY <2>2, EmptyElements DEF Registered, DialedOnce, Dialed
  <2>4. OneOwner
    BY <2>2, EmptyElements DEF OneOwner, OwnedOnce, Uses, Parked
  <2>5. MaxIdleConns # 0 => Len(<<>>) <= MaxIdleConns
    BY PoolAssumption
  <2>6. PoolFiled
    BY <2>2, <2>5, EmptyElements DEF PoolFiled, PoolConsistent
  <2>. QED  BY <2>1, <2>3, <2>4, <2>6 DEF OwnersInv
<1>2. OwnersInv /\ [Next]_vars => OwnersInv'
  <2>. SUFFICES ASSUME OwnersInv, [Next]_vars  PROVE OwnersInv'
    OBVIOUS
  <2>1. TypeOK'
    BY TypeStep DEF OwnersInv
  <2>2. Registered' /\ DialedOnce'
    BY DialsStep, DialedOnceKept DEF OwnersInv
  <2>. QED  BY <2>1, <2>2, PoolStep, HandsStep DEF OwnersInv
<1>. QED  BY <1>1, <1>2, PTL DEF Spec

\* Every HTTP/1 connection is in one hand, a request's, a put's or the pool's,
\* and the lists of the pool agree and stay within their limits: through
\* deliveries, cancellations, timers, evictions and CloseIdleConnections.
THEOREM PoolIsExact == Spec => []PoolExact
<1>1. OwnersInv => PoolExact
  <2>. SUFFICES ASSUME OwnersInv  PROVE PoolExact
    OBVIOUS
  <2>1. \A c \in Wants : Pooled(c) => Parked(c)
    BY PoolAssumption DEF OwnersInv, PoolFiled, PoolConsistent, Pooled, Parked
  <2>2. \A c \in Wants : Users(c) = {w \in Wants : Uses(w, c)}
    BY DEF Users, Uses
  <2>3. ExclusiveUse
    <3>. SUFFICES ASSUME NEW c \in Wants, proto[c] = "h1"
                  PROVE  /\ \A u, v \in Users(c) : u = v
                         /\ \A p, q \in PutsOf(c) : p = q
                         /\ Users(c) # {} => PutsOf(c) = {} /\ ~Pooled(c)
                         /\ PutsOf(c) # {} => ~Pooled(c)
      BY DEF ExclusiveUse
    <3>1. OwnedOnce(c)
      BY DEF OwnersInv, OneOwner
    <3>. QED  BY <2>1, <2>2, <3>1 DEF OwnedOnce, PutsOf
  <2>. QED  BY <2>3 DEF OwnersInv, PoolFiled, PoolExact
<1>. QED  BY <1>1, Owners, PTL

\* The conn of a request is closed by the request itself or by the readLoop.
LEMMA ClosedByOwner ==
  ASSUME OwnersInv, [Next]_vars, NEW c \in Wants, proto[c] = "h1", NEW u \in Wants, Uses(u, c),
         conn[c] = "open", conn'[c] = "closed"
  PROVE  loop'[c] = "remove" \/ \E w \in Wants : Uses(w, c) /\ req'[w] = "done"
<1>. DEFINE Goal == loop'[c] = "remove" \/ \E w \in Wants : Uses(w, c) /\ req'[w] = "done"
<1>. SUFFICES Goal
  OBVIOUS
<1>0. /\ TypeOK /\ c \notin ToSet(idleLRU) /\ c \notin toClose
      /\ \A p \in puts : p.conn # c
  BY Zenon DEF OwnersInv, OneOwner, OwnedOnce, Parked
<1>1. conn' # conn
  OBVIOUS
<1>2. ASSUME NEW x \in Wants, NEW S, closeLocked(x, S)
      PROVE  x = c
  BY <1>0, <1>2, closeLockedConn
<1>3. ASSUME NEW x \in Wants, readLoopCloses(x)
      PROVE  Goal
  <2>1. x = c
    BY <1>2, <1>3 DEF readLoopCloses
  <2>. QED  BY <1>0, <1>3, <2>1 DEF readLoopCloses, TypeOK
<1>4. ASSUME NEW w \in Wants, roundTripFailed(w)
      PROVE  Goal
  <2>1. held[w] \in Wants /\ req[w] = "using" /\ req'[w] = "done"
    BY <1>0, <1>4 DEF roundTripFailed, TypeOK
  <2>2. held[w] = c
    BY <1>1, <1>2, <1>4, <2>1 DEF roundTripFailed, connVars
  <2>. QED  BY <2>1, <2>2 DEF Uses
<1>5. ASSUME NEW x \in Wants, closeIdleConn(x) \/ closeConnIfStillIdle(x)
      PROVE  FALSE
  BY <1>0, <1>1, <1>2, <1>5 DEF closeIdleConn, closeConnIfStillIdle, connVars
<1>6. ASSUME NEW p \in puts, putClose(p)
      PROVE  FALSE
  <2>1. p.conn \in Wants /\ closeLocked(p.conn, Waiters)
    BY <1>0, <1>6 DEF putClose, TypeOK, Putting
  <2>. QED  BY <1>0, <1>2, <2>1
<1>7. ASSUME NEW p \in puts, tryPutIdleConn(p)
      PROVE  FALSE
  BY <1>0, <1>7, tryPutIdleConnSets
<1>8. ASSUME NEW w \in Wants, dialSucceeds(w)
      PROVE  FALSE
  BY <1>0, <1>8 DEF dialSucceeds, TypeOK
<1>. HIDE DEF Goal
<1>9. CASE Next
  BY <1>1, <1>3, <1>4, <1>5, <1>6, <1>7, <1>8, <1>9, Zenon
  DEF Next, Request, Cancel, Dial, IdleClose, PutStep, queueForIdleConn, queueForDial, getConnReady,
      answered, noCachedConn, noCachedConnDec, getConnCanceled, canceledBeforeRoundTrip, dialBegins,
      dialFails, dialGivesUp, readLoopExits, timerFires, CloseIdleConnections, tryPutCheck, connVars
<1>10. CASE UNCHANGED vars
  BY <1>1, <1>10 DEF vars, connVars
<1>. QED  BY <1>9, <1>10, Zenon

\* Idle timeout, eviction, a refused put and CloseIdleConnections never close
\* an HTTP/1 conn that a request has: what they may close is nobody's.
THEOREM UsersNotInterrupted == Spec => NotInterrupted
<1>1. ASSUME OwnersInv, [Next]_vars
      PROVE  [\A c \in Wants :
                proto[c] = "h1" /\ Users(c) # {} /\ conn[c] = "open" /\ conn'[c] = "closed"
                  => loop'[c] = "remove" \/ \E w \in Users(c) : req'[w] = "done"]_vars
  <2>. SUFFICES ASSUME NEW c \in Wants, proto[c] = "h1", Users(c) # {}, conn[c] = "open",
                       conn'[c] = "closed"
                PROVE  loop'[c] = "remove" \/ \E w \in Users(c) : req'[w] = "done"
    OBVIOUS
  <2>1. \A w \in Wants : w \in Users(c) <=> Uses(w, c)
    BY DEF Users, Uses
  <2>2. \E u \in Wants : Uses(u, c)
    BY <2>1 DEF Users
  <2>. QED  BY <1>1, <2>1, <2>2, ClosedByOwner
<1>. QED  BY <1>1, Owners, PTL DEF Spec, NotInterrupted

----------------------------------------------------------------------------
(* Accounts.  The pool loses no open connection when no idle timeout is    *)
(* configured.  (With an idle timeout the code may drop a conn from the    *)
(* pool without closing it: see the README.)                               *)

\* Without an idle timeout no timer runs and no conn is too old.
NoTimers == armed = {} /\ lateClose = {}

\* A request that getConn has answered does not wait any more.
Settled == \A w \in Wants : req[w] \in {"using", "dec", "done"} => ~Waiting(w)

\* A readLoop closes its conn before it removes it from the pool.
LoopEnded == \A c \in Wants : proto[c] = "h1" /\ loop[c] = "remove" => conn[c] # "open"

\* Someone will see to c.
Owned(c) ==
  \/ \E u \in Wants : Uses(u, c)
  \/ \E p \in puts : p.conn = c
  \/ Pooled(c) \/ c \in toClose \/ loop[c] = "close"

\* NoOrphan, with nobody running closeConnIfStillIdle.
NoneLost == \A c \in Wants : conn[c] = "open" /\ proto[c] = "h1" => Owned(c)

AccountsInv == OwnersInv /\ NoTimers /\ Settled /\ LoopEnded /\ NoneLost

----------------------------------------------------------------------------
(* Timers, answers and the end of a readLoop                               *)

\* No step starts a timer.
LEMMA NoTimersStep ==
  ASSUME ~IdleConnTimeout, TypeOK, NoTimers, [Next]_vars
  PROVE  NoTimers'
<1>1. CASE UNCHANGED <<armed, lateClose>>
  BY <1>1 DEF NoTimers
<1>2. ASSUME NEW c, NEW list, NEW lru, removeIdleConnLocked(c, list, lru), lateClose' \subseteq lateClose
      PROVE  NoTimers'
  BY <1>2 DEF NoTimers, removeIdleConnLocked
<1>3. ASSUME NEW w \in Wants, queueForIdleConn(w)
      PROVE  NoTimers'
  <2>1. UNCHANGED armed
    BY <1>3, Zenon DEF queueForIdleConn, idleVars
  <2>2. ASSUME NEW list, NEW old, old = 0, NEW n, awaitIdleConn(w, list, old, n)
        PROVE  lateClose' = {}
    BY <2>2 DEF awaitIdleConn, NoTimers
  <2>3. lateClose' = {}
    BY <1>3, <2>2 DEF queueForIdleConn, takeIdleConn, NoTimers
  <2>. QED  BY <2>1, <2>3 DEF NoTimers
<1>4. ASSUME NEW p \in puts, tryPutIdleConn(p)
      PROVE  NoTimers'
  <2>1. UNCHANGED lateClose
    BY <1>4, Zenon DEF tryPutIdleConn
  <2>2. armed' = {}
    BY <1>4 DEF tryPutIdleConn, addIdle, idleVars, NoTimers
  <2>. QED  BY <2>1, <2>2 DEF NoTimers
<1>5. ASSUME NEW c \in Wants, timerFires(c) \/ closeConnIfStillIdle(c)
      PROVE  FALSE
  BY <1>5 DEF timerFires, closeConnIfStillIdle, NoTimers
<1>6. CASE Next
  BY <1>1, <1>2, <1>3, <1>4, <1>5, <1>6, ZenonT(60)
  DEF Next, Request, Cancel, Dial, IdleClose, PutStep, queueForDial, getConnReady, answered,
      roundTripFailed, noCachedConn, noCachedConnDec, getConnCanceled, canceledBeforeRoundTrip,
      dialBegins, dialSucceeds, dialFails, dialGivesUp, readLoopCloses, readLoopExits, closeIdleConn,
      CloseIdleConnections, tryPutCheck, putClose, idleVars
<1>7. CASE UNCHANGED vars
  BY <1>1, <1>7 DEF vars, idleVars
<1>. QED  BY <1>6, <1>7, Zenon

\* getConn returns when its call has been answered, and not before.
LEMMA SettledStep ==
  ASSUME TypeOK, Settled, [Next]_vars
  PROVE  Settled'
<1>1. \A w \in Wants : Waiting(w)' => Waiting(w)
  BY WaitersShrink
<1>2. CASE UNCHANGED req
  BY <1>1, <1>2 DEF Settled
<1>3. ASSUME NEW w \in Wants, NEW x, req' = [req EXCEPT ![w] = x],
             x \in {"using", "dec", "done"} => ~Waiting(w)'
      PROVE  Settled'
  BY <1>1, <1>3 DEF Settled, TypeOK
<1>4. ASSUME NEW w \in Wants, NEW x, req' = [req EXCEPT ![w] = x], req[w] \in {"using", "dec"}
      PROVE  Settled'
  BY <1>1, <1>3, <1>4 DEF Settled
<1>5. ASSUME NEW w \in Wants, queueForIdleConn(w)
      PROVE  Settled'
  <2>1. CASE req' = [req EXCEPT ![w] = "dialq"]
    BY <1>3, <2>1
  <2>2. ASSUME NEW n \in 0 .. Len(idleConn[key[w]]), takeIdleConn(w, idleConn[key[w]], n)
        PROVE  Settled'
    <3>0. n # 0
      BY <2>2, Zenon DEF takeIdleConn
    <3>1. idleConn[key[w]] \in Seq(Wants) /\ n \in 1 .. Len(idleConn[key[w]])
      BY <3>0, PoolAssumption DEF TypeOK
    <3>2. idleConn[key[w]][n] # NoConn
      BY <3>1, PoolAssumption
    <3>3. ~Waiting(w)'
      BY <2>2, <3>2 DEF takeIdleConn, Waiting, TypeOK
    <3>. QED  BY <1>3, <2>2, <3>3, Zenon DEF takeIdleConn
  <2>. QED  BY <1>5, <2>1, <2>2, queueForIdleConnCases, Zenon
<1>6. ASSUME NEW w \in Wants, queueForDial(w)
      PROVE  Settled'
  BY <1>3, <1>6 DEF queueForDial
<1>7. ASSUME NEW w \in Wants, getConnReady(w)
      PROVE  Settled'
  BY <1>1, <1>3, <1>7, Zenon DEF getConnReady
<1>8. ASSUME NEW w \in Wants, getConnCanceled(w)
      PROVE  Settled'
  BY <1>3, <1>8 DEF getConnCanceled, Waiting, TypeOK
<1>9. ASSUME NEW w \in Wants, \/ canceledBeforeRoundTrip(w) \/ answered(w) \/ roundTripFailed(w)
                              \/ noCachedConn(w) \/ noCachedConnDec(w)
      PROVE  Settled'
  <2>1. req[w] \in {"using", "dec"} /\ \E x : req' = [req EXCEPT ![w] = x]
    BY <1>9, Zenon
       DEF canceledBeforeRoundTrip, answered, roundTripFailed, noCachedConn, noCachedConnDec
  <2>. QED  BY <1>4, <2>1
<1>10. CASE Next
  BY <1>2, <1>5, <1>6, <1>7, <1>8, <1>9, <1>10, Zenon
  DEF Next, Request, Cancel, Dial, IdleClose, PutStep, dialBegins, dialSucceeds, dialFails, dialGivesUp,
      readLoopCloses, readLoopExits, timerFires, closeConnIfStillIdle, closeIdleConn,
      CloseIdleConnections, tryPutCheck, tryPutIdleConn, putClose
<1>11. CASE UNCHANGED vars
  BY <1>2, <1>11 DEF vars
<1>. QED  BY <1>10, <1>11, Zenon

\* What a step may do to the protocol of a conn: only a dial sets it.
LEMMA ProtoStep ==
  ASSUME OwnersInv, [Next]_vars
  PROVE  \A c \in Wants : proto'[c] = proto[c] \/ dialSucceeds(c)
<1>1. CASE UNCHANGED proto
  BY <1>1
<1>2. ASSUME NEW w \in Wants, dialSucceeds(w)
      PROVE  \A c \in Wants : proto'[c] = proto[c] \/ dialSucceeds(c)
  BY <1>2, ZenonT(60) DEF dialSucceeds, OwnersInv, TypeOK
<1>3. CASE Next
  BY <1>1, <1>2, <1>3, tryPutIdleConnSets, ZenonT(60)
  DEF Next, Request, Cancel, Dial, IdleClose, PutStep, queueForIdleConn, queueForDial, getConnReady,
      answered, roundTripFailed, noCachedConn, noCachedConnDec, getConnCanceled,
      canceledBeforeRoundTrip, dialBegins, dialFails, dialGivesUp, readLoopCloses, readLoopExits,
      timerFires, closeConnIfStillIdle, closeIdleConn, CloseIdleConnections, tryPutCheck, putClose,
      closeLocked, connVars
<1>4. CASE UNCHANGED vars
  BY <1>1, <1>4 DEF vars, connVars
<1>. QED  BY <1>3, <1>4, Zenon

\* A readLoop that has ended has closed its conn.
LEMMA LoopEndedStep ==
  ASSUME OwnersInv, LoopEnded, [Next]_vars
  PROVE  LoopEnded'
<1>. DEFINE Goal == \A c \in Wants : loop'[c] = "remove" => loop[c] = "remove" \/ conn'[c] # "open"
<1>0. TypeOK
  BY DEF OwnersInv
<1>1. ASSUME UNCHANGED loop  PROVE Goal
  BY <1>1
<1>2. ASSUME NEW c \in Wants, readLoopCloses(c)
      PROVE  Goal
  <2>1. conn'[c] # "open"
    BY <1>0, <1>2, closeLockedConn DEF readLoopCloses
  <2>. QED  BY <1>0, <1>2, <2>1 DEF readLoopCloses, TypeOK
<1>3. ASSUME NEW p \in puts, putClose(p)
      PROVE  Goal
  <2>1. p.conn \in Wants /\ closeLocked(p.conn, Waiters)
    BY <1>0, <1>3 DEF putClose, TypeOK, Putting
  <2>2. conn'[p.conn] # "open"
    BY <1>0, <2>1, closeLockedConn
  <2>. QED  BY <1>0, <1>3, <2>1, <2>2 DEF putClose, TypeOK
<1>4. ASSUME NEW p \in puts, tryPutCheck(p) \/ tryPutIdleConn(p)
      PROVE  Goal
  <2>1. UNCHANGED loop \/ loop' = [loop EXCEPT ![p.conn] = "run"]
    BY <1>4 DEF tryPutCheck, tryPutIdleConn, PutAccepted, PutRefused
  <2>. QED  BY <1>0, <2>1 DEF TypeOK
<1>5. ASSUME NEW w \in Wants, dialSucceeds(w) \/ answered(w) \/ readLoopExits(w)
      PROVE  Goal
  <2>1. UNCHANGED loop \/ \E c \in Wants : \E x : x # "remove" /\ loop' = [loop EXCEPT ![c] = x]
    <3>1. CASE dialSucceeds(w)
      BY <3>1 DEF dialSucceeds
    <3>2. CASE answered(w)
      <4>1. held[w] \in Wants
        BY <1>0, <3>2 DEF answered, TypeOK
      <4>2. \/ UNCHANGED loop \/ loop' = [loop EXCEPT ![held[w]] = "put"]
            \/ loop' = [loop EXCEPT ![held[w]] = "close"]
        BY <3>2, Zenon DEF answered
      <4>. QED  BY <4>1, <4>2
    <3>3. CASE readLoopExits(w)
      BY <3>3 DEF readLoopExits
    <3>. QED  BY <1>5, <3>1, <3>2, <3>3
  <2>. QED  BY <1>0, <2>1 DEF TypeOK
<1>6. Goal
  <2>. HIDE DEF Goal
  <2>1. CASE Next
    BY <1>1, <1>2, <1>3, <1>4, <1>5, <2>1, Zenon
    DEF Next, Request, Cancel, Dial, IdleClose, PutStep, queueForIdleConn, queueForDial, getConnReady,
        roundTripFailed, noCachedConn, noCachedConnDec, getConnCanceled, canceledBeforeRoundTrip,
        dialBegins, dialFails, dialGivesUp, timerFires, closeConnIfStillIdle, closeIdleConn,
        CloseIdleConnections, Goal
  <2>2. CASE UNCHANGED vars
    BY <1>1, <2>2 DEF vars, Goal
  <2>. QED  BY <2>1, <2>2, Zenon
<1>7. ASSUME NEW c \in Wants, proto'[c] = "h1", loop'[c] = "remove", dialSucceeds(c)
      PROVE  FALSE
  <2>1. PICK t \in Protos : /\ proto' = [proto EXCEPT ![c] = t]
                            /\ loop' = IF t = "h1" THEN [loop EXCEPT ![c] = "run"] ELSE loop
    BY <1>7, Zenon DEF dialSucceeds
  <2>. QED  BY <1>0, <1>7, <2>1 DEF TypeOK
<1>. QED  BY <1>6, <1>7, ConnStep, ProtoStep DEF LoopEnded

----------------------------------------------------------------------------
(* The pool keeps its open conns                                           *)

\* queueForIdleConn stops at the last open conn of the list.
LEMMA UsableLast ==
  ASSUME NEW list \in Seq(Wants), NEW i \in 1 .. Len(list), conn[list[i]] = "open"
  PROVE  Usable(list, 0) \in 1 .. Len(list) /\ i <= Usable(list, 0)
<1>. DEFINE I == {j \in 0 + 1 .. Len(list) : conn[list[j]] = "open"}
<1>1. Usable(list, 0) = IF I # {} THEN Max(I) ELSE 0
  BY Zenon DEF Usable, SelectLastInSubSeq
<1>2. i \in I /\ I \subseteq 1 .. Len(list) /\ I \subseteq 0 .. Len(list) /\ Len(list) \in Nat
  OBVIOUS
<1>. HIDE DEF I
<1>3. Max(I) \in I /\ \A y \in I : Max(I) >= y
  BY <1>2, MaxOfNats
<1>. QED  BY <1>1, <1>2, <1>3

\* removeIdleConnLocked keeps the other conns in the pool.
LEMMA removeIdleConnLockedKeeps ==
  ASSUME TypeOK, PoolFiled, NEW x \in Wants, removeIdleConnLocked(x, idleConn, idleLRU),
         NEW c \in Wants, c # x, Pooled(c)
  PROVE  Pooled(c)'
<1>1. key[c] \in Keys /\ idleConn[key[c]] \in Seq(Wants) /\ IsInjective(idleConn[key[c]])
  BY PoolAssumption DEF TypeOK, PoolFiled, PoolConsistent
<1>2. idleConn'[key[c]] = idleConn[key[c]] \/ idleConn'[key[c]] = RemoveFirst(idleConn[key[c]], x)
  BY <1>1 DEF removeIdleConnLocked, TypeOK
<1>3. ToSet(RemoveFirst(idleConn[key[c]], x)) = ToSet(idleConn[key[c]]) \ {x}
  BY <1>1, RemoveFirstSet
<1>. QED  BY <1>2, <1>3 DEF Pooled

\* addIdle puts x in the pool, and takes only a conn out that it closes.
LEMMA addIdleKeeps ==
  ASSUME TypeOK, PoolFiled, NEW x \in Wants, x \notin ToSet(idleLRU),
         Len(idleConn[key[x]]) < maxIdleConnsPerHost, addIdle(x),
         NEW c \in Wants, conn'[c] = "open", Pooled(c) \/ c = x
  PROVE  Pooled(c)'
<1>. DEFINE list == [idleConn EXCEPT ![key[x]] = Append(@, x)]
            h == Head(Append(idleLRU, x))
            l == list[key[c]]
<1>1. /\ key[c] \in Keys /\ idleConn \in [Keys -> Seq(Wants)] /\ idleLRU \in Seq(Wants)
      /\ idleConn[key[c]] \in Seq(Wants)
  BY PoolAssumption DEF TypeOK
<1>2. l = idleConn[key[c]] \/ (key[c] = key[x] /\ l = Append(idleConn[key[c]], x))
  BY <1>1
<1>3. l \in Seq(Wants) /\ IsInjective(l)
  <2>. HIDE DEF l
  <2>. QED  BY <1>1, <1>2, AppendedList
<1>4. c \in ToSet(l)
  <2>1. CASE l = Append(idleConn[key[c]], x)
    BY <1>1, <2>1, AppendSet DEF Pooled
  <2>2. CASE l = idleConn[key[c]] /\ key[c] # key[x]
    BY <2>2 DEF Pooled
  <2>3. key[c] = key[x] => l = Append(idleConn[key[c]], x)
    BY <1>1
  <2>. QED  BY <1>2, <2>1, <2>2, <2>3
<1>5. CASE idleConn' = list
  BY <1>4, <1>5 DEF Pooled
<1>6. CASE /\ closeLocked(h, Waiters \ Recipients(x, idleConnWait[key[x]]))
           /\ idleConn' = [list EXCEPT ![key[h]] = RemoveFirst(@, h)]
  <2>1. h \in Wants
    BY <1>1
  <2>2. c # h
    <3>. HIDE DEF h
    <3>. QED  BY <1>6, <2>1, closeLockedConn
  <2>3. list \in [Keys -> Seq(Wants)]
    BY <1>1, PoolAssumption
  <2>4. idleConn'[key[c]] = l \/ idleConn'[key[c]] = RemoveFirst(l, h)
    <3>. HIDE DEF list, h
    <3>. QED  BY <1>1, <1>6, <2>3
  <2>. HIDE DEF l, h
  <2>5. ToSet(RemoveFirst(l, h)) = ToSet(l) \ {h}
    BY <1>3, RemoveFirstSet
  <2>. QED  BY <1>4, <2>2, <2>4, <2>5 DEF Pooled
<1>. QED  BY <1>5, <1>6, Zenon DEF addIdle

\* What a request uses and a step leaves alone it still uses.
LEMMA UsesStays ==
  ASSUME NEW u \in Wants, NEW c, Uses(u, c), UNCHANGED <<req[u], held[u], wpc[u]>>
  PROVE  Uses(u, c)'
BY DEF Uses

\* queueForIdleConn drops no open conn from the pool, but the one it takes.
LEMMA queueForIdleConnOwned ==
  ASSUME ~IdleConnTimeout, AccountsInv, NEW w \in Wants, queueForIdleConn(w),
         NEW c \in Wants, conn[c] = "open", proto[c] = "h1", Owned(c)
  PROVE  Owned(c)'
<1>. USE DEF AccountsInv, OwnersInv
<1>. DEFINE list == idleConn[key[w]]
            n == Usable(list, 0)
<1>1. req[w] = "new" /\ UNCHANGED <<puts, toClose, loop>>
  BY Zenon DEF queueForIdleConn
<1>2. /\ key[c] \in Keys /\ key[w] \in Keys /\ idleConn \in [Keys -> Seq(Wants)] /\ list \in Seq(Wants)
      /\ Len(list) \in Nat
  BY PoolAssumption DEF TypeOK
<1>3. \/ UNCHANGED <<idleConn, wpc, held>> /\ req' = [req EXCEPT ![w] = "dialq"]
      \/ takeIdleConn(w, list, n) \/ awaitIdleConn(w, list, 0, n)
  BY DEF queueForIdleConn, idleVars
<1>4. \A u \in Wants : u # w => UNCHANGED <<req[u], held[u], wpc[u]>>
  BY <1>3 DEF takeIdleConn, awaitIdleConn, TypeOK
<1>5. ASSUME NEW u \in Wants, Uses(u, c)  PROVE Uses(u, c)'
  BY <1>1, <1>4, <1>5, UsesStays DEF Uses
<1>6. ASSUME Pooled(c)  PROVE Owned(c)'
  <2>1. CASE key[c] # key[w] \/ UNCHANGED idleConn
    <3>1. idleConn'[key[c]] = idleConn[key[c]]
      BY <1>2, <1>3, <2>1 DEF takeIdleConn, awaitIdleConn
    <3>. QED  BY <1>6, <3>1 DEF Owned, Pooled
  <2>2. CASE key[c] = key[w]
    <3>1. PICK i \in 1 .. Len(list) : list[i] = c
      <4>1. c \in ToSet(list)
        BY <1>6, <2>2 DEF Pooled
      <4>. HIDE DEF list
      <4>. QED  BY <1>2, <4>1, ElementsOf
    <3>2. n \in 1 .. Len(list) /\ i <= n /\ n # 0
      <4>. HIDE DEF list
      <4>. QED  BY <1>2, <3>1, UsableLast
    <3>. HIDE DEF n
    <3>3. CASE takeIdleConn(w, list, n)
      <4>1. CASE i = n
        <5>1. req'[w] = "using" /\ held'[w] = c
          BY <3>1, <3>3, <4>1 DEF takeIdleConn, TypeOK
        <5>. QED  BY <5>1 DEF Owned, Uses
      <4>2. CASE i # n
        <5>1. /\ 1 \in 1 .. Len(list) + 1 /\ n - 1 \in 0 .. Len(list) /\ n \in 0 .. Len(list)
              /\ i \in 1 .. n - 1 /\ i \in 1 .. n
          BY <1>2, <3>2, <4>2
        <5>2. \/ idleConn'[key[c]] = SubSeq(list, 1, n - 1)
              \/ idleConn'[key[c]] = SubSeq(list, 1, n)
          BY <1>2, <2>2, <3>3 DEF takeIdleConn
        <5>3. c \in ToSet(SubSeq(list, 1, n - 1)) /\ c \in ToSet(SubSeq(list, 1, n))
          <6>. HIDE DEF list
          <6>1. \A b \in 0 .. Len(list) : \A j \in 1 .. b : list[j] \in ToSet(SubSeq(list, 1, b))
            BY <1>2, <5>1, SubSeqSet
          <6>. QED  BY <3>1, <5>1, <6>1
        <5>. QED  BY <5>2, <5>3, Zenon DEF Owned, Pooled
      <4>. QED  BY <4>1, <4>2
    <3>4. ~awaitIdleConn(w, list, 0, n)
      BY <3>2 DEF awaitIdleConn
    <3>. QED  BY <1>3, <2>1, <3>3, <3>4 DEF n
  <2>. QED  BY <2>1, <2>2
<1>. QED  BY <1>1, <1>5, <1>6 DEF Owned

\* tryPutIdleConn hands the conn to a call that will use it or close it, or
\* puts it in the pool, or leaves it to the put.
LEMMA tryPutIdleConnOwned ==
  ASSUME AccountsInv, NEW p \in puts, tryPutIdleConn(p),
         NEW c \in Wants, conn'[c] = "open", proto[c] = "h1", Owned(c)
  PROVE  Owned(c)'
<1>. USE DEF AccountsInv, OwnersInv
<1>0. PICK x \in Wants : x = p.conn
  BY DEF TypeOK, Putting
<1>. DEFINE R == Recipients(x, idleConnWait[key[x]])
<1>1. UNCHANGED <<req, held, toClose>>
  BY Zenon DEF tryPutIdleConn
<1>2. R \subseteq Waiters
  BY RecipientsWait
<1>3. R \subseteq ToSet(idleConnWait[key[x]]) /\ key[x] \in Keys
  <2>. DEFINE q == idleConnWait[key[x]]
  <2>1. q \in Seq(Wants) /\ key[x] \in Keys
    BY PoolAssumption DEF TypeOK
  <2>2. FirstIn(q, Waiters) \in 0 .. Len(q)
    BY <2>1, FirstInProperty
  <2>. QED  BY <2>1, <2>2, ElementsOf DEF Recipients, WaitingIn
<1>. HIDE DEF R
<1>4. \A w \in Wants : wpc'[w] = IF deliverIdle(x) /\ w \in R THEN x ELSE wpc[w]
  BY <1>0 DEF tryPutIdleConn, deliverIdle, R
<1>5. ASSUME NEW u \in Wants, Uses(u, c)  PROVE Owned(c)'
  <2>1. u \in R => wpc[u] = NoConn
    BY <1>2 DEF Waiters, Waiting
  <2>2. NoConn # c
    BY PoolAssumption
  <2>3. Uses(u, c)'
    BY <1>1, <1>4, <1>5, <2>1, <2>2 DEF Uses
  <2>. QED  BY <2>3 DEF Owned
<1>6. ASSUME ~alreadyIdle(x), addIdle(x), ~(Len(idleConn[key[x]]) >= maxIdleConnsPerHost),
             Pooled(c) \/ c = x
      PROVE  Pooled(c)'
  <2>1. x \notin ToSet(idleLRU)
    BY <1>0, <1>6, PutNotIdle
  <2>2. Len(idleConn[key[x]]) < maxIdleConnsPerHost
    <3>1. Len(idleConn[key[x]]) \in Nat /\ maxIdleConnsPerHost \in Int
      BY PoolAssumption DEF TypeOK, maxIdleConnsPerHost
    <3>. QED  BY <1>6, <3>1
  <2>. QED  BY <1>6, <2>1, <2>2, addIdleKeeps
<1>7. ASSUME Pooled(c)  PROVE Owned(c)'
  <2>1. CASE UNCHANGED idleConn
    BY <1>7, <2>1 DEF Owned, Pooled
  <2>2. CASE ~alreadyIdle(x) /\ addIdle(x) /\ ~(Len(idleConn[key[x]]) >= maxIdleConnsPerHost)
    BY <1>6, <1>7, <2>2 DEF Owned
  <2>. QED  BY <1>0, <2>1, <2>2, Zenon DEF tryPutIdleConn, idleVars
<1>8. CASE c # x
  <2>1. ASSUME NEW q \in puts, q.conn = c  PROVE Owned(c)'
    <3>1. q \in puts'
      BY <1>0, <1>8, <2>1 DEF tryPutIdleConn, PutAccepted, PutRefused
    <3>. QED  BY <2>1, <3>1 DEF Owned
  <2>2. ASSUME loop[c] = "close"  PROVE loop'[c] = "close"
    BY <1>0, <1>8, <2>2 DEF tryPutIdleConn, PutAccepted, PutRefused, TypeOK
  <2>. QED  BY <1>1, <1>5, <1>7, <2>1, <2>2, Zenon DEF Owned
<1>9. CASE c = x
  <2>1. ~alreadyIdle(x)
    BY <1>9 DEF alreadyIdle
  <2>2. CASE R # {} /\ deliverIdle(x)
    <3>1. PICK r \in Wants : r \in R
      BY <1>2, <2>2 DEF Waiters
    <3>2. req[r] \in {"dialq", "select"}
      BY <1>2, <1>3, <3>1 DEF Waiters, Registered, Settled, TypeOK
    <3>3. wpc'[r] = c
      BY <1>4, <1>9, <2>2, <3>1
    <3>. QED  BY <1>1, <3>2, <3>3 DEF Owned, Uses
  <2>3. CASE PutRefused(p)
    <3>1. [p EXCEPT !.at = "close"].conn = c /\ [p EXCEPT !.at = "close"] \in puts'
      BY <1>0, <1>9, <2>3 DEF PutRefused, TypeOK, Putting
    <3>. QED  BY <3>1, Zenon DEF Owned
  <2>4. CASE addIdle(x) /\ ~(Len(idleConn[key[x]]) >= maxIdleConnsPerHost)
    BY <1>6, <1>9, <2>1, <2>4 DEF Owned
  <2>. QED  BY <1>0, <2>1, <2>2, <2>3, <2>4, Zenon DEF tryPutIdleConn, R
<1>. QED  BY <1>8, <1>9

\* No step loses an open conn.
LEMMA OwnedStep ==
  ASSUME ~IdleConnTimeout, AccountsInv, [Next]_vars, NEW c \in Wants, conn[c] = "open",
         conn'[c] = "open", proto[c] = "h1", proto'[c] = "h1", Owned(c)
  PROVE  Owned(c)'
<1>. USE DEF AccountsInv, OwnersInv
<1>0. NoConn # c
  BY PoolAssumption
<1>a. ASSUME NEW w \in Wants, req[w] \in {"select", "dialq", "using", "dec"},
             Uses(w, c) => Owned(c)', \A u \in Wants : u # w => UNCHANGED <<req[u], held[u], wpc[u]>>,
             puts \subseteq puts', Pooled(c) => Pooled(c)', UNCHANGED toClose,
             loop[c] = "close" => loop'[c] = "close"
      PROVE  Owned(c)'
  <2>1. ASSUME NEW u \in Wants, u # w, Uses(u, c)  PROVE Owned(c)'
    BY <1>a, <2>1, UsesStays DEF Owned
  <2>. QED  BY <1>a, <2>1, Zenon DEF Owned
<1>b. ASSUME UNCHANGED <<req, held, wpc>>, puts \subseteq puts', Pooled(c) => Owned(c)',
             c \in toClose => c \in toClose', loop[c] = "close" => loop'[c] = "close"
      PROVE  Owned(c)'
  <2>1. ASSUME NEW u \in Wants, Uses(u, c)  PROVE Owned(c)'
    BY <1>b, <2>1, UsesStays DEF Owned
  <2>. QED  BY <1>b, <2>1, Zenon DEF Owned
<1>c. ASSUME UNCHANGED idleConn  PROVE Pooled(c) => Pooled(c)'
  BY <1>c DEF Pooled
<1>1. ASSUME NEW x \in Wants, NEW S, closeLocked(x, S)  PROVE x # c
  BY <1>1, closeLockedConn
<1>2. ASSUME NEW w \in Wants, queueForDial(w)
      PROVE  Owned(c)'
  <2>1. /\ req[w] = "dialq" /\ req' = [req EXCEPT ![w] = "select"]
        /\ UNCHANGED <<held, wpc, puts, idleConn, toClose, loop>>
    BY <1>2, Zenon DEF queueForDial, wantVars, idleVars
  <2>2. Uses(w, c) => Uses(w, c)'
    BY <2>1 DEF Uses, TypeOK
  <2>3. \A u \in Wants : u # w => UNCHANGED <<req[u], held[u], wpc[u]>>
    BY <2>1 DEF TypeOK
  <2>. QED  BY <1>a, <1>c, <2>1, <2>2, <2>3 DEF Owned
<1>3. ASSUME NEW w \in Wants, getConnReady(w)
      PROVE  Owned(c)'
  <2>1. req[w] = "select" /\ UNCHANGED <<wpc, puts, idleConn, toClose, loop>>
    BY <1>3, Zenon DEF getConnReady, wantVars, idleVars
  <2>2. Uses(w, c) => Uses(w, c)'
    BY <1>0, <1>3, <2>1 DEF getConnReady, Uses, TypeOK
  <2>3. \A u \in Wants : u # w => UNCHANGED <<req[u], held[u], wpc[u]>>
    BY <1>3, <2>1 DEF getConnReady, TypeOK
  <2>. QED  BY <1>a, <1>c, <2>1, <2>2, <2>3 DEF Owned
<1>4. ASSUME NEW w \in Wants, getConnCanceled(w)
      PROVE  Owned(c)'
  <2>1. /\ req[w] = "select" /\ req' = [req EXCEPT ![w] = "done"] /\ wpc' = [wpc EXCEPT ![w] = NoConn]
        /\ puts' = IF wpc[w] = NoConn THEN puts ELSE puts \cup {Put("req", w, wpc[w])}
        /\ UNCHANGED <<held, idleConn, toClose, loop>>
    BY <1>4, Zenon DEF getConnCanceled, idleVars
  <2>2. Uses(w, c) => Put("req", w, c) \in puts'
    BY <1>0, <2>1 DEF Uses
  <2>3. Put("req", w, c).conn = c
    BY DEF Put
  <2>4. \A u \in Wants : u # w => UNCHANGED <<req[u], held[u], wpc[u]>>
    BY <2>1 DEF TypeOK
  <2>5. puts \subseteq puts'
    BY <2>1
  <2>. QED  BY <1>a, <1>c, <2>1, <2>2, <2>3, <2>4, <2>5 DEF Owned
<1>5. ASSUME NEW w \in Wants, canceledBeforeRoundTrip(w) \/ answered(w)
      PROVE  Owned(c)'
  <2>1. /\ req[w] = "using" /\ req' = [req EXCEPT ![w] = "done"]
        /\ UNCHANGED <<wpc, held, idleConn, toClose>>
    BY <1>5, Zenon DEF canceledBeforeRoundTrip, answered, wantVars, idleVars
  <2>2. Uses(w, c) => held[w] = c
    BY <2>1 DEF Uses
  <2>3. Put("req", w, c).conn = c /\ Put("loop", c, c).conn = c
    BY DEF Put
  <2>4. \A u \in Wants : u # w => UNCHANGED <<req[u], held[u], wpc[u]>>
    BY <2>1 DEF TypeOK
  <2>5. puts \subseteq puts' /\ (loop[c] = "close" => loop'[c] = "close")
    BY <1>5 DEF canceledBeforeRoundTrip, answered, TypeOK
  <2>6. held[w] = c => Put("req", w, c) \in puts' \/ Put("loop", c, c) \in puts' \/ loop'[c] = "close"
    BY <1>5 DEF canceledBeforeRoundTrip, answered, TypeOK
  <2>7. Uses(w, c) => Owned(c)'
    BY <2>2, <2>3, <2>6, Zenon DEF Owned
  <2>. QED  BY <1>a, <1>c, <2>1, <2>4, <2>5, <2>7
<1>6. ASSUME NEW w \in Wants, roundTripFailed(w) \/ noCachedConnDec(w)
      PROVE  Owned(c)'
  <2>1. /\ req[w] \in {"using", "dec"} /\ req' = [req EXCEPT ![w] = "done"]
        /\ UNCHANGED <<wpc, held, puts, idleConn, toClose, loop>>
    BY <1>6, Zenon DEF roundTripFailed, noCachedConnDec, wantVars, idleVars
  <2>2. ~Uses(w, c)
    BY <1>1, <1>6, <2>1 DEF roundTripFailed, noCachedConnDec, Uses
  <2>3. \A u \in Wants : u # w => UNCHANGED <<req[u], held[u], wpc[u]>>
    BY <2>1 DEF TypeOK
  <2>. QED  BY <1>a, <1>c, <2>1, <2>2, <2>3
<1>7. ASSUME NEW w \in Wants, noCachedConn(w)
      PROVE  Owned(c)'
  <2>1. /\ req[w] = "using" /\ held[w] \in Wants /\ held[w] # c
        /\ removeIdleConnLocked(held[w], idleConn, idleLRU)
        /\ UNCHANGED <<wpc, held, puts, toClose, loop>>
    BY <1>7 DEF noCachedConn, wantVars, TypeOK
  <2>2. \A u \in Wants : u # w => UNCHANGED <<req[u], held[u], wpc[u]>>
    BY <1>7, <2>1 DEF noCachedConn, TypeOK
  <2>3. ~Uses(w, c)
    BY <2>1 DEF Uses
  <2>4. Pooled(c) => Pooled(c)'
    BY <2>1, removeIdleConnLockedKeeps
  <2>. QED  BY <1>a, <2>1, <2>2, <2>3, <2>4
<1>8. ASSUME NEW w \in Wants, dialSucceeds(w)
      PROVE  Owned(c)'
  <2>1. /\ dial[w] = "dialing" /\ UNCHANGED <<req, held, toClose, idleConn>>
        /\ conn' = [conn EXCEPT ![w] = "open"]
        /\ wpc' = IF Waiting(w) THEN [wpc EXCEPT ![w] = w] ELSE wpc
    BY <1>8, Zenon DEF dialSucceeds, idleVars
  <2>2. w # c /\ req[w] \in {"select", "using", "dec", "done"}
    BY <2>1 DEF DialedOnce, Registered, TypeOK
  <2>3. puts \subseteq puts' /\ loop'[c] = loop[c]
    BY <1>8, <2>2 DEF dialSucceeds, TypeOK
  <2>4. ASSUME NEW u \in Wants, Uses(u, c)  PROVE Uses(u, c)'
    BY <1>0, <2>1, <2>4 DEF Uses, Waiting, TypeOK
  <2>. QED  BY <1>c, <2>1, <2>3, <2>4, Zenon DEF Owned
<1>9. ASSUME NEW x \in Wants, readLoopCloses(x) \/ closeIdleConn(x)
      PROVE  Owned(c)'
  <2>1. /\ UNCHANGED <<req, held, wpc, puts, idleConn>> /\ closeLocked(x, Waiters)
        /\ UNCHANGED loop \/ loop' = [loop EXCEPT ![x] = "remove"]
        /\ UNCHANGED toClose \/ toClose' = toClose \ {x}
    BY <1>9, Zenon DEF readLoopCloses, closeIdleConn, wantVars, idleVars
  <2>2. x # c
    BY <1>1, <2>1
  <2>3. (c \in toClose => c \in toClose') /\ (loop[c] = "close" => loop'[c] = "close")
    BY <2>1, <2>2 DEF TypeOK
  <2>. QED  BY <1>b, <1>c, <2>1, <2>3 DEF Owned
<1>10. ASSUME NEW x \in Wants, readLoopExits(x)
       PROVE  Owned(c)'
  <2>1. /\ UNCHANGED <<req, held, wpc, puts, toClose>> /\ removeIdleConnLocked(x, idleConn, idleLRU)
        /\ loop[x] = "remove" /\ loop' = [loop EXCEPT ![x] = "exited"]
    BY <1>10, Zenon DEF readLoopExits, wantVars
  <2>2. x # c
    BY <2>1 DEF LoopEnded
  <2>3. Pooled(c) => Pooled(c)'
    BY <2>1, <2>2, removeIdleConnLockedKeeps
  <2>4. loop[c] = "close" => loop'[c] = "close"
    BY <2>1, <2>2 DEF TypeOK
  <2>. QED  BY <1>b, <2>1, <2>3, <2>4 DEF Owned
<1>11. ASSUME NEW p \in puts, tryPutCheck(p)
       PROVE  Owned(c)'
  <2>1. UNCHANGED <<req, held, wpc, idleConn, toClose, loop>>
    BY <1>11, Zenon DEF tryPutCheck, PutRefused, wantVars, idleVars
  <2>2. ASSUME NEW q \in puts, q.conn = c  PROVE \E r \in puts' : r.conn = c
    <3>1. [p EXCEPT !.at = "close"].conn = p.conn /\ [p EXCEPT !.at = "lock"].conn = p.conn
      BY DEF TypeOK, Putting
    <3>. QED  BY <1>11, <2>2, <3>1 DEF tryPutCheck, PutRefused
  <2>3. ASSUME NEW u \in Wants, Uses(u, c)  PROVE Uses(u, c)'
    BY <2>1, <2>3 DEF Uses
  <2>. QED  BY <1>c, <2>1, <2>2, <2>3, Zenon DEF Owned
<1>12. ASSUME NEW p \in puts, putClose(p)
       PROVE  Owned(c)'
  <2>1. /\ UNCHANGED <<req, held, wpc, idleConn, toClose>> /\ puts' = puts \ {p}
        /\ UNCHANGED loop \/ loop' = [loop EXCEPT ![p.conn] = "remove"]
        /\ closeLocked(p.conn, Waiters) /\ p.conn \in Wants
    BY <1>12 DEF putClose, wantVars, idleVars, TypeOK, Putting
  <2>2. p.conn # c
    BY <1>1, <2>1
  <2>3. \A q \in puts : q.conn = c => q \in puts'
    BY <2>1, <2>2
  <2>4. loop[c] = "close" => loop'[c] = "close"
    BY <2>1, <2>2 DEF TypeOK
  <2>5. ASSUME NEW u \in Wants, Uses(u, c)  PROVE Uses(u, c)'
    BY <2>1, <2>5 DEF Uses
  <2>. QED  BY <1>c, <2>1, <2>3, <2>4, <2>5, Zenon DEF Owned
<1>13. CASE CloseIdleConnections
  <2>1. /\ toClose' = toClose \cup UNION {ToSet(idleConn[k]) : k \in Keys}
        /\ UNCHANGED <<req, wpc, held, puts, loop>>
    BY <1>13, Zenon DEF CloseIdleConnections, wantVars
  <2>2. Pooled(c) => c \in toClose'
    BY <2>1, PoolAssumption DEF Pooled
  <2>. QED  BY <1>b, <2>1, <2>2 DEF Owned
<1>14. ASSUME NEW x \in Wants, timerFires(x) \/ closeConnIfStillIdle(x)
       PROVE  FALSE
  BY <1>14 DEF timerFires, closeConnIfStillIdle, NoTimers
<1>15. CASE UNCHANGED <<req, held, wpc, puts, idleConn, toClose, loop>>
  BY <1>b, <1>c, <1>15 DEF Owned
<1>. HIDE DEF AccountsInv, OwnersInv
<1>16. CASE Next
  BY <1>2, <1>3, <1>4, <1>5, <1>6, <1>7, <1>8, <1>9, <1>10, <1>11, <1>12, <1>13, <1>14, <1>15,
     <1>16, queueForIdleConnOwned, tryPutIdleConnOwned, Zenon
  DEF Next, Request, Cancel, Dial, IdleClose, PutStep, dialBegins, dialFails, dialGivesUp, wantVars,
      idleVars
<1>17. CASE UNCHANGED vars
  BY <1>15, <1>17 DEF vars, wantVars, idleVars
<1>. QED  BY <1>16, <1>17, Zenon

\* A conn that has just been dialed is its call's, or a put's.
LEMMA DialedOwned ==
  ASSUME AccountsInv, NEW c \in Wants, dialSucceeds(c), proto'[c] = "h1"
  PROVE  Owned(c)'
<1>. USE DEF AccountsInv, OwnersInv
<1>1. dial[c] = "dialing" /\ UNCHANGED req /\ wpc' = IF Waiting(c) THEN [wpc EXCEPT ![c] = c] ELSE wpc
  BY Zenon DEF dialSucceeds
<1>2. CASE Waiting(c)
  <2>1. req[c] = "select"
    BY <1>1, <1>2 DEF Registered, Settled, TypeOK
  <2>2. wpc'[c] = c
    BY <1>1, <1>2 DEF TypeOK
  <2>. QED  BY <1>1, <2>1, <2>2 DEF Owned, Uses
<1>3. CASE ~Waiting(c)
  <2>1. Put("dial", c, c) \in puts'
    BY <1>3 DEF dialSucceeds
  <2>2. Put("dial", c, c).conn = c
    BY DEF Put
  <2>. QED  BY <2>1, <2>2, Zenon DEF Owned
<1>. QED  BY <1>2, <1>3

----------------------------------------------------------------------------
(* The pool's promise                                                      *)

\* Without an idle timeout every open HTTP/1 connection is in one place, with
\* a request, on its way back, in the pool or about to be closed: neither a
\* cancellation that races a delivery, nor a late dial, nor a refused put or
\* an eviction loses or shares it.
THEOREM NothingLost ==
  ASSUME ~IdleConnTimeout
  PROVE  Spec => []ConnsAccounted
<1>1. Init => Settled /\ LoopEnded /\ NoTimers /\ NoneLost
  BY DEF Init, Settled, LoopEnded, NoTimers, NoneLost
<1>2. OwnersInv /\ AccountsInv /\ [Next]_vars /\ OwnersInv' => AccountsInv'
  <2>. SUFFICES ASSUME AccountsInv, [Next]_vars, OwnersInv'  PROVE AccountsInv'
    OBVIOUS
  <2>1. OwnersInv /\ TypeOK
    BY DEF AccountsInv, OwnersInv
  <2>2. NoTimers' /\ Settled' /\ LoopEnded'
    BY <2>1, NoTimersStep, SettledStep, LoopEndedStep DEF AccountsInv
  <2>3. ASSUME NEW c \in Wants, conn'[c] = "open", proto'[c] = "h1"  PROVE Owned(c)'
    <3>1. CASE dialSucceeds(c)
      BY <2>3, <3>1, DialedOwned
    <3>2. CASE ~dialSucceeds(c)
      <4>1. conn[c] = "open" /\ proto[c] = "h1"
        BY <2>1, <2>3, <3>2, ConnStep, ProtoStep
      <4>2. Owned(c)
        BY <4>1 DEF AccountsInv, NoneLost
      <4>. QED  BY <2>3, <4>1, <4>2, OwnedStep
    <3>. QED  BY <3>1, <3>2
  <2>. QED  BY <2>2, <2>3 DEF AccountsInv, NoneLost
<1>3. AccountsInv => NoOrphan
  <2>. SUFFICES ASSUME AccountsInv, NEW c \in Wants, conn[c] = "open", proto[c] = "h1"
                PROVE  \/ Users(c) # {} \/ PutsOf(c) # {} \/ Pooled(c)
                       \/ c \in toClose \cup lateClose \/ loop[c] = "close"
    BY DEF NoOrphan
  <2>1. Owned(c)
    BY DEF AccountsInv, NoneLost
  <2>2. \A u \in Wants : Uses(u, c) => u \in Users(c)
    BY DEF Users, Uses
  <2>3. \A p \in puts : p.conn = c => p \in PutsOf(c)
    BY DEF PutsOf
  <2>. QED  BY <2>1, <2>2, <2>3 DEF Owned
<1>4. NoOrphan /\ PoolExact => ConnsAccounted
  BY Zenon DEF PoolExact, ConnsAccounted
<1>5. Init /\ OwnersInv => AccountsInv
  BY <1>1 DEF AccountsInv
<1>. QED  BY <1>2, <1>3, <1>4, <1>5, Owners, PoolIsExact, PTL DEF Spec

----------------------------------------------------------------------------
(* The count of a host's conns                                             *)

\* What connsPerHost counts: the dials that hold a permission, and the open
\* conns.
Live(k) ==
  {w \in Wants : key[w] = k /\ (dial[w] \in {"go", "dialing", "dec"} \/ conn[w] = "open")}

\* Without HTTP/2 no request gives up the count of a conn it has lost.
OnlyHTTP1 ==
  /\ \A c \in Wants : proto[c] = "h1"
  /\ \A w \in Wants : req[w] # "dec"

\* The count of every host is right and within its limit.
LiveCounted ==
  MaxConnsPerHost > 0 =>
    \A k \in Keys : connsPerHost[k] = Cardinality(Live(k)) /\ connsPerHost[k] <= MaxConnsPerHost

CountsInv == OwnersInv /\ OnlyHTTP1 /\ LiveCounted /\ NoUnderflow

\* Adding one call to a finite set, taking one out, and both.
LEMMA Counts ==
  ASSUME NEW S, IsFiniteSet(S), NEW x
  PROVE  /\ Cardinality(S) \in Nat
         /\ x \notin S => Cardinality(S \cup {x}) = Cardinality(S) + 1
         /\ x \in S => Cardinality(S) >= 1 /\ Cardinality(S \ {x}) = Cardinality(S) - 1
         /\ x \in S => \A y : y \notin S => Cardinality((S \ {x}) \cup {y}) = Cardinality(S)
<1>1. Cardinality(S) \in Nat
  BY FS_CardinalityType
<1>2. x \notin S => Cardinality(S \cup {x}) = Cardinality(S) + 1
  BY FS_AddElement
<1>3. IsFiniteSet(S \ {x}) /\ (x \in S => Cardinality(S \ {x}) = Cardinality(S) - 1)
  BY FS_RemoveElement
<1>4. Cardinality(S \ {x}) \in Nat
  BY <1>3, FS_CardinalityType
<1>5. ASSUME x \in S, NEW y, y \notin S
      PROVE  Cardinality((S \ {x}) \cup {y}) = Cardinality(S)
  <2>1. y \notin S \ {x}
    BY <1>5
  <2>2. Cardinality((S \ {x}) \cup {y}) = Cardinality(S \ {x}) + 1
    BY <1>3, <2>1, FS_AddElement
  <2>. QED  BY <1>1, <1>3, <1>5, <2>2
<1>. QED  BY <1>1, <1>2, <1>3, <1>4, <1>5

\* There are finitely many of them.
LEMMA LiveFinite ==
  ASSUME IsFiniteSet(Wants)
  PROVE  \A k : IsFiniteSet(Live(k))
BY FS_Subset DEF Live

\* A step that leaves the count and what it counts alone.
LEMMA CountsKept ==
  ASSUME LiveCounted, NoUnderflow, \A k \in Keys : Live(k)' = Live(k), UNCHANGED <<connsPerHost, panicked>>
  PROVE  LiveCounted' /\ NoUnderflow'
BY Zenon DEF LiveCounted, NoUnderflow

\* decConnsPerHost, when x has lost its permission or its conn: the count
\* goes to the next call in the queue or down by one, and is never zero.
LEMMA decConnsPerHostCounts ==
  ASSUME IsFiniteSet(Wants), CountsInv, NEW x \in Wants, x \in Live(key[x]), NEW S,
         NEW d \in [Wants -> DialStates], decConnsPerHost(key[x], d, S),
         \A w \in Wants : w # x => d[w] = dial[w] /\ conn'[w] = conn[w],
         d[x] \notin {"go", "dialing", "dec"}, conn'[x] # "open"
  PROVE  LiveCounted' /\ NoUnderflow'
<1>. DEFINE k == key[x]
            q == connsPerHostWait[k]
            i == FirstIn(q, S)
<1>0. MaxConnsPerHost \in Nat /\ k \in Keys
  BY PoolAssumption
<1>1. CASE MaxConnsPerHost <= 0
  BY <1>0, <1>1 DEF decConnsPerHost, LiveCounted, CountsInv, NoUnderflow, limitVars
<1>2. CASE MaxConnsPerHost > 0
  <2>1. /\ connsPerHost \in [Keys -> Nat] /\ q \in Seq(Wants) /\ IsFiniteSet(Live(k))
        /\ \A l \in Keys : connsPerHost[l] = Cardinality(Live(l)) /\ connsPerHost[l] <= MaxConnsPerHost
    BY <1>0, <1>2, LiveFinite DEF CountsInv, OwnersInv, TypeOK, LiveCounted
  <2>2. connsPerHost[k] >= 1
    BY <1>0, <2>1, Counts
  <2>3. i \in 0 .. Len(q)
    BY <2>1, FirstInProperty
  <2>4. CASE /\ i = 0 /\ dial' = d /\ connsPerHost' = [connsPerHost EXCEPT ![k] = @ - 1] /\ UNCHANGED panicked
    <3>1. \A l \in Keys : l # k => Live(l)' = Live(l) /\ connsPerHost'[l] = connsPerHost[l]
      BY <1>0, <2>1, <2>4 DEF Live
    <3>2. Live(k)' = Live(k) \ {x}
      BY <2>4 DEF Live
    <3>3. connsPerHost'[k] = connsPerHost[k] - 1
      BY <1>0, <2>1, <2>4
    <3>4. Cardinality(Live(k) \ {x}) = Cardinality(Live(k)) - 1
      BY <2>1, Counts
    <3>5. connsPerHost'[k] = Cardinality(Live(k)') /\ connsPerHost'[k] <= MaxConnsPerHost
      BY <1>0, <2>1, <3>2, <3>3, <3>4
    <3>6. \A l \in Keys : connsPerHost'[l] = Cardinality(Live(l)') /\ connsPerHost'[l] <= MaxConnsPerHost
      BY <2>1, <3>1, <3>5
    <3>. QED  BY <2>4, <3>6 DEF LiveCounted, NoUnderflow, CountsInv
  <2>5. CASE i # 0 /\ dial' = [d EXCEPT ![q[i]] = "go"] /\ UNCHANGED <<connsPerHost, panicked>>
    <3>1. PICK y \in Wants : y = q[i] /\ y \in ToSet(q)
      <4>1. i \in 1 .. Len(q)
        BY <2>1, <2>3, <2>5
      <4>. HIDE DEF q, i
      <4>. QED  BY <2>1, <4>1, ElementsOf
    <3>2. key[y] = k /\ dial[y] = "none" /\ conn[y] # "open"
      BY <1>0, <3>1 DEF CountsInv, OwnersInv, DialedOnce
    <3>3. y \notin Live(k)
      BY <3>2 DEF Live
    <3>4. y # x
      BY <3>3
    <3>5. \A w \in Wants : dial'[w] = IF w = y THEN "go" ELSE d[w]
      BY <2>5, <3>1
    <3>6. \A l \in Keys : l # k => Live(l)' = Live(l)
      BY <3>2, <3>5 DEF Live
    <3>7. Live(k)' = (Live(k) \ {x}) \cup {y}
      BY <3>2, <3>4, <3>5 DEF Live
    <3>8. Cardinality((Live(k) \ {x}) \cup {y}) = Cardinality(Live(k))
      <4>1. x \in Live(k)
        OBVIOUS
      <4>2. \A z : z \notin Live(k) => Cardinality((Live(k) \ {x}) \cup {z}) = Cardinality(Live(k))
        BY <2>1, <4>1, Counts, Zenon
      <4>. QED  BY <3>3, <4>2
    <3>9. \A l \in Keys : connsPerHost'[l] = Cardinality(Live(l)') /\ connsPerHost'[l] <= MaxConnsPerHost
      BY <2>1, <2>5, <3>6, <3>7, <3>8
    <3>. QED  BY <2>5, <3>9 DEF LiveCounted, NoUnderflow, CountsInv
  <2>6. connsPerHost[k] # 0 /\ ~(MaxConnsPerHost <= 0)
    BY <1>0, <1>2, <2>1, <2>2
  <2>. QED  BY <2>4, <2>5, <2>6 DEF decConnsPerHost
<1>. QED  BY <1>0, <1>1, <1>2

\* Closing an open conn gives its count up, closing a closed one nothing.
LEMMA closeLockedCounts ==
  ASSUME IsFiniteSet(Wants), CountsInv, NEW c \in Wants, NEW S, closeLocked(c, S)
  PROVE  LiveCounted' /\ NoUnderflow'
<1>1. CASE UNCHANGED <<conn, dial, limitVars>>
  <2>1. \A k \in Keys : Live(k)' = Live(k)
    BY <1>1 DEF Live
  <2>. QED  BY <1>1, <2>1, CountsKept DEF CountsInv, limitVars
<1>2. CASE /\ conn[c] = "open" /\ conn' = [conn EXCEPT ![c] = "closed"]
           /\ decConnsPerHost(key[c], dial, S)
  <2>1. c \in Live(key[c])
    BY <1>2 DEF Live
  <2>2. /\ dial \in [Wants -> DialStates] /\ dial[c] = "done" /\ conn'[c] # "open"
        /\ \A w \in Wants : w # c => conn'[w] = conn[w]
    BY <1>2 DEF CountsInv, OwnersInv, TypeOK, DialedOnce
  <2>. QED  BY <1>2, <2>1, <2>2, decConnsPerHostCounts
<1>. QED  BY <1>1, <1>2 DEF closeLocked

\* No step miscounts, where every conn is an HTTP/1 conn.
LEMMA CountsStep ==
  ASSUME IsFiniteSet(Wants), Protos \subseteq {"h1"}, CountsInv, [Next]_vars
  PROVE  OnlyHTTP1' /\ LiveCounted' /\ NoUnderflow'
<1>. DEFINE Goal == LiveCounted' /\ NoUnderflow'
<1>0. TypeOK /\ OwnersInv /\ \A w \in Wants : proto[w] = "h1" /\ req[w] # "dec"
  BY DEF CountsInv, OwnersInv, OnlyHTTP1
<1>1. ASSUME UNCHANGED <<connsPerHost, panicked, dial, conn>>  PROVE Goal
  <2>1. \A k \in Keys : Live(k)' = Live(k)
    BY <1>1 DEF Live
  <2>. QED  BY <1>1, <2>1, CountsKept DEF CountsInv
<1>2. ASSUME NEW c \in Wants, NEW S, closeLocked(c, S)
      PROVE  Goal
  BY <1>2, closeLockedCounts
<1>3. ASSUME NEW w \in Wants, queueForDial(w)
      PROVE  Goal
  <2>. DEFINE k == key[w]
  <2>1. /\ req[w] = "dialq" /\ UNCHANGED <<conn, panicked>>
    BY <1>3, Zenon DEF queueForDial, connVars, limitVars
  <2>2. dial[w] = "none" /\ conn[w] # "open" /\ k \in Keys /\ MaxConnsPerHost \in Nat
    BY <2>1, PoolAssumption DEF CountsInv, OwnersInv, Registered, DialedOnce
  <2>3. CASE MaxConnsPerHost <= 0
    BY <2>1, <2>2, <2>3 DEF LiveCounted, NoUnderflow, CountsInv
  <2>4. CASE UNCHANGED <<connsPerHost, dial>>
    BY <1>1, <2>1, <2>4
  <2>5. CASE /\ MaxConnsPerHost > 0 /\ connsPerHost[k] < MaxConnsPerHost
             /\ connsPerHost' = [connsPerHost EXCEPT ![k] = @ + 1] /\ dial' = [dial EXCEPT ![w] = "go"]
    <3>1. /\ connsPerHost \in [Keys -> Nat] /\ IsFiniteSet(Live(k)) /\ dial \in [Wants -> DialStates]
          /\ \A l \in Keys : connsPerHost[l] = Cardinality(Live(l)) /\ connsPerHost[l] <= MaxConnsPerHost
      BY <2>5, LiveFinite DEF CountsInv, OwnersInv, TypeOK, LiveCounted
    <3>2. \A v \in Wants : dial'[v] = IF v = w THEN "go" ELSE dial[v]
      BY <2>5, <3>1
    <3>3. \A l \in Keys : l # k => Live(l)' = Live(l) /\ connsPerHost'[l] = connsPerHost[l]
      BY <2>1, <2>5, <3>1, <3>2 DEF Live
    <3>4. w \notin Live(k) /\ Live(k)' = Live(k) \cup {w}
      BY <2>1, <2>2, <3>2 DEF Live
    <3>5. Cardinality(Live(k) \cup {w}) = Cardinality(Live(k)) + 1
      BY <3>1, <3>4, Counts
    <3>6. connsPerHost'[k] = connsPerHost[k] + 1
      BY <2>2, <2>5, <3>1
    <3>7. connsPerHost'[k] = Cardinality(Live(k)') /\ connsPerHost'[k] <= MaxConnsPerHost
      BY <2>2, <2>5, <3>1, <3>4, <3>5, <3>6
    <3>8. \A l \in Keys : connsPerHost'[l] = Cardinality(Live(l)') /\ connsPerHost'[l] <= MaxConnsPerHost
      BY <3>1, <3>3, <3>7
    <3>. QED  BY <2>1, <3>8 DEF LiveCounted, NoUnderflow, CountsInv
  <2>. QED  BY <1>3, <2>3, <2>4, <2>5 DEF queueForDial, limitVars
<1>4. ASSUME NEW w \in Wants, dialBegins(w) \/ dialSucceeds(w) \/ dialFails(w)
      PROVE  Goal
  <2>1. /\ dial[w] \in {"go", "dialing"} /\ UNCHANGED <<connsPerHost, panicked>>
        /\ \/ UNCHANGED conn /\ \E x \in {"dialing", "dec"} : dial' = [dial EXCEPT ![w] = x]
           \/ dial' = [dial EXCEPT ![w] = "done"] /\ conn' = [conn EXCEPT ![w] = "open"]
    BY <1>4 DEF dialBegins, dialSucceeds, dialFails, connVars, limitVars
  <2>2. \A k \in Keys : Live(k)' = Live(k)
    BY <1>0, <2>1 DEF Live, TypeOK
  <2>. QED  BY <2>1, <2>2, CountsKept DEF CountsInv
<1>5. ASSUME NEW w \in Wants, dialGivesUp(w)
      PROVE  Goal
  <2>. DEFINE d == [dial EXCEPT ![w] = "done"]
  <2>1. /\ dial[w] \in {"go", "dec"} /\ UNCHANGED conn /\ decConnsPerHost(key[w], d, Waiters)
    BY <1>5 DEF dialGivesUp, connVars
  <2>2. /\ w \in Live(key[w]) /\ d \in [Wants -> DialStates] /\ d[w] = "done"
        /\ \A v \in Wants : v # w => d[v] = dial[v]
    BY <1>0, <2>1 DEF Live, TypeOK, DialStates
  <2>3. conn'[w] # "open"
    BY <2>1 DEF CountsInv, OwnersInv, DialedOnce
  <2>. HIDE DEF d
  <2>. QED  BY <2>1, <2>2, <2>3, decConnsPerHostCounts
<1>6. ASSUME NEW w \in Wants, roundTripFailed(w)
      PROVE  Goal
  <2>1. held[w] \in Wants /\ closeLocked(held[w], Waiters)
    BY <1>0, <1>6 DEF roundTripFailed, TypeOK
  <2>. QED  BY <1>2, <2>1
<1>7. ASSUME NEW w \in Wants, noCachedConnDec(w) \/ noCachedConn(w)
      PROVE  FALSE
  BY <1>0, <1>7 DEF noCachedConnDec, noCachedConn, TypeOK
<1>8. ASSUME NEW p \in puts, putClose(p)
      PROVE  Goal
  <2>1. p.conn \in Wants /\ closeLocked(p.conn, Waiters)
    BY <1>0, <1>8 DEF putClose, TypeOK, Putting
  <2>. QED  BY <1>2, <2>1
<1>9. ASSUME NEW p \in puts, tryPutIdleConn(p)
      PROVE  Goal
  <2>1. p.conn \in Wants /\ idleLRU \in Seq(Wants)
    BY <1>0 DEF TypeOK, Putting
  <2>2. \/ UNCHANGED <<connsPerHost, panicked, dial, conn>>
        \/ \E S : closeLocked(Head(Append(idleLRU, p.conn)), S)
    BY <1>9, Zenon DEF tryPutIdleConn, addIdle, connVars, limitVars
  <2>3. Head(Append(idleLRU, p.conn)) \in Wants
    BY <2>1
  <2>. QED  BY <1>1, <1>2, <2>2, <2>3, Zenon
<1>10. LiveCounted' /\ NoUnderflow'
  <2>. SUFFICES Goal
    OBVIOUS
  <2>. HIDE DEF Goal
  <2>1. CASE Next
    BY <1>1, <1>2, <1>3, <1>4, <1>5, <1>6, <1>7, <1>8, <1>9, <2>1, ZenonT(60)
    DEF Next, Request, Cancel, Dial, IdleClose, PutStep, queueForIdleConn, getConnReady, answered,
        getConnCanceled, canceledBeforeRoundTrip, readLoopCloses, readLoopExits, timerFires,
        closeConnIfStillIdle, closeIdleConn, CloseIdleConnections, tryPutCheck, connVars, limitVars
  <2>2. CASE UNCHANGED vars
    BY <1>1, <2>2 DEF vars, connVars, limitVars
  <2>. QED  BY <2>1, <2>2, Zenon
<1>11. \A c \in Wants : proto'[c] = "h1"
  <2>1. ASSUME NEW c \in Wants, dialSucceeds(c)  PROVE proto'[c] = "h1"
    BY <1>0, <2>1 DEF dialSucceeds, TypeOK
  <2>. QED  BY <1>0, <2>1, ProtoStep
<1>12. ASSUME NEW w \in Wants, req'[w] = "dec"  PROVE FALSE
  <2>1. ASSUME NEW v \in Wants, NEW x, x # "dec", req' = [req EXCEPT ![v] = x]  PROVE FALSE
    BY <1>0, <1>12, <2>1 DEF TypeOK
  <2>2. CASE UNCHANGED req
    BY <1>0, <1>12, <2>2
  <2>a. ASSUME NEW v \in Wants, queueForIdleConn(v)  PROVE FALSE
    BY <2>1, <2>a DEF queueForIdleConn, takeIdleConn, awaitIdleConn
  <2>b. ASSUME NEW v \in Wants, queueForDial(v) \/ getConnReady(v)  PROVE FALSE
    BY <2>1, <2>b DEF queueForDial, getConnReady
  <2>c. ASSUME NEW v \in Wants, \/ answered(v) \/ roundTripFailed(v) \/ getConnCanceled(v)
                                \/ canceledBeforeRoundTrip(v)
        PROVE  FALSE
    <3>1. req' = [req EXCEPT ![v] = "done"]
      BY <2>c, Zenon DEF answered, roundTripFailed, getConnCanceled, canceledBeforeRoundTrip
    <3>. QED  BY <2>1, <3>1
  <2>3. CASE Next
    BY <1>7, <2>2, <2>a, <2>b, <2>c, <2>3, Zenon
    DEF Next, Request, Cancel, Dial, IdleClose, PutStep, dialBegins, dialSucceeds, dialFails, dialGivesUp, readLoopCloses, readLoopExits, timerFires,
        closeConnIfStillIdle, closeIdleConn, CloseIdleConnections, tryPutCheck, tryPutIdleConn, putClose
  <2>4. CASE UNCHANGED vars
    BY <2>2, <2>4 DEF vars
  <2>. QED  BY <2>3, <2>4, Zenon
<1>. QED  BY <1>10, <1>11, <1>12 DEF OnlyHTTP1

\* connsPerHost counts exactly the dials and the open conns of a host, never
\* exceeds MaxConnsPerHost and is never given up twice, for any number of
\* calls, as long as no conn speaks HTTP/2.
THEOREM CountIsExact ==
  ASSUME IsFiniteSet(Wants), Protos \subseteq {"h1"}
  PROVE  Spec => []ConnsCounted
<1>1. Init /\ OwnersInv => CountsInv
  <2>. SUFFICES ASSUME Init, OwnersInv  PROVE CountsInv
    OBVIOUS
  <2>1. \A k \in Keys : Live(k) = {} /\ connsPerHost[k] = 0
    BY DEF Init, Live
  <2>2. MaxConnsPerHost > 0 => 0 <= MaxConnsPerHost
    BY PoolAssumption
  <2>. QED  BY <2>1, <2>2, FS_EmptySet DEF Init, CountsInv, OnlyHTTP1, LiveCounted, NoUnderflow
<1>2. CountsInv /\ [Next]_vars /\ OwnersInv' => CountsInv'
  <2>. SUFFICES ASSUME CountsInv, [Next]_vars, OwnersInv'  PROVE CountsInv'
    OBVIOUS
  <2>. QED  BY CountsStep DEF CountsInv
<1>3. CountsInv => ConnsCounted
  <2>. SUFFICES ASSUME CountsInv, MaxConnsPerHost > 0, NEW k \in Keys
                PROVE  /\ connsPerHost[k] = Cardinality(Counted(k)) + Cardinality(OpenConns(k))
                       /\ connsPerHost[k] <= MaxConnsPerHost
    BY DEF ConnsCounted, ConnsPerHostExact, CountsInv
  <2>1. connsPerHost[k] = Cardinality(Live(k)) /\ connsPerHost[k] <= MaxConnsPerHost
    BY DEF CountsInv, LiveCounted
  <2>2. Live(k) = Counted(k) \cup OpenConns(k)
    BY DEF Live, Counted, OpenConns
  <2>3. Counted(k) \cap OpenConns(k) = {}
    BY DEF Counted, OpenConns, CountsInv, OwnersInv, DialedOnce
  <2>4. IsFiniteSet(Counted(k)) /\ IsFiniteSet(OpenConns(k))
    BY FS_Subset DEF Counted, OpenConns
  <2>5. Cardinality(Counted(k) \cap OpenConns(k)) = 0
    BY <2>3, FS_EmptySet
  <2>6. Cardinality(Counted(k)) \in Nat /\ Cardinality(OpenConns(k)) \in Nat
    BY <2>4, FS_CardinalityType
  <2>7. Cardinality(Live(k)) =
          Cardinality(Counted(k)) + Cardinality(OpenConns(k)) - Cardinality(Counted(k) \cap OpenConns(k))
    BY <2>2, <2>4, FS_Union
  <2>. QED  BY <2>1, <2>5, <2>6, <2>7
<1>. QED  BY <1>1, <1>2, <1>3, Owners, PTL DEF Spec
=============================================================================
