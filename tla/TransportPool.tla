--------------------------- MODULE TransportPool ---------------------------
(***************************************************************************)
(* The connection pool of the HTTP client Transport (transport.go): how a  *)
(* request obtains a connection (getConn), by dialing or from the idle     *)
(* pool, whichever comes first, and how a connection goes back to the      *)
(* pool, is evicted, times out or is closed.                               *)
(*                                                                         *)
(* A member of Wants stands for one call of getConn, with its wantConn     *)
(* and the goroutine that made the call.  A wantConn is dialed for at most *)
(* once, so the persistConn its dial creates bears the same name.          *)
(*                                                                         *)
(* One step is one critical section of idleMu, connsPerHostMu, w.mu or     *)
(* pc.mu; the sections nested inside it commute with everything that can   *)
(* run between them (see the README).                                      *)
(***************************************************************************)
EXTENDS Integers, SequencesExt

CONSTANTS
  Wants,                \* the calls of getConn
  Keys,                 \* the connectMethodKeys
  key,                  \* key[w]: w.key, and the cacheKey of the conn dialed for w
  NoConn,               \* a nil *persistConn
  Cancelable,           \* the calls whose request may be canceled
  Protos,               \* what a dial may negotiate: "h1" or "h2" (pconn.alt # nil)
  MaxConnsPerHost,      \* Transport fields; as in Go, 0 is no limit
  MaxIdleConnsPerHost,
  MaxIdleConns,
  DisableKeepAlives,
  IdleConnTimeout       \* whether an idle timeout is configured

ASSUME PoolAssumption ==
  /\ key \in [Wants -> Keys]
  /\ NoConn \notin Wants /\ Cancelable \subseteq Wants
  /\ Protos \subseteq {"h1", "h2"}
  /\ MaxConnsPerHost \in Nat
  /\ MaxIdleConnsPerHost \in Int
  /\ MaxIdleConns \in Nat
  /\ DisableKeepAlives \in BOOLEAN
  /\ IdleConnTimeout \in BOOLEAN

VARIABLES
  \* guarded by idleMu
  idleConn,          \* [Keys -> Seq(conn)], most recently used at the end
  idleConnWait,      \* [Keys -> Seq(want)], the calls waiting for an idle conn
  idleLRU,           \* all idle conns, the oldest first
  closeIdle,         \* the user has requested to close all idle conns
  armed,             \* conns whose idleTimer is running
  \* guarded by connsPerHostMu
  connsPerHost,      \* [Keys -> Nat]
  connsPerHostWait,  \* [Keys -> Seq(want)], the calls waiting for permission to dial
  panicked,          \* decConnsPerHost has panicked with "connCount underflow"
  \* wantConn, guarded by w.mu
  wpc,               \* w.pc
  werr,              \* whether w.err # nil
  \* persistConn, guarded by pc.mu
  conn,              \* "none", then "open", then "closed" (pc.closed # nil)
  proto,             \* "h1" or "h2"
  reused,            \* conns marked reused
  \* goroutines
  req,               \* position of the goroutine that called getConn
  held,              \* the conn that goroutine works with
  dial,              \* position of the goroutine running dialConnFor
  loop,              \* position of a conn's readLoop (HTTP/1 only)
  puts,              \* running calls of tryPutIdleConn / putOrCloseIdleConn
  lateClose,         \* conns with a goroutine about to run closeConnIfStillIdle
  toClose            \* conns CloseIdleConnections has still to close

idleVars == <<idleConn, idleConnWait, idleLRU, closeIdle, armed>>
limitVars == <<connsPerHost, connsPerHostWait, panicked>>
wantVars == <<wpc, werr>>
connVars == <<conn, proto, reused>>
vars == <<idleVars, limitVars, wantVars, connVars, req, held, dial, loop, puts,
          lateClose, toClose>>

\* A goroutine inside tryPutIdleConn(c) on behalf of a canceled request, a
\* dial or the conn's own readLoop: about to test isBroken, about to lock
\* idleMu, or about to close the conn because it was not accepted.
Put(by, id, c) == [by |-> by, id |-> id, conn |-> c, at |-> "check"]

DialStates == {"none", "go", "dialing", "dec", "done"}

Putting == [by : {"req", "dial", "loop"}, id : Wants, conn : Wants, at : {"check", "lock", "close"}]

----------------------------------------------------------------------------
(* wantConn and wantConnQueue                                              *)

\* w.waiting(); also w.ctx # nil, since ctx is cleared when w is answered.
Waiting(w) == wpc[w] = NoConn /\ ~werr[w]

Waiters == {w \in Wants : Waiting(w)}

WaitingIn(q) == {i \in DOMAIN q : Waiting(q[i])}

\* The position of the first member of S in q, 0 if there is none.
FirstIn(q, S) == SelectInSeq(q, LAMBDA w : w \in S)

\* What remains of q after popFront up to and including position i.
After(q, i) == SubSeq(q, i + 1, Len(q))

\* cleanFront, then pushBack(w)
Enqueue(q, w) ==
  LET i == FirstIn(q, Waiters)
  IN  IF i = 0 THEN <<w>> ELSE Append(SubSeq(q, i, Len(q)), w)

----------------------------------------------------------------------------
(* connsPerHost                                                            *)

\* Mutant: the count is given up even when a call waits for it.
decConnsPerHostForgetful(k, d, S) ==
  /\ dial' = d
  /\ connsPerHost' = [connsPerHost EXCEPT ![k] = IF @ > 0 THEN @ - 1 ELSE 0]
  /\ UNCHANGED <<connsPerHostWait, panicked>>

\* decConnsPerHost(k): hands the count to the next call that still waits,
\* or gives it up.  d is the dial state the caller has set otherwise, S
\* the wantConns that still wait.
decConnsPerHost(k, d, S) ==
  LET q == connsPerHostWait[k]
      i == FirstIn(q, S)
  IN  \/ /\ MaxConnsPerHost <= 0
         /\ dial' = d
         /\ UNCHANGED limitVars
      \/ /\ MaxConnsPerHost > 0 /\ connsPerHost[k] = 0
         /\ panicked' = TRUE
         /\ dial' = d
         /\ UNCHANGED <<connsPerHost, connsPerHostWait>>
      \/ /\ MaxConnsPerHost > 0 /\ connsPerHost[k] > 0 /\ i # 0
         /\ dial' = [d EXCEPT ![q[i]] = "go"]
         /\ connsPerHostWait' = [connsPerHostWait EXCEPT ![k] = After(q, i)]
         /\ UNCHANGED <<connsPerHost, panicked>>
      \/ /\ MaxConnsPerHost > 0 /\ connsPerHost[k] > 0 /\ i = 0
         /\ dial' = d
         /\ connsPerHostWait' = [connsPerHostWait EXCEPT ![k] = <<>>]
         /\ connsPerHost' = [connsPerHost EXCEPT ![k] = @ - 1]
         /\ UNCHANGED panicked

\* Mutant: closing a closed conn gives up its count again.
closeLockedTwice(c, S) ==
  /\ conn' = [conn EXCEPT ![c] = "closed"]
  /\ decConnsPerHost(key[c], dial, S)
  /\ UNCHANGED <<proto, reused>>

\* pc.close(err): only the first call has an effect.
closeLocked(c, S) ==
  /\ UNCHANGED <<proto, reused>>
  /\ \/ /\ conn[c] = "open"
        /\ conn' = [conn EXCEPT ![c] = "closed"]
        /\ decConnsPerHost(key[c], dial, S)
     \/ /\ conn[c] # "open"
        /\ UNCHANGED <<conn, dial, limitVars>>

\* queueForDial(w): start the dial, or wait for permission.
queueForDial(w) ==
  LET k == key[w] IN
  /\ req[w] = "dialq"
  /\ req' = [req EXCEPT ![w] = "select"]
  /\ \/ /\ MaxConnsPerHost <= 0
        /\ dial' = [dial EXCEPT ![w] = "go"]
        /\ UNCHANGED limitVars
     \/ /\ MaxConnsPerHost > 0 /\ connsPerHost[k] < MaxConnsPerHost
        /\ connsPerHost' = [connsPerHost EXCEPT ![k] = @ + 1]
        /\ dial' = [dial EXCEPT ![w] = "go"]
        /\ UNCHANGED <<connsPerHostWait, panicked>>
     \/ /\ MaxConnsPerHost > 0 /\ connsPerHost[k] >= MaxConnsPerHost
        /\ connsPerHostWait' = [connsPerHostWait EXCEPT ![k] = Enqueue(@, w)]
        /\ UNCHANGED <<connsPerHost, panicked, dial>>
  /\ UNCHANGED <<idleVars, wantVars, connVars, held, loop, puts, lateClose, toClose>>

----------------------------------------------------------------------------
(* The idle pool                                                           *)

maxIdleConnsPerHost == IF MaxIdleConnsPerHost # 0 THEN MaxIdleConnsPerHost ELSE 2

keepAlivesDisabled == DisableKeepAlives \/ MaxIdleConnsPerHost < 0

\* Mutant: the conn leaves the LRU list only.
removeIdleConnLockedLRU(c, list, lru) ==
  /\ idleConn' = list
  /\ idleLRU' = RemoveFirst(lru, c)
  /\ armed' = armed \ {c}

\* removeIdleConnLocked(c): the idle structures without c, its timer stopped.
removeIdleConnLocked(c, list, lru) ==
  /\ idleConn' = [list EXCEPT ![key[c]] = RemoveFirst(@, c)]
  /\ idleLRU' = RemoveFirst(lru, c)
  /\ armed' = armed \ {c}

\* The state of queueForIdleConn's walk over the list of idle conns of w.key,
\* from the most recently used one: the first `old` conns have been idle
\* for too long; the walk ends at the first conn that is neither old nor
\* broken (0: there is none, all conns have been dropped from the list).
Usable(list, old) == SelectLastInSubSeq(list, old + 1, Len(list), LAMBDA c : conn[c] = "open")

\* Mutant: an HTTP/1 conn is shared as an HTTP/2 conn may be.
takeIdleConnShared(w, list, n) ==
  /\ n # 0
  /\ wpc' = [wpc EXCEPT ![w] = list[n]]
  /\ held' = [held EXCEPT ![w] = list[n]]
  /\ req' = [req EXCEPT ![w] = "using"]
  /\ idleConn' = [idleConn EXCEPT ![key[w]] = SubSeq(list, 1, n)]
  /\ UNCHANGED <<idleLRU, idleConnWait, lateClose>>

\* queueForIdleConn(w) finds an idle connection and delivers it.
takeIdleConn(w, list, n) ==
  LET c == list[n] IN
  /\ n # 0
  /\ wpc' = [wpc EXCEPT ![w] = c]
  /\ held' = [held EXCEPT ![w] = c]
  /\ req' = [req EXCEPT ![w] = "using"]
  /\ \/ /\ proto[c] = "h1"
        /\ idleLRU' = RemoveFirst(idleLRU, c)
        /\ idleConn' = [idleConn EXCEPT ![key[w]] = SubSeq(list, 1, n - 1)]
     \/ /\ proto[c] = "h2"
        /\ idleConn' = [idleConn EXCEPT ![key[w]] = SubSeq(list, 1, n)]
        /\ UNCHANGED idleLRU
  /\ UNCHANGED <<idleConnWait, lateClose>>

\* queueForIdleConn(w) finds none and registers w.  The conns that are too
\* old are left to goroutines running closeConnIfStillIdle.
awaitIdleConn(w, list, old, n) ==
  /\ n = 0
  /\ idleConn' = [idleConn EXCEPT ![key[w]] = <<>>]
  /\ idleConnWait' = [idleConnWait EXCEPT ![key[w]] = Enqueue(@, w)]
  /\ lateClose' = lateClose \cup {list[i] : i \in 1 .. old}
  /\ req' = [req EXCEPT ![w] = "dialq"]
  /\ UNCHANGED <<idleLRU, wpc, held>>

queueForIdleConn(w) ==
  LET list == idleConn[key[w]] IN
  /\ req[w] = "new"
  /\ \/ /\ DisableKeepAlives
        /\ req' = [req EXCEPT ![w] = "dialq"]
        /\ UNCHANGED <<idleVars, wpc, held, lateClose>>
     \/ /\ ~DisableKeepAlives
        /\ closeIdle' = FALSE
        /\ \E old \in (IF IdleConnTimeout THEN 0 .. Len(list) ELSE {0}) :
              \/ takeIdleConn(w, list, Usable(list, old))
              \/ awaitIdleConn(w, list, old, Usable(list, old))
        /\ UNCHANGED armed
  /\ UNCHANGED <<limitVars, werr, connVars, dial, loop, puts, toClose>>

\* tryPutIdleConn(c) ends with an error, or with nil.
PutRefused(p) ==
  /\ puts' = (puts \ {p}) \cup {[p EXCEPT !.at = "close"]}
  /\ UNCHANGED loop

PutAccepted(p) ==
  /\ puts' = puts \ {p}
  /\ loop' = IF p.by = "loop" THEN [loop EXCEPT ![p.conn] = "run"] ELSE loop

\* tryPutIdleConn before it locks idleMu.
tryPutCheck(p) ==
  /\ p.at = "check"
  /\ \/ /\ keepAlivesDisabled \/ conn[p.conn] = "closed"
        /\ PutRefused(p)
        /\ UNCHANGED reused
     \/ /\ ~keepAlivesDisabled /\ conn[p.conn] = "open"
        /\ reused' = reused \cup {p.conn}
        /\ puts' = (puts \ {p}) \cup {[p EXCEPT !.at = "lock"]}
        /\ UNCHANGED loop
  /\ UNCHANGED <<idleVars, limitVars, wantVars, conn, proto, req, held, dial,
                 lateClose, toClose>>

\* Mutant: "dup idle pconn" is not avoided for HTTP/2.
neverIdle(c) == FALSE

\* An HTTP/2 conn that is in the pool already stays there.
alreadyIdle(c) == proto[c] = "h2" /\ c \in ToSet(idleLRU)

\* The conn goes to the first (HTTP/2: every) call that still waits for one.
Recipients(c, q) ==
  LET i == FirstIn(q, Waiters)
  IN  IF proto[c] = "h2" THEN {q[j] : j \in WaitingIn(q)}
      ELSE IF i = 0 THEN {} ELSE {q[i]}

\* Mutant: only the head of the queue is looked at, waiting or not.
deliverIdleHead(c) ==
  LET q == idleConnWait[key[c]]
  IN  /\ wpc' = [w \in Wants |-> IF q # <<>> /\ w = Head(q) /\ Waiting(w) THEN c ELSE wpc[w]]
      /\ idleConnWait' = [idleConnWait EXCEPT ![key[c]] = IF q = <<>> THEN q ELSE Tail(q)]

deliverIdle(c) ==
  LET k == key[c]
      q == idleConnWait[k]
      i == FirstIn(q, Waiters)
  IN  /\ wpc' = [w \in Wants |-> IF w \in Recipients(c, q) THEN c ELSE wpc[w]]
      /\ idleConnWait' = [idleConnWait EXCEPT
                            ![k] = IF proto[c] = "h1" /\ i # 0 THEN After(q, i) ELSE <<>>]

\* Append c to the pool; the oldest conn leaves when there are too many.
addIdle(c) ==
  LET list == [idleConn EXCEPT ![key[c]] = Append(@, c)]
      lru == Append(idleLRU, c)
      timer == IF IdleConnTimeout /\ proto[c] = "h1" THEN {c} ELSE {}
  IN  \/ /\ MaxIdleConns = 0 \/ Len(lru) <= MaxIdleConns
         /\ idleConn' = list
         /\ idleLRU' = lru
         /\ armed' = armed \cup timer
         /\ UNCHANGED <<connVars, dial, limitVars>>
      \/ /\ MaxIdleConns # 0 /\ Len(lru) > MaxIdleConns
         /\ closeLocked(Head(lru), Waiters \ Recipients(c, idleConnWait[key[c]]))
         /\ idleConn' = [list EXCEPT ![key[Head(lru)]] = RemoveFirst(@, Head(lru))]
         /\ idleLRU' = Tail(lru)
         /\ armed' = (armed \ {Head(lru)}) \cup timer

\* tryPutIdleConn under idleMu.
tryPutIdleConn(p) ==
  LET c == p.conn
      delivered == proto[c] = "h1" /\ Recipients(c, idleConnWait[key[c]]) # {}
      full == closeIdle \/ Len(idleConn[key[c]]) >= maxIdleConnsPerHost
  IN
  /\ p.at = "lock"
  /\ \/ /\ alreadyIdle(c)
        /\ PutAccepted(p)
        /\ UNCHANGED <<idleVars, wpc, connVars, dial, limitVars>>
     \/ /\ ~alreadyIdle(c)
        /\ deliverIdle(c)
        /\ UNCHANGED closeIdle
        /\ \/ /\ delivered
              /\ PutAccepted(p)
              /\ UNCHANGED <<idleConn, idleLRU, armed, connVars, dial, limitVars>>
           \/ /\ ~delivered /\ full
              /\ PutRefused(p)
              /\ UNCHANGED <<idleConn, idleLRU, armed, connVars, dial, limitVars>>
           \/ /\ ~delivered /\ ~full
              /\ PutAccepted(p)
              /\ addIdle(c)
  /\ UNCHANGED <<werr, req, held, lateClose, toClose>>

\* putOrCloseIdleConn, and readLoop's deferred function: the conn was refused.
putClose(p) ==
  /\ p.at = "close"
  /\ closeLocked(p.conn, Waiters)
  /\ puts' = puts \ {p}
  /\ loop' = IF p.by = "loop" THEN [loop EXCEPT ![p.conn] = "remove"] ELSE loop
  /\ UNCHANGED <<idleVars, wantVars, req, held, lateClose, toClose>>

\* The idle timer of c expires: a goroutine starts running its function.
timerFires(c) ==
  /\ c \in armed
  /\ armed' = armed \ {c}
  /\ lateClose' = lateClose \cup {c}
  /\ UNCHANGED <<idleConn, idleConnWait, idleLRU, closeIdle, limitVars, wantVars, connVars,
                 req, held, dial, loop, puts, toClose>>

\* Mutant: the conn may have been taken from the pool meanwhile.
closeConnEvenIfBusy(c) ==
  /\ c \in lateClose
  /\ lateClose' = lateClose \ {c}
  /\ removeIdleConnLocked(c, idleConn, idleLRU)
  /\ closeLocked(c, Waiters)
  /\ UNCHANGED <<idleConnWait, closeIdle, wantVars, req, held, loop, puts, toClose>>

closeConnIfStillIdle(c) ==
  /\ c \in lateClose
  /\ lateClose' = lateClose \ {c}
  /\ \/ /\ c \in ToSet(idleLRU)
        /\ removeIdleConnLocked(c, idleConn, idleLRU)
        /\ closeLocked(c, Waiters)
     \/ /\ c \notin ToSet(idleLRU)
        /\ UNCHANGED <<idleConn, idleLRU, armed, connVars, dial, limitVars>>
  /\ UNCHANGED <<idleConnWait, closeIdle, wantVars, req, held, loop, puts, toClose>>

\* CloseIdleConnections empties the pool under idleMu and then closes what
\* it found there.
CloseIdleConnections ==
  /\ toClose' = toClose \cup UNION {ToSet(idleConn[k]) : k \in Keys}
  /\ idleConn' = [k \in Keys |-> <<>>]
  /\ idleLRU' = <<>>
  /\ closeIdle' = TRUE
  /\ UNCHANGED <<idleConnWait, armed, limitVars, wantVars, connVars, req, held, dial, loop,
                 puts, lateClose>>

closeIdleConn(c) ==
  /\ c \in toClose
  /\ toClose' = toClose \ {c}
  /\ closeLocked(c, Waiters)
  /\ UNCHANGED <<idleVars, wantVars, req, held, loop, puts, lateClose>>

----------------------------------------------------------------------------
(* getConn and the request                                                 *)

\* Mutant: w.err is not looked at.
getConnReadyUnchecked(w) ==
  /\ req[w] = "select" /\ ~Waiting(w)
  /\ req' = [req EXCEPT ![w] = "using"]
  /\ held' = [held EXCEPT ![w] = wpc[w]]
  /\ UNCHANGED <<idleVars, limitVars, wantVars, connVars, dial, loop, puts, lateClose,
                 toClose>>

\* getConn's select sees w.ready: it returns the conn, or w.err.
getConnReady(w) ==
  /\ req[w] = "select" /\ ~Waiting(w)
  /\ \/ /\ wpc[w] # NoConn
        /\ req' = [req EXCEPT ![w] = "using"]
        /\ held' = [held EXCEPT ![w] = wpc[w]]
     \/ /\ wpc[w] = NoConn
        /\ req' = [req EXCEPT ![w] = "done"]
        /\ UNCHANGED held
  /\ UNCHANGED <<idleVars, limitVars, wantVars, connVars, dial, loop, puts, lateClose,
                 toClose>>

\* Mutant: a conn that has been delivered is not given back.
getConnCanceledLeaks(w) ==
  /\ req[w] = "select"
  /\ req' = [req EXCEPT ![w] = "done"]
  /\ wpc' = [wpc EXCEPT ![w] = NoConn]
  /\ werr' = [werr EXCEPT ![w] = TRUE]
  /\ UNCHANGED <<idleVars, limitVars, connVars, held, dial, loop, puts, lateClose, toClose>>

\* getConn's select sees the cancellation (it may, even if w is ready): the
\* deferred w.cancel gives back a conn that has been delivered.
getConnCanceled(w) ==
  /\ req[w] = "select"
  /\ req' = [req EXCEPT ![w] = "done"]
  /\ wpc' = [wpc EXCEPT ![w] = NoConn]
  /\ werr' = [werr EXCEPT ![w] = TRUE]
  /\ puts' = IF wpc[w] = NoConn THEN puts ELSE puts \cup {Put("req", w, wpc[w])}
  /\ UNCHANGED <<idleVars, limitVars, connVars, held, dial, loop, lateClose, toClose>>

\* pc.roundTrip finds that the request's canceler is gone: the conn goes back.
canceledBeforeRoundTrip(w) ==
  /\ req[w] = "using" /\ proto[held[w]] = "h1"
  /\ req' = [req EXCEPT ![w] = "done"]
  /\ puts' = puts \cup {Put("req", w, held[w])}
  /\ UNCHANGED <<idleVars, limitVars, wantVars, connVars, held, dial, loop, lateClose,
                 toClose>>

\* The response is complete.  An HTTP/1 readLoop then returns the conn to
\* the pool, or ends when the conn cannot be kept alive.
answered(w) ==
  LET c == held[w] IN
  /\ req[w] = "using" /\ conn[c] = "open"
  /\ req' = [req EXCEPT ![w] = "done"]
  /\ \/ /\ proto[c] = "h2"
        /\ UNCHANGED <<loop, puts>>
     \/ /\ proto[c] = "h1" /\ loop[c] = "run"
        /\ loop' = [loop EXCEPT ![c] = "put"]
        /\ puts' = puts \cup {Put("loop", c, c)}
     \/ /\ proto[c] = "h1" /\ loop[c] = "run"
        /\ loop' = [loop EXCEPT ![c] = "close"]
        /\ UNCHANGED puts
  /\ UNCHANGED <<idleVars, limitVars, wantVars, connVars, held, dial, lateClose, toClose>>

\* The request fails with its conn, or aborts (cancellation, timeout, write
\* error) and closes an HTTP/1 conn.
roundTripFailed(w) ==
  LET c == held[w] IN
  /\ req[w] = "using"
  /\ req' = [req EXCEPT ![w] = "done"]
  /\ \/ proto[c] = "h1" /\ closeLocked(c, Waiters)
     \/ proto[c] = "h2" /\ UNCHANGED <<connVars, dial, limitVars>>
  /\ UNCHANGED <<idleVars, wantVars, held, loop, puts, lateClose, toClose>>

\* roundTrip gets ErrNoCachedConn from the HTTP/2 transport: it removes the
\* conn from the pool and, if it was there, gives up its count.
noCachedConn(w) ==
  LET c == held[w] IN
  /\ req[w] = "using" /\ proto[c] = "h2"
  /\ removeIdleConnLocked(c, idleConn, idleLRU)
  /\ req' = [req EXCEPT ![w] = IF c \in ToSet(idleConn[key[c]]) THEN "dec" ELSE "done"]
  /\ UNCHANGED <<idleConnWait, closeIdle, limitVars, wantVars, connVars, held, dial, loop,
                 puts, lateClose, toClose>>

noCachedConnDec(w) ==
  /\ req[w] = "dec"
  /\ req' = [req EXCEPT ![w] = "done"]
  /\ decConnsPerHost(key[held[w]], dial, Waiters)
  /\ UNCHANGED <<idleVars, wantVars, connVars, held, loop, puts, lateClose, toClose>>

----------------------------------------------------------------------------
(* dialConnFor                                                             *)

dialBegins(w) ==
  /\ dial[w] = "go" /\ Waiting(w)
  /\ dial' = [dial EXCEPT ![w] = "dialing"]
  /\ UNCHANGED <<idleVars, limitVars, wantVars, connVars, req, held, loop, puts, lateClose,
                 toClose>>

\* dialConn succeeds; the conn is for w if w still waits, and for the pool
\* if it does not or if the conn can be shared.
dialSucceeds(w) ==
  /\ dial[w] = "dialing"
  /\ dial' = [dial EXCEPT ![w] = "done"]
  /\ conn' = [conn EXCEPT ![w] = "open"]
  /\ wpc' = IF Waiting(w) THEN [wpc EXCEPT ![w] = w] ELSE wpc
  /\ \E p \in Protos :
        /\ proto' = [proto EXCEPT ![w] = p]
        /\ loop' = IF p = "h1" THEN [loop EXCEPT ![w] = "run"] ELSE loop
        /\ puts' = IF p = "h2" \/ ~Waiting(w) THEN puts \cup {Put("dial", w, w)} ELSE puts
  /\ UNCHANGED <<idleVars, limitVars, werr, reused, req, held, lateClose, toClose>>

\* Mutant: the count of a failed dial is kept.
dialFailsSilently(w) ==
  /\ dial[w] = "dialing"
  /\ dial' = [dial EXCEPT ![w] = "done"]
  /\ werr' = IF Waiting(w) THEN [werr EXCEPT ![w] = TRUE] ELSE werr
  /\ UNCHANGED <<idleVars, limitVars, wpc, connVars, req, held, loop, puts, lateClose,
                 toClose>>

dialFails(w) ==
  /\ dial[w] = "dialing"
  /\ dial' = [dial EXCEPT ![w] = "dec"]
  /\ werr' = IF Waiting(w) THEN [werr EXCEPT ![w] = TRUE] ELSE werr
  /\ UNCHANGED <<idleVars, limitVars, wpc, connVars, req, held, loop, puts, lateClose,
                 toClose>>

\* The count is given back when w was answered before its dial began, and
\* after a dial that failed.
dialGivesUp(w) ==
  /\ (dial[w] = "go" /\ ~Waiting(w)) \/ dial[w] = "dec"
  /\ decConnsPerHost(key[w], [dial EXCEPT ![w] = "done"], Waiters)
  /\ UNCHANGED <<idleVars, wantVars, connVars, req, held, loop, puts, lateClose, toClose>>

----------------------------------------------------------------------------
(* The end of a readLoop (the rest of it is module PersistConn)            *)

\* readLoop ends, because the peer closed the conn, because someone else did
\* or because the conn cannot be kept alive: the deferred pc.close.
readLoopCloses(c) ==
  /\ loop[c] \in {"run", "close"}
  /\ loop' = [loop EXCEPT ![c] = "remove"]
  /\ closeLocked(c, Waiters)
  /\ UNCHANGED <<idleVars, wantVars, req, held, puts, lateClose, toClose>>

\* The deferred removeIdleConn.
readLoopExits(c) ==
  /\ loop[c] = "remove"
  /\ loop' = [loop EXCEPT ![c] = "exited"]
  /\ removeIdleConnLocked(c, idleConn, idleLRU)
  /\ UNCHANGED <<idleConnWait, closeIdle, limitVars, wantVars, connVars, req, held, dial,
                 puts, lateClose, toClose>>

----------------------------------------------------------------------------
Init ==
  /\ idleConn = [k \in Keys |-> <<>>]
  /\ idleConnWait = [k \in Keys |-> <<>>]
  /\ idleLRU = <<>>
  /\ closeIdle = FALSE
  /\ armed = {}
  /\ connsPerHost = [k \in Keys |-> 0]
  /\ connsPerHostWait = [k \in Keys |-> <<>>]
  /\ panicked = FALSE
  /\ wpc = [w \in Wants |-> NoConn]
  /\ werr = [w \in Wants |-> FALSE]
  /\ conn = [w \in Wants |-> "none"]
  /\ proto = [w \in Wants |-> "h1"]
  /\ reused = {}
  /\ req = [w \in Wants |-> "new"]
  /\ held = [w \in Wants |-> NoConn]
  /\ dial = [w \in Wants |-> "none"]
  /\ loop = [w \in Wants |-> "none"]
  /\ puts = {}
  /\ lateClose = {}
  /\ toClose = {}

Request(w) ==
  \/ queueForIdleConn(w) \/ queueForDial(w) \/ getConnReady(w)
  \/ answered(w) \/ roundTripFailed(w) \/ noCachedConn(w) \/ noCachedConnDec(w)

Cancel(w) == w \in Cancelable /\ (getConnCanceled(w) \/ canceledBeforeRoundTrip(w))

Dial(w) == dialBegins(w) \/ dialSucceeds(w) \/ dialFails(w) \/ dialGivesUp(w)

IdleClose(c) == closeConnIfStillIdle(c) \/ closeIdleConn(c)

PutStep(p) == tryPutCheck(p) \/ tryPutIdleConn(p) \/ putClose(p)

Next ==
  \/ \E w \in Wants :
        \/ Request(w) \/ Cancel(w) \/ Dial(w)
        \/ readLoopCloses(w) \/ readLoopExits(w) \/ timerFires(w) \/ IdleClose(w)
  \/ \E p \in puts : PutStep(p)
  \/ CloseIdleConnections

Spec == Init /\ [][Next]_vars

\* Goroutines run, dials end, requests are answered or fail.  Nothing has to
\* be canceled, to time out or to be closed by its peer.
Fairness ==
  /\ \A w \in Wants :
       /\ WF_vars(Request(w))
       /\ WF_vars(Dial(w))
       /\ WF_vars((loop[w] = "close" \/ conn[w] = "closed") /\ readLoopCloses(w))
       /\ WF_vars(readLoopExits(w))
       /\ WF_vars(IdleClose(w))
  /\ WF_vars(\E p \in puts : PutStep(p))

FairSpec == Spec /\ Fairness

----------------------------------------------------------------------------
(* Properties                                                              *)

\* Every variable stays in the set the code's types give it, and a request
\* that getConn has answered works with a conn, never with nil.
TypeOK ==
  /\ idleConn \in [Keys -> Seq(Wants)]
  /\ idleConnWait \in [Keys -> Seq(Wants)]
  /\ idleLRU \in Seq(Wants)
  /\ closeIdle \in BOOLEAN
  /\ armed \in SUBSET Wants
  /\ connsPerHost \in [Keys -> Nat]
  /\ connsPerHostWait \in [Keys -> Seq(Wants)]
  /\ panicked \in BOOLEAN
  /\ wpc \in [Wants -> Wants \cup {NoConn}]
  /\ werr \in [Wants -> BOOLEAN]
  /\ conn \in [Wants -> {"none", "open", "closed"}]
  /\ proto \in [Wants -> {"h1", "h2"}]
  /\ reused \in SUBSET Wants
  /\ req \in [Wants -> {"new", "dialq", "select", "using", "dec", "done"}]
  /\ held \in [Wants -> Wants \cup {NoConn}]
  /\ dial \in [Wants -> DialStates]
  /\ loop \in [Wants -> {"none", "run", "put", "close", "remove", "exited"}]
  /\ puts \in SUBSET Putting
  /\ lateClose \in SUBSET Wants
  /\ toClose \in SUBSET Wants
  /\ \A w \in Wants : req[w] \in {"using", "dec"} => held[w] # NoConn

Pooled(c) == c \in ToSet(idleConn[key[c]])

\* The requests that have been given c and are not through with it.
Users(c) == {w \in Wants : \/ req[w] = "using" /\ held[w] = c
                           \/ req[w] \in {"dialq", "select"} /\ wpc[w] = c}

PutsOf(c) == {p \in puts : p.conn = c}

\* An HTTP/1 connection has one owner at a time: it is given to at most one
\* request, and not while it is idle in the pool or on its way there
\* (tryPutIdleConn, queueForIdleConn, wantConn.tryDeliver and cancel race).
ExclusiveUse ==
  \A c \in Wants : proto[c] = "h1" =>
    /\ \A u, v \in Users(c) : u = v
    /\ \A p, q \in PutsOf(c) : p = q
    /\ Users(c) # {} => PutsOf(c) = {} /\ ~Pooled(c)
    /\ PutsOf(c) # {} => ~Pooled(c)

\* No open HTTP/1 connection is lost: someone uses it, puts it back, keeps it
\* in the pool or is about to close it (wantConn.cancel against tryDeliver, a
\* dial that ends late, a refused put).  With an idle timeout it may be lost:
\* see the README.
NoOrphan ==
  \A c \in Wants : conn[c] = "open" /\ proto[c] = "h1" =>
    Users(c) # {} \/ PutsOf(c) # {} \/ Pooled(c) \/ c \in toClose \cup lateClose \/ loop[c] = "close"

\* The idle lists and the LRU list agree, without duplicates (the code would
\* stop with "dup idle pconn" or "persistConn was already in LRU"), and
\* MaxIdleConns and MaxIdleConnsPerHost bound them.
PoolConsistent ==
  /\ \A k \in Keys :
       /\ ToSet(idleConn[k]) \subseteq ToSet(idleLRU)
       /\ IsInjective(idleConn[k])
       /\ idleConn[k] # <<>> => Len(idleConn[k]) <= maxIdleConnsPerHost
  /\ IsInjective(idleLRU)
  /\ MaxIdleConns # 0 => Len(idleLRU) <= MaxIdleConns

\* Every open connection is with its requests or in the pool, in one place.
ConnsAccounted == ExclusiveUse /\ NoOrphan /\ PoolConsistent

\* Timers and eviction, which take connections out of the pool behind the back
\* of the requests, keep its lists in step and its connections in one hand.
PoolExact == ExclusiveUse /\ PoolConsistent

\* No call waits for an idle connection while the pool has one for it.
NoWaiterPassedOver ==
  \A k \in Keys : WaitingIn(idleConnWait[k]) # {} => idleConn[k] = <<>>

\* No permission to dial is lost: a call waits for one only while all
\* MaxConnsPerHost of them are taken.
NoPermissionLost ==
  \A k \in Keys : WaitingIn(connsPerHostWait[k]) # {} => connsPerHost[k] >= MaxConnsPerHost

\* connsPerHost counts the connections of a host that are being dialed or
\* open, and there are never more of them than MaxConnsPerHost.
Counted(k) == {w \in Wants : key[w] = k /\ dial[w] \in {"go", "dialing", "dec"}}
OpenConns(k) == {c \in Wants : key[c] = k /\ conn[c] = "open"}

ConnsPerHostExact ==
  MaxConnsPerHost > 0 => \A k \in Keys :
    /\ connsPerHost[k] = Cardinality(Counted(k)) + Cardinality(OpenConns(k))
    /\ connsPerHost[k] <= MaxConnsPerHost

\* decConnsPerHost never finds a zero count ("Shouldn't happen, but if it
\* does, the counting is buggy").
NoUnderflow == ~panicked

\* The count that MaxConnsPerHost limits is right, through dials that fail,
\* evictions and idle timeouts, and never given up twice.
ConnsCounted == ConnsPerHostExact /\ NoUnderflow

\* Idle timeout, eviction and CloseIdleConnections never close a connection
\* that a request has: only the request itself or the conn's readLoop does.
NotInterrupted ==
  [][\A c \in Wants :
       proto[c] = "h1" /\ Users(c) # {} /\ conn[c] = "open" /\ conn'[c] = "closed"
         => loop'[c] = "remove" \/ \E w \in Users(c) : req'[w] = "done"]_vars

\* A call of getConn that waits gets an answer, if requests and dials end.
Answered == \A w \in Wants : req[w] = "select" ~> req[w] # "select"
=============================================================================
