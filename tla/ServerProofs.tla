---------------------------- MODULE ServerProofs ----------------------------
(***************************************************************************)
(* Proofs about module Server, for any number of connections and calls of  *)
(* Serve.  The inductive invariant says who may own a connection at each   *)
(* point of its life, and what Shutdown knows when it is about to return.  *)
(***************************************************************************)
EXTENDS Server, FiniteSetTheorems, TLAPS

\* A listener is registered from trackListener(&l, true) to (&l, false).
Registered ==
  \A l \in Listeners :
    l \in listeners <=> serve[l].at \in {"accept", "track", "store", "untrack"}

\* The conn that Serve has accepted is that Serve's alone, until conn.serve starts.
Accepted ==
  /\ \A l \in Listeners : serve[l].at \in {"track", "store"} =>
       /\ serve[l].conn \in Conns /\ at[serve[l].conn] = "accepted"
       /\ \A k \in Listeners :
            serve[k].at \in {"track", "store"} /\ serve[k].conn = serve[l].conn => k = l
  /\ \A c \in Conns : at[c] = "accepted" =>
       \E l \in Listeners : serve[l].at \in {"track", "store"} /\ serve[l].conn = c

\* Which conns the server tracks, besides OpenIsTracked.
Tracked ==
  /\ OpenIsTracked
  /\ \A l \in Listeners : serve[l].at = "store" =>
       serve[l].conn \in activeConn \/ rwc[serve[l].conn] # "open"
  /\ \A c \in Conns : /\ at[c] = "none" => rwc[c] # "open"
                      /\ at[c] \in {"closed", "done"} => rwc[c] # "open"
                      /\ at[c] = "hijacked" => c \notin activeConn

\* The state a conn publishes at each position of its goroutine.
StateFits ==
  \A c \in Conns :
    /\ at[c] \in {"none", "accepted"} => curState[c] = "unset"
    /\ at[c] = "read" => curState[c] \in {"new", "idle"}
    /\ at[c] \in {"handler", "http2", "hijack"} => curState[c] = "active"
    /\ at[c] = "idle" => curState[c] = "idle"
    /\ at[c] = "hijacked" => curState[c] = "hijacked"
    /\ at[c] \in {"close", "closed"} => curState[c] \in {"new", "active", "idle"}
    /\ at[c] = "done" => curState[c] = "closed"

\* Only closeIdleConns holds mu for long, and what it has still to do is tracked.
MuHeld ==
  /\ closer["Close"].at # "loop"
  /\ \A p \in AllClosers :
       /\ closer[p].at = "loop" => mu = p /\ closer[p].todo \subseteq activeConn
       /\ closer[p].victim # NoConn =>
            /\ closer[p].at = "loop"
            /\ closer[p].victim \in activeConn /\ closer[p].victim \notin closer[p].todo

\* What Shutdown and Close have brought about when they are past each point.
Stopped ==
  \A p \in {"Shutdown", "Close"} :
    /\ closer[p].at # "call" => inShutdown
    /\ closer[p].at \in {"lock", "loop", "poll", "done", "expired"} => listeners = {}
    /\ closer[p].at = "done" => activeConn = {}

\* While closeIdleConns believes the server quiescent, it has seen or has
\* still to see every conn that is left.
Swept ==
  closer["Shutdown"].at = "loop" /\ closer["Shutdown"].quiescent =>
    activeConn \subseteq closer["Shutdown"].todo \cup {closer["Shutdown"].victim}

IInv ==
  /\ TypeOK /\ Registered /\ Accepted /\ Tracked /\ StateFits /\ MuHeld /\ Stopped /\ Swept

----------------------------------------------------------------------------
\* Moving Shutdown, Close or SetKeepAlivesEnabled on keeps their type.
LEMMA CloserMoves ==
  ASSUME NEW f \in [AllClosers -> CloserRecs], NEW p \in AllClosers, NEW pos \in CloserPositions
  PROVE  [f EXCEPT ![p].at = pos] \in [AllClosers -> CloserRecs]
BY DEF CloserRecs

\* So does what closeIdleConns notes about a conn it has looked at.
LEMMA CloserVisits ==
  ASSUME NEW f \in [AllClosers -> CloserRecs], NEW p \in AllClosers, NEW c \in Conns
  PROVE  /\ [f EXCEPT ![p].todo = @ \ {c}, ![p].victim = c] \in [AllClosers -> CloserRecs]
         /\ [f EXCEPT ![p].todo = @ \ {c}, ![p].quiescent = FALSE] \in [AllClosers -> CloserRecs]
BY DEF CloserRecs

\* The shape of the state is kept; a listener is counted when it is registered
\* and not before, so listenerGroup stays the number of listeners.
LEMMA TypeStep == TypeOK /\ Registered /\ Accepted /\ [Next]_vars => TypeOK'
<1>0. SUFFICES ASSUME TypeOK, Registered, Accepted, [Next]_vars PROVE TypeOK'
  OBVIOUS
<1>a. closer \in [AllClosers -> CloserRecs] /\ Closers \subseteq AllClosers /\ activeConn \subseteq Conns
  BY <1>0, ServerAssumption DEF TypeOK
<1>1. ASSUME NEW l \in Listeners, trackListener(l) PROVE TypeOK'
  <2>1. CASE inShutdown
    BY <1>0, <1>a, <1>1, <2>1 DEF TypeOK, States, trackListener, flagVars, listenerVars, connVars
  <2>2. CASE ~inShutdown
    <3>1. l \notin listeners
      BY <1>0, <1>a, <1>1 DEF TypeOK, Registered, trackListener
    <3>2. IsFiniteSet(listeners') /\ Cardinality(listeners') = Cardinality(listeners) + 1
      BY <1>0, <1>a, <1>1, <2>2, <3>1, FS_AddElement DEF TypeOK, trackListener
    <3>3. QED BY <1>0, <1>a, <1>1, <2>2, <3>2
        DEF TypeOK, States, trackListener, flagVars, listenerVars, connVars
  <2>3. QED BY <2>1, <2>2
<1>2. ASSUME NEW l \in Listeners, NEW c \in Conns, Accept(l, c) PROVE TypeOK'
  BY <1>0, <1>a, <1>2 DEF TypeOK, States, Accept, flagVars, listenerVars, connVars
<1>3. ASSUME NEW l \in Listeners, trackConn(l) PROVE TypeOK'
  BY <1>0, <1>a, <1>3 DEF Accepted, TypeOK, States, trackConn, flagVars, listenerVars, connVars
<1>4. ASSUME NEW l \in Listeners, setStateNew(l) PROVE TypeOK'
  BY <1>0, <1>a, <1>4 DEF TypeOK, States, setStateNew, flagVars, listenerVars, connVars
<1>5. ASSUME NEW l \in Listeners, AcceptFails(l) PROVE TypeOK'
  BY <1>0, <1>a, <1>5 DEF TypeOK, States, AcceptFails, flagVars, listenerVars, connVars
<1>6. ASSUME NEW l \in Listeners, untrackListener(l) PROVE TypeOK'
  <2>1. l \in listeners
    BY <1>0, <1>a, <1>6 DEF TypeOK, Registered, untrackListener
  <2>2. IsFiniteSet(listeners') /\ Cardinality(listeners') = Cardinality(listeners) - 1
    BY <1>0, <1>a, <1>6, <2>1, FS_RemoveElement DEF TypeOK, untrackListener
  <2>3. QED BY <1>0, <1>a, <1>6, <2>2
      DEF TypeOK, States, untrackListener, flagVars, listenerVars, connVars
<1>7. ASSUME NEW l \in Listeners, closeListener(l) PROVE TypeOK'
  BY <1>0, <1>a, <1>7 DEF TypeOK, States, closeListener, flagVars, listenerVars, connVars
<1>8. ASSUME NEW c \in Conns, readRequest(c) PROVE TypeOK'
  BY <1>0, <1>a, <1>8
  DEF TypeOK, States, readRequest, Goes, Unhooked, flagVars, listenerVars, connVars
<1>9. ASSUME NEW c \in Conns, serveHTTP2(c) PROVE TypeOK'
  BY <1>0, <1>a, <1>9
  DEF TypeOK, States, serveHTTP2, Goes, Unhooked, flagVars, listenerVars, connVars
<1>10. ASSUME NEW c \in Conns, http2Ends(c) PROVE TypeOK'
  BY <1>0, <1>a, <1>10
  DEF TypeOK, States, http2Ends, Goes, Unhooked, flagVars, listenerVars, connVars
<1>11. ASSUME NEW c \in Conns, handlerEnds(c) PROVE TypeOK'
  BY <1>0, <1>a, <1>11
  DEF TypeOK, States, handlerEnds, Goes, Unhooked, flagVars, listenerVars, connVars
<1>12. ASSUME NEW c \in Conns, keepAlive(c) PROVE TypeOK'
  BY <1>0, <1>a, <1>12
  DEF TypeOK, States, keepAlive, Goes, Unhooked, doKeepAlives, flagVars, listenerVars, connVars
<1>13. ASSUME NEW c \in Conns, setStateHijacked(c) PROVE TypeOK'
  BY <1>0, <1>a, <1>13
  DEF TypeOK, States, setStateHijacked, Goes, flagVars, listenerVars, connVars
<1>14. ASSUME NEW c \in Conns, setStateClosed(c) PROVE TypeOK'
  BY <1>0, <1>a, <1>14 DEF TypeOK, States, setStateClosed, Goes, flagVars, listenerVars, connVars
<1>15. ASSUME NEW c \in Conns, connClose(c) PROVE TypeOK'
  BY <1>0, <1>a, <1>15
  DEF TypeOK, States, connClose, Goes, closed, flagVars, listenerVars, connVars
<1>16. ASSUME NEW c \in Conns, growsOld(c) PROVE TypeOK'
  BY <1>0, <1>a, <1>16 DEF TypeOK, States, growsOld, flagVars, listenerVars, connVars
<1>17. ASSUME NEW p \in Closers, closerCalled(p) PROVE TypeOK'
  <2>1. \/ closer' = [closer EXCEPT ![p].at = "listeners"]
        \/ closer' = [closer EXCEPT ![p].at = "lock"]
    BY <1>17 DEF closerCalled, Closer
  <2>2. closer' \in [AllClosers -> CloserRecs]
    <3>1. p \in AllClosers
      BY <1>a
    <3>2. CASE closer' = [closer EXCEPT ![p].at = "listeners"]
      BY <1>a, <3>1, <3>2, CloserMoves DEF CloserPositions
    <3>3. CASE closer' = [closer EXCEPT ![p].at = "lock"]
      BY <1>a, <3>1, <3>3, CloserMoves DEF CloserPositions
    <3>4. QED BY <2>1, <3>2, <3>3
  <2>3. QED BY <1>0, <1>a, <1>17, <2>2
      DEF TypeOK, States, closerCalled, Closer, flagVars, listenerVars, connVars, AllClosers
<1>18. ASSUME enableKeepAlives PROVE TypeOK'
  BY <1>0, <1>a, <1>18 DEF TypeOK, States, enableKeepAlives, flagVars, listenerVars, connVars
<1>19. ASSUME NEW p \in Closers, closeListenersLocked(p) PROVE TypeOK'
  <2>1. closer' \in [AllClosers -> CloserRecs]
    BY <1>a, <1>19, CloserMoves DEF closeListenersLocked, CloserPositions, Closer, AllClosers
  <2>2. QED BY <1>0, <1>a, <1>19, <2>1
      DEF TypeOK, States, closeListenersLocked, Closer, flagVars, listenerVars, connVars
<1>20. ASSUME NEW p \in Closers, listenerGroupWait(p) PROVE TypeOK'
  <2>1. closer' \in [AllClosers -> CloserRecs]
    BY <1>a, <1>20, CloserMoves DEF listenerGroupWait, CloserPositions, Closer, AllClosers
  <2>2. QED BY <1>0, <1>a, <1>20, <2>1
      DEF TypeOK, States, listenerGroupWait, Closer, flagVars, listenerVars, connVars
<1>21. ASSUME closeAll PROVE TypeOK'
  <2>1. closer' \in [AllClosers -> CloserRecs]
    BY <1>a, <1>21, CloserMoves DEF closeAll, CloserPositions, Closer, AllClosers
  <2>2. QED BY <1>0, <1>a, <1>21, <2>1
      DEF TypeOK, States, closeAll, Closer, closed, flagVars, listenerVars, connVars, AllClosers
<1>22. ASSUME NEW p \in Closers, closeIdleConns(p) PROVE TypeOK'
  <2>1. closer' \in [AllClosers -> CloserRecs]
    BY <1>a, <1>22 DEF closeIdleConns, CloserRecs, CloserPositions
  <2>2. QED BY <1>0, <1>a, <1>22, <2>1
      DEF TypeOK, States, closeIdleConns, flagVars, listenerVars, connVars
<1>23. ASSUME NEW p \in Closers, NEW c \in Conns, visitConn(p, c) PROVE TypeOK'
  <2>1. \/ closer' = [closer EXCEPT ![p].todo = @ \ {c}, ![p].victim = c]
        \/ closer' = [closer EXCEPT ![p].todo = @ \ {c}, ![p].quiescent = FALSE]
    BY <1>23 DEF visitConn
  <2>2. closer' \in [AllClosers -> CloserRecs]
    <3>1. p \in AllClosers
      BY <1>a
    <3>2. CASE closer' = [closer EXCEPT ![p].todo = @ \ {c}, ![p].victim = c]
      BY <1>a, <3>1, <3>2, CloserVisits DEF CloserPositions
    <3>3. CASE closer' = [closer EXCEPT ![p].todo = @ \ {c}, ![p].quiescent = FALSE]
      BY <1>a, <3>1, <3>3, CloserVisits DEF CloserPositions
    <3>4. QED BY <2>1, <3>2, <3>3
  <2>3. QED BY <1>0, <1>a, <1>23, <2>2
      DEF TypeOK, States, visitConn, flagVars, listenerVars, connVars
<1>24. ASSUME NEW p \in Closers, closeIdleConn(p) PROVE TypeOK'
  <2>1. closer' \in [AllClosers -> CloserRecs]
    BY <1>a, <1>24 DEF closeIdleConn, CloserRecs
  <2>2. QED BY <1>0, <1>a, <1>24, <2>1
      DEF TypeOK, States, closeIdleConn, closed, flagVars, listenerVars, connVars, AllClosers
<1>25. ASSUME NEW p \in Closers, closeIdleConnsReturns(p) PROVE TypeOK'
  <2>1. closer' \in [AllClosers -> CloserRecs]
    BY <1>a, <1>25 DEF closeIdleConnsReturns, CloserRecs
  <2>2. QED BY <1>0, <1>a, <1>25, <2>1
      DEF TypeOK, States, closeIdleConnsReturns, flagVars, listenerVars, connVars
<1>26. ASSUME pollAgain PROVE TypeOK'
  <2>1. closer' \in [AllClosers -> CloserRecs]
    BY <1>a, <1>26, CloserMoves DEF pollAgain, CloserPositions, Closer, AllClosers
  <2>2. QED BY <1>0, <1>a, <1>26, <2>1
      DEF TypeOK, States, pollAgain, Closer, flagVars, listenerVars, connVars, AllClosers
<1>27. ASSUME shutdownExpires PROVE TypeOK'
  <2>1. closer' \in [AllClosers -> CloserRecs]
    BY <1>a, <1>27, CloserMoves DEF shutdownExpires, CloserPositions, Closer, AllClosers
  <2>2. QED BY <1>0, <1>a, <1>27, <2>1
      DEF TypeOK, States, shutdownExpires, Closer, flagVars, listenerVars, connVars, AllClosers
<1>28. CASE UNCHANGED vars
  BY <1>0, <1>28 DEF TypeOK, vars, flagVars, listenerVars, connVars
<1>29. QED
  <2>1. ASSUME NEW l \in Listeners,
               ServeLocks(l) \/ setStateNew(l) \/ AcceptFails(l) \/ closeListener(l)
        PROVE  TypeOK'
    BY <2>1, <1>1, <1>3, <1>6, <1>4, <1>5, <1>7 DEF TypeOK, States, ServeLocks
  <2>2. ASSUME NEW l \in Listeners, NEW c \in Conns, Accept(l, c) PROVE TypeOK'
    BY <2>2, <1>2
  <2>3. ASSUME NEW c \in Conns,
               ConnRuns(c) \/ ConnLocks(c) \/ ConnReads(c) \/ http2Ends(c) \/ growsOld(c)
        PROVE  TypeOK'
    BY <2>3, <1>11, <1>12, <1>15, <1>13, <1>14, <1>8, <1>9, <1>10, <1>16
    DEF TypeOK, States, ConnRuns, ConnLocks, ConnReads
  <2>4. ASSUME NEW p \in Closers, closerCalled(p) \/ CloserLocks(p) \/ CloserRuns(p) PROVE TypeOK'
    BY <2>4, <1>17, <1>19, <1>22, <1>21, <1>20, <1>24, <1>25, <1>23, <1>26
    DEF TypeOK, States, CloserLocks, CloserRuns
  <2>5. CASE enableKeepAlives \/ shutdownExpires
    BY <2>5, <1>18, <1>27
  <2>6. QED BY <1>0, <1>28, <2>1, <2>2, <2>3, <2>4, <2>5 DEF Next

\* A listener is registered exactly while its Serve needs it.
LEMMA RegisteredStep == TypeOK /\ Registered /\ [Next]_vars => Registered'
<1>0. SUFFICES ASSUME TypeOK, Registered, [Next]_vars PROVE Registered'
  OBVIOUS
<1>1. ASSUME NEW l \in Listeners, trackListener(l) PROVE Registered'
  BY <1>0, <1>1 DEF TypeOK, Registered, trackListener, listenerVars
<1>2. ASSUME NEW l \in Listeners, NEW c \in Conns, Accept(l, c) PROVE Registered'
  BY <1>0, <1>2 DEF TypeOK, Registered, Accept, listenerVars
<1>3. ASSUME NEW l \in Listeners, trackConn(l) PROVE Registered'
  BY <1>0, <1>3 DEF TypeOK, Registered, trackConn, listenerVars
<1>4. ASSUME NEW l \in Listeners, setStateNew(l) PROVE Registered'
  BY <1>0, <1>4 DEF TypeOK, Registered, setStateNew, listenerVars
<1>5. ASSUME NEW l \in Listeners, AcceptFails(l) PROVE Registered'
  BY <1>0, <1>5 DEF TypeOK, Registered, AcceptFails, listenerVars
<1>6. ASSUME NEW l \in Listeners, untrackListener(l) PROVE Registered'
  BY <1>0, <1>6 DEF TypeOK, Registered, untrackListener, listenerVars
<1>7. ASSUME NEW l \in Listeners, closeListener(l) PROVE Registered'
  BY <1>0, <1>7 DEF TypeOK, Registered, closeListener, listenerVars
<1>8. CASE UNCHANGED <<listeners, serve>>
  BY <1>0, <1>8 DEF TypeOK, Registered
<1>9. CASE UNCHANGED vars
  BY <1>8, <1>9 DEF vars, listenerVars
<1>10. QED
  <2>1. ASSUME NEW l \in Listeners,
               ServeLocks(l) \/ setStateNew(l) \/ AcceptFails(l) \/ closeListener(l)
        PROVE  Registered'
    BY <2>1, <1>1, <1>3, <1>6, <1>4, <1>5, <1>7 DEF ServeLocks
  <2>2. ASSUME NEW l \in Listeners, NEW c \in Conns, Accept(l, c) PROVE Registered'
    BY <2>2, <1>2
  <2>3. ASSUME NEW c \in Conns,
               ConnRuns(c) \/ ConnLocks(c) \/ ConnReads(c) \/ http2Ends(c) \/ growsOld(c)
        PROVE  Registered'
    BY <2>3, <1>8
    DEF ConnRuns, ConnLocks, ConnReads, handlerEnds, keepAlive, connClose, setStateHijacked,
        setStateClosed, readRequest, serveHTTP2, http2Ends, growsOld, Goes, Unhooked, listenerVars
  <2>4. ASSUME NEW p \in Closers, closerCalled(p) \/ CloserLocks(p) \/ CloserRuns(p) PROVE Registered'
    BY <2>4, <1>8
    DEF CloserLocks, CloserRuns, closerCalled, closeListenersLocked, closeIdleConns, closeAll,
        listenerGroupWait, closeIdleConn, closeIdleConnsReturns, visitConn, pollAgain, Closer,
        listenerVars
  <2>5. CASE enableKeepAlives \/ shutdownExpires
    BY <2>5, <1>8 DEF enableKeepAlives, shutdownExpires, Closer, listenerVars
  <2>6. QED BY <1>0, <1>9, <2>1, <2>2, <2>3, <2>4, <2>5 DEF Next

\* Accept gives a conn to one Serve, which gives it to the conn's own goroutine.
LEMMA AcceptedStep == TypeOK /\ Accepted /\ [Next]_vars => Accepted'
<1>0. SUFFICES ASSUME TypeOK, Accepted, [Next]_vars PROVE Accepted'
  OBVIOUS
<1>1. ASSUME NEW l \in Listeners, trackListener(l) PROVE Accepted'
  <2>1. \A k \in Listeners :
          /\ serve'[k].conn = serve[k].conn
          /\ serve'[k].at \in {"track", "store"} <=> serve[k].at \in {"track", "store"}
    BY <1>0, <1>1 DEF TypeOK, trackListener
  <2>2. at' = at
    BY <1>1 DEF trackListener, connVars
  <2>3. QED BY <1>0, <2>1, <2>2 DEF Accepted
<1>2. ASSUME NEW l \in Listeners, NEW c \in Conns, Accept(l, c) PROVE Accepted'
  BY <1>0, <1>2 DEF TypeOK, Accepted, Accept, connVars
<1>3. ASSUME NEW l \in Listeners, trackConn(l) PROVE Accepted'
  <2>1. \A k \in Listeners :
          /\ serve'[k].conn = serve[k].conn
          /\ serve'[k].at \in {"track", "store"} <=> serve[k].at \in {"track", "store"}
    BY <1>0, <1>3 DEF TypeOK, trackConn
  <2>2. at' = at
    BY <1>3 DEF trackConn, connVars
  <2>3. QED BY <1>0, <2>1, <2>2 DEF Accepted
<1>4. ASSUME NEW l \in Listeners, setStateNew(l) PROVE Accepted'
  BY <1>0, <1>4 DEF TypeOK, Accepted, setStateNew, connVars
<1>5. ASSUME NEW l \in Listeners, AcceptFails(l) PROVE Accepted'
  <2>1. \A k \in Listeners :
          /\ serve'[k].conn = serve[k].conn
          /\ serve'[k].at \in {"track", "store"} <=> serve[k].at \in {"track", "store"}
    BY <1>0, <1>5 DEF TypeOK, AcceptFails
  <2>2. at' = at
    BY <1>5 DEF AcceptFails, connVars
  <2>3. QED BY <1>0, <2>1, <2>2 DEF Accepted
<1>6. ASSUME NEW l \in Listeners, untrackListener(l) PROVE Accepted'
  <2>1. \A k \in Listeners :
          /\ serve'[k].conn = serve[k].conn
          /\ serve'[k].at \in {"track", "store"} <=> serve[k].at \in {"track", "store"}
    BY <1>0, <1>6 DEF TypeOK, untrackListener
  <2>2. at' = at
    BY <1>6 DEF untrackListener, connVars
  <2>3. QED BY <1>0, <2>1, <2>2 DEF Accepted
<1>7. ASSUME NEW l \in Listeners, closeListener(l) PROVE Accepted'
  <2>1. \A k \in Listeners :
          /\ serve'[k].conn = serve[k].conn
          /\ serve'[k].at \in {"track", "store"} <=> serve[k].at \in {"track", "store"}
    BY <1>0, <1>7 DEF TypeOK, closeListener
  <2>2. at' = at
    BY <1>7 DEF closeListener, connVars
  <2>3. QED BY <1>0, <2>1, <2>2 DEF Accepted
<1>8. ASSUME NEW c \in Conns, readRequest(c) PROVE Accepted'
  BY <1>0, <1>8 DEF TypeOK, Accepted, readRequest, Goes, Unhooked, connVars
<1>9. ASSUME NEW c \in Conns, serveHTTP2(c) PROVE Accepted'
  BY <1>0, <1>9 DEF TypeOK, Accepted, serveHTTP2, Goes, Unhooked, connVars
<1>10. ASSUME NEW c \in Conns, http2Ends(c) PROVE Accepted'
  BY <1>0, <1>10 DEF TypeOK, Accepted, http2Ends, Goes, Unhooked, connVars
<1>11. ASSUME NEW c \in Conns, handlerEnds(c) PROVE Accepted'
  BY <1>0, <1>11 DEF TypeOK, Accepted, handlerEnds, Goes, Unhooked, connVars
<1>12. ASSUME NEW c \in Conns, keepAlive(c) PROVE Accepted'
  BY <1>0, <1>12 DEF TypeOK, Accepted, keepAlive, Goes, Unhooked, doKeepAlives, connVars
<1>13. ASSUME NEW c \in Conns, setStateHijacked(c) PROVE Accepted'
  BY <1>0, <1>13 DEF TypeOK, Accepted, setStateHijacked, Goes, connVars
<1>14. ASSUME NEW c \in Conns, setStateClosed(c) PROVE Accepted'
  BY <1>0, <1>14 DEF TypeOK, Accepted, setStateClosed, Goes, connVars
<1>15. ASSUME NEW c \in Conns, connClose(c) PROVE Accepted'
  BY <1>0, <1>15 DEF TypeOK, Accepted, connClose, Goes, closed, connVars
<1>16. CASE UNCHANGED <<serve, at>>
  BY <1>0, <1>16 DEF TypeOK, Accepted
<1>17. CASE UNCHANGED vars
  BY <1>16, <1>17 DEF vars, connVars
<1>18. QED
  <2>1. ASSUME NEW l \in Listeners,
               ServeLocks(l) \/ setStateNew(l) \/ AcceptFails(l) \/ closeListener(l)
        PROVE  Accepted'
    BY <2>1, <1>1, <1>3, <1>6, <1>4, <1>5, <1>7 DEF ServeLocks
  <2>2. ASSUME NEW l \in Listeners, NEW c \in Conns, Accept(l, c) PROVE Accepted'
    BY <2>2, <1>2
  <2>3. ASSUME NEW c \in Conns,
               ConnRuns(c) \/ ConnLocks(c) \/ ConnReads(c) \/ http2Ends(c) \/ growsOld(c)
        PROVE  Accepted'
    BY <2>3, <1>11, <1>12, <1>15, <1>13, <1>14, <1>8, <1>9, <1>10, <1>16
    DEF ConnRuns, ConnLocks, ConnReads, growsOld, connVars
  <2>4. ASSUME NEW p \in Closers, closerCalled(p) \/ CloserLocks(p) \/ CloserRuns(p) PROVE Accepted'
    BY <2>4, <1>16
    DEF CloserLocks, CloserRuns, closerCalled, closeListenersLocked, closeIdleConns, closeAll,
        listenerGroupWait, closeIdleConn, closeIdleConnsReturns, visitConn, pollAgain, Closer,
        connVars
  <2>5. CASE enableKeepAlives \/ shutdownExpires
    BY <2>5, <1>16 DEF enableKeepAlives, shutdownExpires, Closer, connVars
  <2>6. QED BY <1>0, <1>17, <2>1, <2>2, <2>3, <2>4, <2>5 DEF Next

\* A conn's state changes with the position of its goroutine only.
LEMMA StateFitsStep == TypeOK /\ Accepted /\ StateFits /\ [Next]_vars => StateFits'
<1>0. SUFFICES ASSUME TypeOK, Accepted, StateFits, [Next]_vars PROVE StateFits'
  OBVIOUS
<1>1. ASSUME NEW l \in Listeners, NEW c \in Conns, Accept(l, c) PROVE StateFits'
  BY <1>0, <1>1 DEF TypeOK, StateFits, Accept, connVars
<1>2. ASSUME NEW l \in Listeners, setStateNew(l) PROVE StateFits'
  BY <1>0, <1>2 DEF TypeOK, StateFits, setStateNew, connVars, Accepted
<1>3. ASSUME NEW c \in Conns, readRequest(c) PROVE StateFits'
  BY <1>0, <1>3 DEF TypeOK, StateFits, readRequest, Goes, Unhooked, connVars
<1>4. ASSUME NEW c \in Conns, serveHTTP2(c) PROVE StateFits'
  BY <1>0, <1>4 DEF TypeOK, StateFits, serveHTTP2, Goes, Unhooked, connVars
<1>5. ASSUME NEW c \in Conns, http2Ends(c) PROVE StateFits'
  BY <1>0, <1>5 DEF TypeOK, StateFits, http2Ends, Goes, Unhooked, connVars
<1>6. ASSUME NEW c \in Conns, handlerEnds(c) PROVE StateFits'
  BY <1>0, <1>6 DEF TypeOK, StateFits, handlerEnds, Goes, Unhooked, connVars
<1>7. ASSUME NEW c \in Conns, keepAlive(c) PROVE StateFits'
  BY <1>0, <1>7 DEF TypeOK, StateFits, keepAlive, Goes, Unhooked, doKeepAlives, connVars
<1>8. ASSUME NEW c \in Conns, setStateHijacked(c) PROVE StateFits'
  BY <1>0, <1>8 DEF TypeOK, StateFits, setStateHijacked, Goes, connVars
<1>9. ASSUME NEW c \in Conns, setStateClosed(c) PROVE StateFits'
  BY <1>0, <1>9 DEF TypeOK, StateFits, setStateClosed, Goes, connVars
<1>10. ASSUME NEW c \in Conns, connClose(c) PROVE StateFits'
  BY <1>0, <1>10 DEF TypeOK, StateFits, connClose, Goes, closed, connVars
<1>11. CASE UNCHANGED <<at, curState>>
  BY <1>0, <1>11 DEF TypeOK, StateFits
<1>12. CASE UNCHANGED vars
  BY <1>11, <1>12 DEF vars, connVars
<1>13. QED
  <2>1. ASSUME NEW l \in Listeners,
               ServeLocks(l) \/ setStateNew(l) \/ AcceptFails(l) \/ closeListener(l)
        PROVE  StateFits'
    BY <2>1, <1>2, <1>11
    DEF ServeLocks, trackListener, trackConn, untrackListener, AcceptFails, closeListener,
        connVars
  <2>2. ASSUME NEW l \in Listeners, NEW c \in Conns, Accept(l, c) PROVE StateFits'
    BY <2>2, <1>1
  <2>3. ASSUME NEW c \in Conns,
               ConnRuns(c) \/ ConnLocks(c) \/ ConnReads(c) \/ http2Ends(c) \/ growsOld(c)
        PROVE  StateFits'
    BY <2>3, <1>6, <1>7, <1>10, <1>8, <1>9, <1>3, <1>4, <1>5, <1>11
    DEF ConnRuns, ConnLocks, ConnReads, growsOld, connVars
  <2>4. ASSUME NEW p \in Closers, closerCalled(p) \/ CloserLocks(p) \/ CloserRuns(p) PROVE StateFits'
    BY <2>4, <1>11
    DEF CloserLocks, CloserRuns, closerCalled, closeListenersLocked, closeIdleConns, closeAll,
        listenerGroupWait, closeIdleConn, closeIdleConnsReturns, visitConn, pollAgain, Closer,
        connVars
  <2>5. CASE enableKeepAlives \/ shutdownExpires
    BY <2>5, <1>11 DEF enableKeepAlives, shutdownExpires, Closer, connVars
  <2>6. QED BY <1>0, <1>12, <2>1, <2>2, <2>3, <2>4, <2>5 DEF Next

\* A conn leaves activeConn when it is closed, or hijacked, and not before.
LEMMA TrackedStep == TypeOK /\ Accepted /\ Tracked /\ MuHeld /\ [Next]_vars => Tracked'
<1>0. SUFFICES ASSUME TypeOK, Accepted, Tracked, MuHeld, [Next]_vars PROVE Tracked'
  OBVIOUS
<1>a. Closers \subseteq AllClosers /\ NoConn \notin Conns
  BY ServerAssumption
<1>1. ASSUME NEW l \in Listeners, trackListener(l) PROVE Tracked'
  BY <1>0, <1>1 DEF TypeOK, Tracked, OpenIsTracked, trackListener, connVars
<1>2. ASSUME NEW l \in Listeners, NEW c \in Conns, Accept(l, c) PROVE Tracked'
  BY <1>0, <1>2 DEF TypeOK, Tracked, OpenIsTracked, Accept, connVars, Accepted
<1>3. ASSUME NEW l \in Listeners, trackConn(l) PROVE Tracked'
  BY <1>0, <1>3 DEF TypeOK, Tracked, OpenIsTracked, trackConn, connVars, Accepted
<1>4. ASSUME NEW l \in Listeners, setStateNew(l) PROVE Tracked'
  BY <1>0, <1>4 DEF TypeOK, Tracked, OpenIsTracked, setStateNew, connVars, Accepted
<1>5. ASSUME NEW l \in Listeners, AcceptFails(l) PROVE Tracked'
  BY <1>0, <1>5 DEF TypeOK, Tracked, OpenIsTracked, AcceptFails, connVars
<1>6. ASSUME NEW l \in Listeners, untrackListener(l) PROVE Tracked'
  BY <1>0, <1>6 DEF TypeOK, Tracked, OpenIsTracked, untrackListener, connVars
<1>7. ASSUME NEW l \in Listeners, closeListener(l) PROVE Tracked'
  BY <1>0, <1>7 DEF TypeOK, Tracked, OpenIsTracked, closeListener, connVars
<1>8. ASSUME NEW c \in Conns, readRequest(c) PROVE Tracked'
  BY <1>0, <1>8 DEF TypeOK, Tracked, OpenIsTracked, readRequest, Goes, Unhooked, connVars
<1>9. ASSUME NEW c \in Conns, serveHTTP2(c) PROVE Tracked'
  BY <1>0, <1>9 DEF TypeOK, Tracked, OpenIsTracked, serveHTTP2, Goes, Unhooked, connVars
<1>10. ASSUME NEW c \in Conns, http2Ends(c) PROVE Tracked'
  BY <1>0, <1>10 DEF TypeOK, Tracked, OpenIsTracked, http2Ends, Goes, Unhooked, connVars
<1>11. ASSUME NEW c \in Conns, handlerEnds(c) PROVE Tracked'
  BY <1>0, <1>11 DEF TypeOK, Tracked, OpenIsTracked, handlerEnds, Goes, Unhooked, connVars
<1>12. ASSUME NEW c \in Conns, keepAlive(c) PROVE Tracked'
  BY <1>0, <1>12
  DEF TypeOK, Tracked, OpenIsTracked, keepAlive, Goes, Unhooked, doKeepAlives, connVars
<1>13. ASSUME NEW c \in Conns, setStateHijacked(c) PROVE Tracked'
  BY <1>0, <1>13 DEF TypeOK, Tracked, OpenIsTracked, setStateHijacked, Goes, connVars, Accepted
<1>14. ASSUME NEW c \in Conns, setStateClosed(c) PROVE Tracked'
  BY <1>0, <1>14 DEF TypeOK, Tracked, OpenIsTracked, setStateClosed, Goes, connVars
<1>15. ASSUME NEW c \in Conns, connClose(c) PROVE Tracked'
  BY <1>0, <1>15 DEF TypeOK, Tracked, OpenIsTracked, connClose, Goes, closed, connVars
<1>16. ASSUME closeAll PROVE Tracked'
  BY <1>0, <1>16
  DEF TypeOK, Tracked, OpenIsTracked, closeAll, Closer, closed, connVars, AllClosers, Accepted
<1>17. ASSUME NEW p \in Closers, closeIdleConn(p) PROVE Tracked'
  BY <1>0, <1>a, <1>17
  DEF TypeOK, Tracked, OpenIsTracked, closeIdleConn, closed, connVars, MuHeld, AllClosers
<1>18. CASE UNCHANGED <<rwc, at, activeConn, serve>>
  BY <1>0, <1>18 DEF TypeOK, Tracked, OpenIsTracked
<1>19. CASE UNCHANGED vars
  BY <1>18, <1>19 DEF vars, connVars
<1>20. QED
  <2>1. ASSUME NEW l \in Listeners,
               ServeLocks(l) \/ setStateNew(l) \/ AcceptFails(l) \/ closeListener(l)
        PROVE  Tracked'
    BY <2>1, <1>1, <1>3, <1>6, <1>4, <1>5, <1>7 DEF ServeLocks
  <2>2. ASSUME NEW l \in Listeners, NEW c \in Conns, Accept(l, c) PROVE Tracked'
    BY <2>2, <1>2
  <2>3. ASSUME NEW c \in Conns,
               ConnRuns(c) \/ ConnLocks(c) \/ ConnReads(c) \/ http2Ends(c) \/ growsOld(c)
        PROVE  Tracked'
    BY <2>3, <1>11, <1>12, <1>15, <1>13, <1>14, <1>8, <1>9, <1>10, <1>18
    DEF ConnRuns, ConnLocks, ConnReads, growsOld, connVars
  <2>4. ASSUME NEW p \in Closers, closerCalled(p) \/ CloserLocks(p) \/ CloserRuns(p) PROVE Tracked'
    BY <2>4, <1>16, <1>17, <1>18
    DEF CloserLocks, CloserRuns, closerCalled, closeListenersLocked, closeIdleConns,
        listenerGroupWait, closeIdleConnsReturns, visitConn, pollAgain, Closer, connVars
  <2>5. CASE enableKeepAlives \/ shutdownExpires
    BY <2>5, <1>18 DEF enableKeepAlives, shutdownExpires, Closer, connVars
  <2>6. QED BY <1>0, <1>19, <2>1, <2>2, <2>3, <2>4, <2>5 DEF Next

\* While closeIdleConns holds mu nobody else removes a conn.
LEMMA MuHeldStep == TypeOK /\ MuHeld /\ [Next]_vars => MuHeld'
<1>0. SUFFICES ASSUME TypeOK, MuHeld, [Next]_vars PROVE MuHeld'
  OBVIOUS
<1>a. Closers \subseteq AllClosers /\ NoConn \notin Conns
  BY ServerAssumption
<1>1. ASSUME NEW l \in Listeners, trackConn(l) PROVE MuHeld'
  BY <1>0, <1>1 DEF TypeOK, CloserRecs, AllClosers, MuHeld, trackConn, connVars
<1>2. ASSUME NEW c \in Conns, setStateHijacked(c) PROVE MuHeld'
  BY <1>0, <1>2 DEF TypeOK, CloserRecs, AllClosers, MuHeld, setStateHijacked, Goes, connVars
<1>3. ASSUME NEW c \in Conns, setStateClosed(c) PROVE MuHeld'
  BY <1>0, <1>3 DEF TypeOK, CloserRecs, AllClosers, MuHeld, setStateClosed, Goes, connVars
<1>4. ASSUME NEW p \in Closers, closerCalled(p) PROVE MuHeld'
  BY <1>0, <1>a, <1>4 DEF TypeOK, CloserRecs, AllClosers, MuHeld, closerCalled, Closer, connVars
<1>5. ASSUME NEW p \in Closers, closeListenersLocked(p) PROVE MuHeld'
  BY <1>0, <1>a, <1>5
  DEF TypeOK, CloserRecs, AllClosers, MuHeld, closeListenersLocked, Closer, connVars
<1>6. ASSUME NEW p \in Closers, listenerGroupWait(p) PROVE MuHeld'
  BY <1>0, <1>a, <1>6
  DEF TypeOK, CloserRecs, AllClosers, MuHeld, listenerGroupWait, Closer, connVars
<1>7. ASSUME closeAll PROVE MuHeld'
  BY <1>0, <1>7 DEF TypeOK, CloserRecs, AllClosers, MuHeld, closeAll, Closer, closed, connVars
<1>8. ASSUME NEW p \in Closers, closeIdleConns(p) PROVE MuHeld'
  BY <1>0, <1>a, <1>8 DEF TypeOK, CloserRecs, AllClosers, MuHeld, closeIdleConns, connVars
<1>9. ASSUME NEW p \in Closers, NEW c \in Conns, visitConn(p, c) PROVE MuHeld'
  BY <1>0, <1>a, <1>9 DEF TypeOK, CloserRecs, AllClosers, MuHeld, visitConn, connVars
<1>10. ASSUME NEW p \in Closers, closeIdleConn(p) PROVE MuHeld'
  BY <1>0, <1>a, <1>10 DEF TypeOK, CloserRecs, AllClosers, MuHeld, closeIdleConn, closed, connVars
<1>11. ASSUME NEW p \in Closers, closeIdleConnsReturns(p) PROVE MuHeld'
  BY <1>0, <1>a, <1>11 DEF TypeOK, CloserRecs, AllClosers, MuHeld, closeIdleConnsReturns, connVars
<1>12. ASSUME pollAgain PROVE MuHeld'
  BY <1>0, <1>12 DEF TypeOK, CloserRecs, AllClosers, MuHeld, pollAgain, Closer, connVars
<1>13. ASSUME shutdownExpires PROVE MuHeld'
  BY <1>0, <1>13 DEF TypeOK, CloserRecs, AllClosers, MuHeld, shutdownExpires, Closer, connVars
<1>14. CASE UNCHANGED <<closer, mu, activeConn>>
  BY <1>0, <1>14 DEF TypeOK, CloserRecs, AllClosers, MuHeld
<1>15. CASE UNCHANGED vars
  BY <1>14, <1>15 DEF vars, connVars
<1>16. QED
  <2>1. ASSUME NEW l \in Listeners,
               ServeLocks(l) \/ setStateNew(l) \/ AcceptFails(l) \/ closeListener(l)
        PROVE  MuHeld'
    BY <2>1, <1>1, <1>14
    DEF ServeLocks, trackListener, untrackListener, setStateNew, AcceptFails, closeListener,
        connVars
  <2>2. ASSUME NEW l \in Listeners, NEW c \in Conns, Accept(l, c) PROVE MuHeld'
    BY <2>2, <1>14 DEF Accept, connVars
  <2>3. ASSUME NEW c \in Conns,
               ConnRuns(c) \/ ConnLocks(c) \/ ConnReads(c) \/ http2Ends(c) \/ growsOld(c)
        PROVE  MuHeld'
    BY <2>3, <1>2, <1>3, <1>14
    DEF ConnRuns, ConnLocks, ConnReads, handlerEnds, keepAlive, connClose, readRequest,
        serveHTTP2, http2Ends, growsOld, Goes, Unhooked, connVars
  <2>4. ASSUME NEW p \in Closers, closerCalled(p) \/ CloserLocks(p) \/ CloserRuns(p) PROVE MuHeld'
    BY <2>4, <1>4, <1>5, <1>8, <1>7, <1>6, <1>10, <1>11, <1>9, <1>12 DEF CloserLocks, CloserRuns
  <2>5. CASE enableKeepAlives \/ shutdownExpires
    BY <2>5, <1>13, <1>14 DEF enableKeepAlives, connVars
  <2>6. QED BY <1>0, <1>15, <2>1, <2>2, <2>3, <2>4, <2>5 DEF Next

\* Once inShutdown is set no listener is registered, and after the last one is
\* gone no conn is tracked any more.
LEMMA StoppedStep == TypeOK /\ Registered /\ MuHeld /\ Stopped /\ Swept /\ [Next]_vars => Stopped'
<1>0. SUFFICES ASSUME TypeOK, Registered, MuHeld, Stopped, Swept, [Next]_vars PROVE Stopped'
  OBVIOUS
<1>a. Closers \subseteq AllClosers /\ NoConn \notin Conns
  BY ServerAssumption
<1>1. ASSUME NEW l \in Listeners, trackListener(l) PROVE Stopped'
  BY <1>0, <1>1
  DEF TypeOK, CloserRecs, AllClosers, Stopped, trackListener, flagVars, listenerVars, connVars
<1>2. ASSUME NEW l \in Listeners, trackConn(l) PROVE Stopped'
  BY <1>0, <1>2
  DEF TypeOK, CloserRecs, AllClosers, Stopped, trackConn, flagVars, listenerVars, connVars,
      Registered
<1>3. ASSUME NEW l \in Listeners, untrackListener(l) PROVE Stopped'
  BY <1>0, <1>3
  DEF TypeOK, CloserRecs, AllClosers, Stopped, untrackListener, flagVars, listenerVars, connVars
<1>4. ASSUME NEW c \in Conns, setStateHijacked(c) PROVE Stopped'
  BY <1>0, <1>4
  DEF TypeOK, CloserRecs, AllClosers, Stopped, setStateHijacked, Goes, flagVars, listenerVars,
      connVars
<1>5. ASSUME NEW c \in Conns, setStateClosed(c) PROVE Stopped'
  BY <1>0, <1>5
  DEF TypeOK, CloserRecs, AllClosers, Stopped, setStateClosed, Goes, flagVars, listenerVars,
      connVars
<1>6. ASSUME NEW p \in Closers, closerCalled(p) PROVE Stopped'
  BY <1>0, <1>a, <1>6
  DEF TypeOK, CloserRecs, AllClosers, Stopped, closerCalled, Closer, flagVars, listenerVars,
      connVars
<1>7. ASSUME NEW p \in Closers, closeListenersLocked(p) PROVE Stopped'
  BY <1>0, <1>a, <1>7
  DEF TypeOK, CloserRecs, AllClosers, Stopped, closeListenersLocked, Closer, flagVars,
      listenerVars, connVars
<1>8. ASSUME NEW p \in Closers, listenerGroupWait(p) PROVE Stopped'
  <2>1. listeners = {}
    BY <1>0, <1>8, FS_EmptySet DEF TypeOK, listenerGroupWait
  <2>2. QED BY <1>0, <1>a, <1>8, <2>1
      DEF TypeOK, CloserRecs, AllClosers, Stopped, listenerGroupWait, Closer, flagVars,
          listenerVars, connVars
<1>9. ASSUME closeAll PROVE Stopped'
  BY <1>0, <1>9
  DEF TypeOK, CloserRecs, AllClosers, Stopped, closeAll, Closer, closed, flagVars, listenerVars,
      connVars
<1>10. ASSUME NEW p \in Closers, closeIdleConns(p) PROVE Stopped'
  BY <1>0, <1>a, <1>10
  DEF TypeOK, CloserRecs, AllClosers, Stopped, closeIdleConns, flagVars, listenerVars, connVars
<1>11. ASSUME NEW p \in Closers, NEW c \in Conns, visitConn(p, c) PROVE Stopped'
  BY <1>0, <1>a, <1>11
  DEF TypeOK, CloserRecs, AllClosers, Stopped, visitConn, flagVars, listenerVars, connVars
<1>12. ASSUME NEW p \in Closers, closeIdleConn(p) PROVE Stopped'
  BY <1>0, <1>a, <1>12
  DEF TypeOK, CloserRecs, AllClosers, Stopped, closeIdleConn, closed, flagVars, listenerVars,
      connVars, MuHeld
<1>13. ASSUME NEW p \in Closers, closeIdleConnsReturns(p) PROVE Stopped'
  BY <1>0, <1>a, <1>13
  DEF TypeOK, CloserRecs, AllClosers, Stopped, closeIdleConnsReturns, flagVars, listenerVars,
      connVars, Swept, MuHeld
<1>14. ASSUME pollAgain PROVE Stopped'
  BY <1>0, <1>14
  DEF TypeOK, CloserRecs, AllClosers, Stopped, pollAgain, Closer, flagVars, listenerVars, connVars
<1>15. ASSUME shutdownExpires PROVE Stopped'
  BY <1>0, <1>15
  DEF TypeOK, CloserRecs, AllClosers, Stopped, shutdownExpires, Closer, flagVars, listenerVars,
      connVars
<1>16. CASE UNCHANGED <<closer, inShutdown, listeners, activeConn>>
  BY <1>0, <1>16 DEF TypeOK, CloserRecs, AllClosers, Stopped
<1>17. CASE UNCHANGED vars
  BY <1>16, <1>17 DEF vars, flagVars, listenerVars, connVars
<1>18. QED
  <2>1. ASSUME NEW l \in Listeners,
               ServeLocks(l) \/ setStateNew(l) \/ AcceptFails(l) \/ closeListener(l)
        PROVE  Stopped'
    BY <2>1, <1>1, <1>2, <1>3, <1>16
    DEF ServeLocks, setStateNew, AcceptFails, closeListener, flagVars, listenerVars, connVars
  <2>2. ASSUME NEW l \in Listeners, NEW c \in Conns, Accept(l, c) PROVE Stopped'
    BY <2>2, <1>16 DEF Accept, flagVars, listenerVars, connVars
  <2>3. ASSUME NEW c \in Conns,
               ConnRuns(c) \/ ConnLocks(c) \/ ConnReads(c) \/ http2Ends(c) \/ growsOld(c)
        PROVE  Stopped'
    BY <2>3, <1>4, <1>5, <1>16
    DEF ConnRuns, ConnLocks, ConnReads, handlerEnds, keepAlive, connClose, readRequest,
        serveHTTP2, http2Ends, growsOld, Goes, Unhooked, flagVars, listenerVars, connVars
  <2>4. ASSUME NEW p \in Closers, closerCalled(p) \/ CloserLocks(p) \/ CloserRuns(p) PROVE Stopped'
    BY <2>4, <1>6, <1>7, <1>10, <1>9, <1>8, <1>12, <1>13, <1>11, <1>14 DEF CloserLocks, CloserRuns
  <2>5. CASE enableKeepAlives \/ shutdownExpires
    BY <2>5, <1>15, <1>16 DEF enableKeepAlives, flagVars, listenerVars, connVars
  <2>6. QED BY <1>0, <1>17, <2>1, <2>2, <2>3, <2>4, <2>5 DEF Next

\* Conns are only removed while closeIdleConns goes through them.
LEMMA SweptStep == TypeOK /\ MuHeld /\ Swept /\ [Next]_vars => Swept'
<1>0. SUFFICES ASSUME TypeOK, MuHeld, Swept, [Next]_vars PROVE Swept'
  OBVIOUS
<1>a. Closers \subseteq AllClosers /\ NoConn \notin Conns
  BY ServerAssumption
<1>1. ASSUME NEW l \in Listeners, trackConn(l) PROVE Swept'
  BY <1>0, <1>1 DEF TypeOK, CloserRecs, AllClosers, MuHeld, Swept, trackConn, connVars
<1>2. ASSUME NEW c \in Conns, setStateHijacked(c) PROVE Swept'
  BY <1>0, <1>2
  DEF TypeOK, CloserRecs, AllClosers, MuHeld, Swept, setStateHijacked, Goes, connVars
<1>3. ASSUME NEW c \in Conns, setStateClosed(c) PROVE Swept'
  BY <1>0, <1>3 DEF TypeOK, CloserRecs, AllClosers, MuHeld, Swept, setStateClosed, Goes, connVars
<1>4. ASSUME NEW p \in Closers, closerCalled(p) PROVE Swept'
  BY <1>0, <1>a, <1>4
  DEF TypeOK, CloserRecs, AllClosers, MuHeld, Swept, closerCalled, Closer, connVars
<1>5. ASSUME NEW p \in Closers, closeListenersLocked(p) PROVE Swept'
  BY <1>0, <1>a, <1>5
  DEF TypeOK, CloserRecs, AllClosers, MuHeld, Swept, closeListenersLocked, Closer, connVars
<1>6. ASSUME NEW p \in Closers, listenerGroupWait(p) PROVE Swept'
  BY <1>0, <1>a, <1>6
  DEF TypeOK, CloserRecs, AllClosers, MuHeld, Swept, listenerGroupWait, Closer, connVars
<1>7. ASSUME closeAll PROVE Swept'
  BY <1>0, <1>7
  DEF TypeOK, CloserRecs, AllClosers, MuHeld, Swept, closeAll, Closer, closed, connVars
<1>8. ASSUME NEW p \in Closers, closeIdleConns(p) PROVE Swept'
  BY <1>0, <1>a, <1>8 DEF TypeOK, CloserRecs, AllClosers, MuHeld, Swept, closeIdleConns, connVars
<1>9. ASSUME NEW p \in Closers, NEW c \in Conns, visitConn(p, c) PROVE Swept'
  BY <1>0, <1>a, <1>9 DEF TypeOK, CloserRecs, AllClosers, MuHeld, Swept, visitConn, connVars
<1>10. ASSUME NEW p \in Closers, closeIdleConn(p) PROVE Swept'
  BY <1>0, <1>a, <1>10
  DEF TypeOK, CloserRecs, AllClosers, MuHeld, Swept, closeIdleConn, closed, connVars
<1>11. ASSUME NEW p \in Closers, closeIdleConnsReturns(p) PROVE Swept'
  BY <1>0, <1>a, <1>11
  DEF TypeOK, CloserRecs, AllClosers, MuHeld, Swept, closeIdleConnsReturns, connVars
<1>12. ASSUME pollAgain PROVE Swept'
  BY <1>0, <1>12 DEF TypeOK, CloserRecs, AllClosers, MuHeld, Swept, pollAgain, Closer, connVars
<1>13. ASSUME shutdownExpires PROVE Swept'
  BY <1>0, <1>13
  DEF TypeOK, CloserRecs, AllClosers, MuHeld, Swept, shutdownExpires, Closer, connVars
<1>14. CASE UNCHANGED <<closer, activeConn>>
  BY <1>0, <1>14 DEF TypeOK, CloserRecs, AllClosers, MuHeld, Swept
<1>15. CASE UNCHANGED vars
  BY <1>14, <1>15 DEF vars, connVars
<1>16. QED
  <2>1. ASSUME NEW l \in Listeners,
               ServeLocks(l) \/ setStateNew(l) \/ AcceptFails(l) \/ closeListener(l)
        PROVE  Swept'
    BY <2>1, <1>1, <1>14
    DEF ServeLocks, trackListener, untrackListener, setStateNew, AcceptFails, closeListener,
        connVars
  <2>2. ASSUME NEW l \in Listeners, NEW c \in Conns, Accept(l, c) PROVE Swept'
    BY <2>2, <1>14 DEF Accept, connVars
  <2>3. ASSUME NEW c \in Conns,
               ConnRuns(c) \/ ConnLocks(c) \/ ConnReads(c) \/ http2Ends(c) \/ growsOld(c)
        PROVE  Swept'
    BY <2>3, <1>2, <1>3, <1>14
    DEF ConnRuns, ConnLocks, ConnReads, handlerEnds, keepAlive, connClose, readRequest,
        serveHTTP2, http2Ends, growsOld, Goes, Unhooked, connVars
  <2>4. ASSUME NEW p \in Closers, closerCalled(p) \/ CloserLocks(p) \/ CloserRuns(p) PROVE Swept'
    BY <2>4, <1>4, <1>5, <1>8, <1>7, <1>6, <1>10, <1>11, <1>9, <1>12 DEF CloserLocks, CloserRuns
  <2>5. CASE enableKeepAlives \/ shutdownExpires
    BY <2>5, <1>13, <1>14 DEF enableKeepAlives, connVars
  <2>6. QED BY <1>0, <1>15, <2>1, <2>2, <2>3, <2>4, <2>5 DEF Next
----------------------------------------------------------------------------
\* A server that has not been used satisfies the invariant.
LEMMA InitIInv == Init => IInv
<1> SUFFICES ASSUME Init PROVE IInv
  OBVIOUS
<1>1. TypeOK
  BY FS_EmptySet, ServerAssumption
  DEF Init, TypeOK, States, CloserRecs, CloserPositions, AllClosers
<1>2. Registered /\ Accepted /\ Tracked /\ StateFits
  BY DEF Init, Registered, Accepted, Tracked, OpenIsTracked, StateFits
<1>3. MuHeld /\ Stopped /\ Swept
  BY DEF Init, MuHeld, Stopped, Swept, AllClosers
<1>4. QED BY <1>1, <1>2, <1>3 DEF IInv

\* Each part of the invariant rests on the parts named in its lemma.
LEMMA NextIInv == IInv /\ [Next]_vars => IInv'
BY TypeStep, RegisteredStep, AcceptedStep, TrackedStep, StateFitsStep, MuHeldStep, StoppedStep,
    SweptStep
DEF IInv

\* So the invariant holds in every state the server can be in.
LEMMA Inductive == Spec => []IInv
BY InitIInv, NextIInv, PTL DEF Spec

\* The state of the server keeps its shape, and listenerGroup counts the
\* listeners, so that Done never makes it negative and Wait waits for all
\* calls of Serve.
THEOREM TypeCorrect == Spec => []TypeOK
<1>1. IInv => TypeOK
  BY DEF IInv
<1>2. QED BY <1>1, Inductive, PTL

\* A conn that is open and not hijacked is known to the server, whatever
\* Shutdown, Close, SetKeepAlivesEnabled and the conns do at the same time.
THEOREM TrackingSafe == Spec => []OpenIsTracked
<1>1. IInv => OpenIsTracked
  BY DEF IInv, Tracked
<1>2. QED BY <1>1, Inductive, PTL

\* After Shutdown has returned nil, or Close has returned, nothing of the
\* server is left: no Serve that accepts, no conn that is open and not
\* hijacked.
THEOREM ShutdownComplete == Spec => []ServerDown
<1>1. IInv => ServerDown
  <2> SUFFICES ASSUME IInv, NEW p \in {"Shutdown", "Close"}, closer[p].at = "done"
               PROVE  /\ \A l \in Listeners : serve[l].at \in {"new", "close", "done"}
                      /\ \A c \in Conns : rwc[c] = "open" => curState[c] = "hijacked"
                      /\ activeConn = {}
    BY DEF ServerDown
  <2>1. listeners = {} /\ activeConn = {}
    BY DEF IInv, Stopped
  <2>2. \A l \in Listeners : serve[l].at \in {"new", "close", "done"}
    BY <2>1 DEF IInv, TypeOK, Registered
  <2>3. ASSUME NEW c \in Conns, rwc[c] = "open" PROVE curState[c] = "hijacked"
    <3>1. at[c] # "accepted" /\ at[c] # "none"
      BY <2>2, <2>3 DEF IInv, Accepted, Tracked
    <3>2. at[c] = "hijacked"
      BY <2>1, <2>3, <3>1 DEF IInv, Tracked, OpenIsTracked
    <3>3. QED BY <3>2 DEF IInv, StateFits
  <2>4. QED BY <2>1, <2>2, <2>3
<1>2. QED BY <1>1, Inductive, PTL

\* No step closes a hijacked conn or changes its state.
LEMMA HijackedStays ==
  ASSUME IInv, [Next]_vars, NEW d \in Conns
  PROVE  at[d] = "hijacked" => rwc'[d] = rwc[d] /\ curState'[d] = "hijacked"
<1> DEFINE Goal == at[d] = "hijacked" => rwc'[d] = rwc[d] /\ curState'[d] = "hijacked"
<1>a. Closers \subseteq AllClosers /\ NoConn \notin Conns
  BY ServerAssumption
<1>1. ASSUME NEW l \in Listeners, NEW c \in Conns, Accept(l, c) PROVE Goal
  BY <1>1 DEF IInv, TypeOK, StateFits, Accept, connVars
<1>2. ASSUME NEW l \in Listeners, setStateNew(l) PROVE Goal
  BY <1>2 DEF IInv, TypeOK, StateFits, Accepted, setStateNew, connVars
<1>3. ASSUME NEW c \in Conns, readRequest(c) PROVE Goal
  BY <1>3 DEF IInv, TypeOK, StateFits, readRequest, Goes, Unhooked, connVars
<1>4. ASSUME NEW c \in Conns, serveHTTP2(c) PROVE Goal
  BY <1>4 DEF IInv, TypeOK, StateFits, serveHTTP2, Goes, Unhooked, connVars
<1>5. ASSUME NEW c \in Conns, handlerEnds(c) PROVE Goal
  BY <1>5 DEF IInv, TypeOK, StateFits, handlerEnds, Goes, Unhooked, connVars
<1>6. ASSUME NEW c \in Conns, setStateHijacked(c) PROVE Goal
  BY <1>6 DEF IInv, TypeOK, StateFits, setStateHijacked, Goes, connVars
<1>7. ASSUME NEW c \in Conns, setStateClosed(c) PROVE Goal
  BY <1>7 DEF IInv, TypeOK, StateFits, setStateClosed, Goes, connVars
<1>8. ASSUME NEW c \in Conns, connClose(c) PROVE Goal
  BY <1>8 DEF IInv, TypeOK, StateFits, connClose, Goes, closed, connVars
<1>9. ASSUME closeAll PROVE Goal
  BY <1>9 DEF IInv, TypeOK, StateFits, Tracked, closeAll, Closer, closed, connVars, AllClosers
<1>10. ASSUME NEW p \in Closers, closeIdleConn(p) PROVE Goal
  BY <1>a, <1>10
  DEF IInv, TypeOK, StateFits, Tracked, MuHeld, closeIdleConn, closed, connVars, AllClosers
<1>11. ASSUME UNCHANGED <<rwc, curState>> PROVE Goal
  BY <1>11 DEF IInv, TypeOK, StateFits
<1>12. ASSUME UNCHANGED vars PROVE Goal
  BY <1>11, <1>12 DEF vars, connVars
<1> HIDE DEF Goal
<1>13. QED
  <2>1. ASSUME NEW l \in Listeners,
               ServeLocks(l) \/ setStateNew(l) \/ AcceptFails(l) \/ closeListener(l)
        PROVE  Goal
    BY <2>1, <1>2, <1>11
    DEF ServeLocks, trackListener, trackConn, untrackListener, AcceptFails, closeListener,
        connVars
  <2>2. ASSUME NEW l \in Listeners, NEW c \in Conns, Accept(l, c) PROVE Goal
    BY <2>2, <1>1
  <2>3. ASSUME NEW c \in Conns,
               ConnRuns(c) \/ ConnLocks(c) \/ ConnReads(c) \/ http2Ends(c) \/ growsOld(c)
        PROVE  Goal
    BY <2>3, <1>5, <1>8, <1>6, <1>7, <1>3, <1>4, <1>11
    DEF ConnRuns, ConnLocks, ConnReads, keepAlive, http2Ends, growsOld, Goes, Unhooked, connVars
  <2>4. ASSUME NEW p \in Closers, closerCalled(p) \/ CloserLocks(p) \/ CloserRuns(p) PROVE Goal
    BY <2>4, <1>9, <1>10, <1>11
    DEF CloserLocks, CloserRuns, closerCalled, closeListenersLocked, closeIdleConns,
        listenerGroupWait, closeIdleConnsReturns, visitConn, pollAgain, Closer, connVars
  <2>5. ASSUME enableKeepAlives \/ shutdownExpires PROVE Goal
    BY <2>5, <1>11 DEF enableKeepAlives, shutdownExpires, Closer, connVars
  <2>6. Goal BY <1>12, <2>1, <2>2, <2>3, <2>4, <2>5 DEF Next
  <2>7. QED BY <2>6 DEF Goal

\* Once Hijack has returned, neither Close nor closeIdleConns nor the conn's
\* own goroutine touches the conn.
THEOREM HijackSafe == Spec => HijackedLeftAlone
<1>1. IInv /\ [Next]_vars =>
        [\A c \in Conns : at[c] = "hijacked" => rwc'[c] = rwc[c] /\ curState'[c] = "hijacked"]_vars
  BY HijackedStays
<1>2. QED BY <1>1, Inductive, PTL DEF Spec, HijackedLeftAlone

\* A state is followed by one of those its comment names.
LEMMA StateFollows ==
  ASSUME IInv, [Next]_vars, NEW d \in Conns
  PROVE  curState'[d] # curState[d] => curState'[d] \in Follows[curState[d]]
<1> DEFINE Goal == curState'[d] # curState[d] => curState'[d] \in Follows[curState[d]]
<1>1. ASSUME NEW l \in Listeners, setStateNew(l) PROVE Goal
  BY <1>1 DEF IInv, TypeOK, StateFits, Follows, Accepted, setStateNew, connVars
<1>2. ASSUME NEW c \in Conns, readRequest(c) PROVE Goal
  BY <1>2 DEF IInv, TypeOK, StateFits, Follows, readRequest, Goes, Unhooked, connVars
<1>3. ASSUME NEW c \in Conns, serveHTTP2(c) PROVE Goal
  BY <1>3 DEF IInv, TypeOK, StateFits, Follows, serveHTTP2, Goes, Unhooked, connVars
<1>4. ASSUME NEW c \in Conns, handlerEnds(c) PROVE Goal
  BY <1>4 DEF IInv, TypeOK, StateFits, Follows, handlerEnds, Goes, Unhooked, connVars
<1>5. ASSUME NEW c \in Conns, setStateHijacked(c) PROVE Goal
  BY <1>5 DEF IInv, TypeOK, StateFits, Follows, setStateHijacked, Goes, connVars
<1>6. ASSUME NEW c \in Conns, setStateClosed(c) PROVE Goal
  BY <1>6 DEF IInv, TypeOK, StateFits, Follows, setStateClosed, Goes, connVars
<1>7. ASSUME UNCHANGED <<curState>> PROVE Goal
  BY <1>7 DEF IInv, TypeOK, StateFits, Follows
<1>8. ASSUME UNCHANGED vars PROVE Goal
  BY <1>7, <1>8 DEF vars, connVars
<1> HIDE DEF Goal
<1>9. QED
  <2>1. ASSUME NEW l \in Listeners,
               ServeLocks(l) \/ setStateNew(l) \/ AcceptFails(l) \/ closeListener(l)
        PROVE  Goal
    BY <2>1, <1>1, <1>7
    DEF ServeLocks, trackListener, trackConn, untrackListener, AcceptFails, closeListener,
        connVars
  <2>2. ASSUME NEW l \in Listeners, NEW c \in Conns, Accept(l, c) PROVE Goal
    BY <2>2, <1>7 DEF Accept, connVars
  <2>3. ASSUME NEW c \in Conns,
               ConnRuns(c) \/ ConnLocks(c) \/ ConnReads(c) \/ http2Ends(c) \/ growsOld(c)
        PROVE  Goal
    BY <2>3, <1>4, <1>5, <1>6, <1>2, <1>3, <1>7
    DEF ConnRuns, ConnLocks, ConnReads, keepAlive, connClose, http2Ends, growsOld, Goes,
        Unhooked, connVars
  <2>4. ASSUME NEW p \in Closers, closerCalled(p) \/ CloserLocks(p) \/ CloserRuns(p) PROVE Goal
    BY <2>4, <1>7
    DEF CloserLocks, CloserRuns, closerCalled, closeListenersLocked, closeIdleConns, closeAll,
        listenerGroupWait, closeIdleConn, closeIdleConnsReturns, visitConn, pollAgain, Closer,
        connVars
  <2>5. ASSUME enableKeepAlives \/ shutdownExpires PROVE Goal
    BY <2>5, <1>7 DEF enableKeepAlives, shutdownExpires, Closer, connVars
  <2>6. Goal BY <1>8, <2>1, <2>2, <2>3, <2>4, <2>5 DEF Next
  <2>7. QED BY <2>6 DEF Goal

\* The states a conn goes through are those the comments on ConnState describe,
\* although the server's calls and the conn's goroutine act concurrently.
THEOREM StatesInOrder == Spec => ConnStateOrder
<1>1. IInv /\ [Next]_vars =>
        [\A c \in Conns : curState'[c] # curState[c] => curState'[c] \in Follows[curState[c]]]_vars
  BY StateFollows
<1>2. QED BY <1>1, Inductive, PTL DEF Spec, ConnStateOrder
=============================================================================
