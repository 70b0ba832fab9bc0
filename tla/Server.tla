------------------------------- MODULE Server -------------------------------
(***************************************************************************)
(* The life of the HTTP server (server.go): calls of Serve that accept     *)
(* connections, the goroutine of each connection as it goes through its    *)
(* ConnStates, and the calls of Shutdown, Close and SetKeepAlivesEnabled   *)
(* that close listeners and connections.  What a connection reads is       *)
(* module ServerConn; here reading a request is one step, and handling it  *)
(* another.                                                                *)
(*                                                                         *)
(* curState is an atomic variable of the connection: its goroutine sets it *)
(* without Server.mu, so closeIdleConns, which holds mu, may act on a      *)
(* state that has changed since it looked.                                 *)
(***************************************************************************)
EXTENDS Naturals, FiniteSets

CONSTANTS
  Conns,       \* the connections clients make
  Listeners,   \* the calls of Serve, each with a listener of its own
  Closers,     \* which of the calls below are made
  HTTP2,       \* whether a TLS handshake may choose HTTP/2
  NoConn

AllClosers == {"Shutdown", "Close", "SetKeepAlivesEnabled"}

ASSUME ServerAssumption ==
  /\ NoConn \notin Conns
  /\ Closers \subseteq AllClosers
  /\ HTTP2 \in BOOLEAN

VARIABLES
  inShutdown,         \* atomic
  disableKeepAlives,  \* atomic
  mu,                 \* who holds Server.mu for more than one step, or "free"
  listeners,          \* the listeners Serve has registered
  listenerGroup,      \* how many there are: a WaitGroup
  lnClosed,           \* the listeners that are closed
  activeConn,         \* the conns the server keeps track of
  curState,           \* c.curState, "unset" before the first setState
  old,                \* conns that have been StateNew for more than 5 seconds
  rwc,                \* "none", "open", or who closed the network connection first
  at,                 \* position of a conn's goroutine (conn.serve)
  serve,              \* position of each Serve, and the conn it has accepted
  closer              \* Shutdown, Close and SetKeepAlivesEnabled(false)

flagVars == <<inShutdown, disableKeepAlives>>
listenerVars == <<listeners, listenerGroup, lnClosed>>
connVars == <<activeConn, curState, old, rwc, at>>
vars == <<flagVars, mu, listenerVars, connVars, serve, closer>>

doKeepAlives == ~disableKeepAlives /\ ~inShutdown

\* rwc.Close(), by whoever comes first.
closed(c, who) == IF rwc[c] = "open" THEN who ELSE rwc[c]

----------------------------------------------------------------------------
(* Serve                                                                   *)

\* Serve registers its listener, or returns ErrServerClosed.
trackListener(l) ==
  /\ serve[l].at = "new" /\ mu = "free"
  /\ \/ /\ inShutdown
        /\ serve' = [serve EXCEPT ![l].at = "close"]
        /\ UNCHANGED <<listeners, listenerGroup>>
     \/ /\ ~inShutdown
        /\ listeners' = listeners \cup {l} /\ listenerGroup' = listenerGroup + 1
        /\ serve' = [serve EXCEPT ![l].at = "accept"]
  /\ UNCHANGED <<flagVars, mu, lnClosed, connVars, closer>>

\* A client's connection arrives at a listener that accepts it.
Accept(l, c) ==
  /\ serve[l].at = "accept" /\ l \notin lnClosed
  /\ at[c] = "none"
  /\ at' = [at EXCEPT ![c] = "accepted"]
  /\ rwc' = [rwc EXCEPT ![c] = "open"]
  /\ serve' = [serve EXCEPT ![l] = [at |-> "track", conn |-> c]]
  /\ UNCHANGED <<flagVars, mu, listenerVars, activeConn, curState, old, closer>>

\* setState(StateNew): the conn is tracked first and has a state afterwards.
trackConn(l) ==
  /\ serve[l].at = "track" /\ mu = "free"
  /\ activeConn' = activeConn \cup {serve[l].conn}
  /\ serve' = [serve EXCEPT ![l].at = "store"]
  /\ UNCHANGED <<flagVars, mu, listenerVars, curState, old, rwc, at, closer>>

setStateNew(l) ==
  LET c == serve[l].conn IN
  /\ serve[l].at = "store"
  /\ curState' = [curState EXCEPT ![c] = "new"]
  /\ at' = [at EXCEPT ![c] = "read"]
  /\ serve' = [serve EXCEPT ![l] = [at |-> "accept", conn |-> NoConn]]
  /\ UNCHANGED <<flagVars, mu, listenerVars, activeConn, old, rwc, closer>>

\* Accept fails: the listener has been closed, or is broken for good.
AcceptFails(l) ==
  /\ serve[l].at = "accept"
  /\ serve' = [serve EXCEPT ![l].at = "untrack"]
  /\ UNCHANGED <<flagVars, mu, listenerVars, connVars, closer>>

\* Mutant: Done is not called.
untrackListenerSilently(l) ==
  /\ serve[l].at = "untrack" /\ mu = "free"
  /\ listeners' = listeners \ {l}
  /\ serve' = [serve EXCEPT ![l].at = "close"]
  /\ UNCHANGED <<flagVars, mu, listenerGroup, lnClosed, connVars, closer>>

\* Serve's deferred calls: trackListener(&l, false), then l.Close().
untrackListener(l) ==
  /\ serve[l].at = "untrack" /\ mu = "free"
  /\ listeners' = listeners \ {l} /\ listenerGroup' = listenerGroup - 1
  /\ serve' = [serve EXCEPT ![l].at = "close"]
  /\ UNCHANGED <<flagVars, mu, lnClosed, connVars, closer>>

closeListener(l) ==
  /\ serve[l].at = "close"
  /\ lnClosed' = lnClosed \cup {l}
  /\ serve' = [serve EXCEPT ![l].at = "done"]
  /\ UNCHANGED <<flagVars, mu, listeners, listenerGroup, connVars, closer>>

----------------------------------------------------------------------------
(* conn.serve                                                              *)

Goes(c, from, to) == at[c] = from /\ at' = [at EXCEPT ![c] = to]

Unhooked(c) == UNCHANGED <<flagVars, mu, listenerVars, activeConn, old, rwc, serve, closer>>

\* Mutant: the state is left as it is.
readRequestQuietly(c) ==
  /\ Goes(c, "read", "handler")
  /\ UNCHANGED curState
  /\ Unhooked(c)

\* The wait for a request and readRequest; setState(StateActive) if it has
\* read anything.  It fails if the client goes away, is silent for too long
\* or sends no request, and on a new conn if the TLS handshake fails.  What
\* it reads may have been buffered before the conn was closed.
readRequest(c) ==
  /\ \/ Goes(c, "read", "handler") /\ curState' = [curState EXCEPT ![c] = "active"]
     \/ Goes(c, "read", "close") /\ curState' = [curState EXCEPT ![c] = "active"]
     \/ Goes(c, "read", "close") /\ UNCHANGED curState
  /\ Unhooked(c)

\* The TLS handshake on a new conn chooses HTTP/2: its server has the conn
\* until it ends, and the conn is marked active.
serveHTTP2(c) ==
  /\ HTTP2 /\ curState[c] = "new"
  /\ Goes(c, "read", "http2")
  /\ curState' = [curState EXCEPT ![c] = "active"]
  /\ Unhooked(c)

http2Ends(c) ==
  /\ Goes(c, "http2", "close")
  /\ UNCHANGED curState
  /\ Unhooked(c)

\* The handler hijacks the conn, panics, or returns; in the last case
\* finishRequest follows and the conn is idle if it can be reused.
handlerEnds(c) ==
  /\ \/ Goes(c, "handler", "hijack") /\ UNCHANGED curState
     \/ Goes(c, "handler", "close") /\ UNCHANGED curState
     \/ Goes(c, "handler", "idle") /\ curState' = [curState EXCEPT ![c] = "idle"]
  /\ Unhooked(c)

keepAlive(c) ==
  /\ Goes(c, "idle", IF doKeepAlives THEN "read" ELSE "close")
  /\ UNCHANGED curState
  /\ Unhooked(c)

\* Mutant: the server keeps track of a hijacked conn.
setStateHijackedTracked(c) ==
  /\ Goes(c, "hijack", "hijacked")
  /\ curState' = [curState EXCEPT ![c] = "hijacked"]
  /\ UNCHANGED <<flagVars, mu, listenerVars, activeConn, old, rwc, serve, closer>>

\* hijackLocked's setState(StateHijacked), after which Hijack returns.
setStateHijacked(c) ==
  /\ mu = "free"
  /\ Goes(c, "hijack", "hijacked")
  /\ activeConn' = activeConn \ {c}
  /\ curState' = [curState EXCEPT ![c] = "hijacked"]
  /\ UNCHANGED <<flagVars, mu, listenerVars, old, rwc, serve, closer>>

\* The deferred function of conn.serve: close, then setState(StateClosed).
connClose(c) ==
  /\ Goes(c, "close", "closed")
  /\ rwc' = [rwc EXCEPT ![c] = closed(c, "serve")]
  /\ UNCHANGED <<flagVars, mu, listenerVars, activeConn, curState, old, serve, closer>>

setStateClosed(c) ==
  /\ mu = "free"
  /\ Goes(c, "closed", "done")
  /\ activeConn' = activeConn \ {c}
  /\ curState' = [curState EXCEPT ![c] = "closed"]
  /\ UNCHANGED <<flagVars, mu, listenerVars, old, rwc, serve, closer>>

\* Five seconds pass without a request on a new conn.
growsOld(c) ==
  /\ curState[c] = "new" /\ c \notin old
  /\ old' = old \cup {c}
  /\ UNCHANGED <<flagVars, mu, listenerVars, activeConn, curState, rwc, at, serve, closer>>

----------------------------------------------------------------------------
(* Shutdown, Close and SetKeepAlivesEnabled(false)                         *)

Closer(p, pos) == closer' = [closer EXCEPT ![p].at = pos]

\* The first thing each of them does.
closerCalled(p) ==
  /\ p \in Closers /\ closer[p].at = "call"
  /\ \/ /\ p \in {"Shutdown", "Close"}
        /\ inShutdown' = TRUE
        /\ Closer(p, "listeners")
        /\ UNCHANGED disableKeepAlives
     \/ /\ p = "SetKeepAlivesEnabled"
        /\ disableKeepAlives' = TRUE
        /\ Closer(p, "lock")
        /\ UNCHANGED inShutdown
  /\ UNCHANGED <<mu, listenerVars, connVars, serve>>

\* SetKeepAlivesEnabled(true)
enableKeepAlives ==
  /\ disableKeepAlives
  /\ disableKeepAlives' = FALSE
  /\ UNCHANGED <<inShutdown, mu, listenerVars, connVars, serve, closer>>

closeListenersLocked(p) ==
  /\ closer[p].at = "listeners" /\ mu = "free"
  /\ lnClosed' = lnClosed \cup listeners
  /\ Closer(p, "wait")
  /\ UNCHANGED <<flagVars, mu, listeners, listenerGroup, connVars, serve>>

\* Mutant: the calls of Serve are not waited for.
listenerGroupIgnored(p) ==
  /\ closer[p].at = "wait"
  /\ Closer(p, "lock")
  /\ UNCHANGED <<flagVars, mu, listenerVars, connVars, serve>>

listenerGroupWait(p) ==
  /\ closer[p].at = "wait" /\ listenerGroup = 0
  /\ Closer(p, "lock")
  /\ UNCHANGED <<flagVars, mu, listenerVars, connVars, serve>>

\* Close closes every conn that is tracked.
closeAll ==
  /\ closer["Close"].at = "lock" /\ mu = "free"
  /\ rwc' = [c \in Conns |-> IF c \in activeConn THEN closed(c, "Close") ELSE rwc[c]]
  /\ activeConn' = {}
  /\ Closer("Close", "done")
  /\ UNCHANGED <<flagVars, mu, listenerVars, curState, old, at, serve>>

\* closeIdleConns: lock mu ...
closeIdleConns(p) ==
  /\ p # "Close" /\ closer[p].at = "lock" /\ mu = "free"
  /\ mu' = p
  /\ closer' = [closer EXCEPT ![p] = [at |-> "loop", todo |-> activeConn, quiescent |-> TRUE,
                                      victim |-> NoConn]]
  /\ UNCHANGED <<flagVars, listenerVars, connVars, serve>>


treatedAsIdle(c) == curState[c] = "idle" \/ (curState[c] = "new" /\ c \in old)

\* ... look at the state of the next conn ...
visitConn(p, c) ==
  /\ closer[p].at = "loop" /\ closer[p].victim = NoConn
  /\ c \in closer[p].todo
  /\ \/ /\ treatedAsIdle(c)
        /\ closer' = [closer EXCEPT ![p].todo = @ \ {c}, ![p].victim = c]
     \/ /\ ~treatedAsIdle(c)
        /\ closer' = [closer EXCEPT ![p].todo = @ \ {c}, ![p].quiescent = FALSE]
  /\ UNCHANGED <<flagVars, mu, listenerVars, connVars, serve>>

\* Mutant: the conn is forgotten and not closed.
closeIdleConnForgets(p) ==
  LET c == closer[p].victim IN
  /\ closer[p].at = "loop" /\ c # NoConn
  /\ activeConn' = activeConn \ {c}
  /\ closer' = [closer EXCEPT ![p].victim = NoConn]
  /\ UNCHANGED <<flagVars, mu, listenerVars, curState, old, rwc, at, serve>>

\* ... close it and forget it if it was idle ...
closeIdleConn(p) ==
  LET c == closer[p].victim IN
  /\ closer[p].at = "loop" /\ c # NoConn
  /\ rwc' = [rwc EXCEPT ![c] = closed(c, p)]
  /\ activeConn' = activeConn \ {c}
  /\ closer' = [closer EXCEPT ![p].victim = NoConn]
  /\ UNCHANGED <<flagVars, mu, listenerVars, curState, old, at, serve>>

\* ... and unlock.  Shutdown returns if there was no other conn.
closeIdleConnsReturns(p) ==
  /\ closer[p].at = "loop" /\ closer[p].todo = {} /\ closer[p].victim = NoConn
  /\ mu' = "free"
  /\ closer' = [closer EXCEPT ![p].quiescent = FALSE, ![p].at =
                   IF p = "Shutdown" /\ ~closer[p].quiescent THEN "poll" ELSE "done"]
  /\ UNCHANGED <<flagVars, listenerVars, connVars, serve>>

\* Shutdown waits for its timer and tries again ...
pollAgain ==
  /\ closer["Shutdown"].at = "poll"
  /\ Closer("Shutdown", "lock")
  /\ UNCHANGED <<flagVars, mu, listenerVars, connVars, serve>>

\* ... or returns the error of its context.
shutdownExpires ==
  /\ closer["Shutdown"].at = "poll"
  /\ Closer("Shutdown", "expired")
  /\ UNCHANGED <<flagVars, mu, listenerVars, connVars, serve>>

----------------------------------------------------------------------------
Init ==
  /\ inShutdown = FALSE /\ disableKeepAlives = FALSE /\ mu = "free"
  /\ listeners = {} /\ listenerGroup = 0 /\ lnClosed = {}
  /\ activeConn = {} /\ old = {}
  /\ curState = [c \in Conns |-> "unset"]
  /\ rwc = [c \in Conns |-> "none"]
  /\ at = [c \in Conns |-> "none"]
  /\ serve = [l \in Listeners |-> [at |-> "new", conn |-> NoConn]]
  /\ closer = [p \in AllClosers |->
                 [at |-> "call", todo |-> {}, quiescent |-> FALSE, victim |-> NoConn]]

ServeLocks(l) == trackListener(l) \/ trackConn(l) \/ untrackListener(l)

ConnRuns(c) == handlerEnds(c) \/ keepAlive(c) \/ connClose(c)

ConnLocks(c) == setStateHijacked(c) \/ setStateClosed(c)

ConnReads(c) == readRequest(c) \/ serveHTTP2(c)

CloserLocks(p) == closeListenersLocked(p) \/ closeIdleConns(p) \/ (p = "Close" /\ closeAll)

CloserRuns(p) ==
  \/ listenerGroupWait(p) \/ closeIdleConn(p) \/ closeIdleConnsReturns(p)
  \/ \E c \in Conns : visitConn(p, c)
  \/ p = "Shutdown" /\ pollAgain

Next ==
  \/ \E l \in Listeners : \/ ServeLocks(l) \/ setStateNew(l) \/ AcceptFails(l) \/ closeListener(l)
                          \/ \E c \in Conns : Accept(l, c)
  \/ \E c \in Conns : ConnRuns(c) \/ ConnLocks(c) \/ ConnReads(c) \/ http2Ends(c) \/ growsOld(c)
  \/ \E p \in Closers : closerCalled(p) \/ CloserLocks(p) \/ CloserRuns(p)
  \/ enableKeepAlives \/ shutdownExpires

Spec == Init /\ [][Next]_vars

\* Goroutines run and get their turn at mu, handlers end, a closed listener
\* fails and so does reading from a closed conn, and the HTTP/2 server ends
\* its conns when it is told to.
Fairness ==
  /\ \A l \in Listeners :
       /\ SF_vars(ServeLocks(l))
       /\ WF_vars(setStateNew(l)) /\ WF_vars(closeListener(l))
       /\ WF_vars(l \in lnClosed /\ AcceptFails(l))
  /\ \A c \in Conns :
       /\ SF_vars(ConnLocks(c))
       /\ WF_vars(ConnRuns(c))
       /\ WF_vars(rwc[c] # "open" /\ ConnReads(c))
       /\ WF_vars((inShutdown \/ rwc[c] # "open") /\ http2Ends(c))
       /\ WF_vars(growsOld(c))
  /\ \A p \in Closers : SF_vars(CloserLocks(p)) /\ WF_vars(CloserRuns(p))

FairSpec == Spec /\ Fairness

----------------------------------------------------------------------------
(* Properties                                                              *)

States == {"unset", "new", "active", "idle", "hijacked", "closed"}

CloserPositions == {"call", "listeners", "wait", "lock", "loop", "poll", "expired", "done"}

CloserRecs == [at : CloserPositions, todo : SUBSET Conns, quiescent : BOOLEAN,
               victim : Conns \cup {NoConn}]

\* Every variable stays in the set the code's types give it; listenerGroup,
\* a WaitGroup, is the number of listeners and never negative.
TypeOK ==
  /\ inShutdown \in BOOLEAN /\ disableKeepAlives \in BOOLEAN
  /\ mu \in AllClosers \cup {"free"}
  /\ listeners \subseteq Listeners /\ lnClosed \subseteq Listeners
  /\ IsFiniteSet(listeners) /\ listenerGroup = Cardinality(listeners)
  /\ activeConn \subseteq Conns /\ old \subseteq Conns
  /\ curState \in [Conns -> States]
  /\ rwc \in [Conns -> {"none", "open", "serve"} \cup AllClosers]
  /\ at \in [Conns -> {"none", "accepted", "read", "handler", "idle", "http2", "hijack",
                       "hijacked", "close", "closed", "done"}]
  /\ serve \in [Listeners -> [at : {"new", "accept", "track", "store", "untrack", "close", "done"},
                              conn : Conns \cup {NoConn}]]
  /\ closer \in [AllClosers -> CloserRecs]

\* When Close or Shutdown has returned without an error, the server is down
\* for good: no Serve accepts conns, and every conn there has been is closed
\* or belongs to the handler that hijacked it.
ServerDown ==
  \A p \in Closers \cap {"Shutdown", "Close"} : closer[p].at = "done" =>
    /\ \A l \in Listeners : serve[l].at \in {"new", "close", "done"}
    /\ \A c \in Conns : rwc[c] = "open" => curState[c] = "hijacked"
    /\ activeConn = {}

\* The server knows every open conn that nobody has hijacked, so that Close
\* can reach it, once Serve has gone on to the next one.
OpenIsTracked ==
  \A c \in Conns : rwc[c] = "open" /\ at[c] \notin {"accepted", "hijacked"} => c \in activeConn

\* Once Hijack has returned the server does not close the conn ("it becomes
\* the caller's responsibility").
HijackedLeftAlone ==
  [][\A c \in Conns : at[c] = "hijacked" => rwc'[c] = rwc[c] /\ curState'[c] = "hijacked"]_vars

\* A conn's state, which Server.ConnState is told of, changes only as the
\* comments on ConnState say.
Follows ==
  [unset |-> {"new"}, new |-> {"active", "closed"}, active |-> {"idle", "hijacked", "closed"},
   idle |-> {"active", "closed"}, hijacked |-> {}, closed |-> {}]

ConnStateOrder ==
  [][\A c \in Conns : curState'[c] # curState[c] => curState'[c] \in Follows[curState[c]]]_vars

\* Shutdown closes idle conns only: no handler is running on a conn that
\* Shutdown has closed.
Uninterrupted == \A c \in Conns : at[c] = "handler" => rwc[c] # "Shutdown"

=============================================================================
