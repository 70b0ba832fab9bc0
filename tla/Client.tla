------------------------------- MODULE Client -------------------------------
(***************************************************************************)
(* Client.Do of client.go: the loop that follows redirections, who closes  *)
(* the bodies of its requests and responses, and the timer of              *)
(* Client.Timeout, which a goroutine or a context watches on behalf of     *)
(* each request.                                                           *)
(*                                                                         *)
(* A call is a record, and a step gives the set of the records that may    *)
(* follow; the server, the user and the RoundTripper are free.  Headers,   *)
(* cookies and URLs are left out but for the presence of a Location.       *)
(*                                                                         *)
(* A call's request d: method; body "none", "once" or "again" (GetBody is  *)
(* set); timeout, the Client's; cancel, that Request.Cancel is set; known, *)
(* that the Transport knows contexts; sooner, that the context ends before *)
(* the Client's deadline; unsendable, that it has no URL or no             *)
(* RoundTripper, or has RequestURI set.                                    *)
(***************************************************************************)
EXTENDS Integers, Sequences, FiniteSets, SequencesExt
CONSTANT MaxRedirects

hasBody(d) == d.body # "none"

\* How setRequestCancel watches the deadline: "ctx" is a context with a
\* deadline, "both" that and a goroutine, "watch" the goroutine alone.
setRequestCancel(d) ==
  CASE ~d.timeout -> "none"
    [] d.timeout /\ ~d.cancel /\ d.known -> IF d.sooner THEN "none" ELSE "ctx"
    [] d.timeout /\ ~(~d.cancel /\ d.known) -> IF d.sooner THEN "watch" ELSE "both"

\* reqs counts requests; bodies and resps are the bodies of the requests and of
\* the responses, timers the watchers of each request; cur is the body of the
\* current request, 0 for none.
NewCall(d) ==
  [d |-> d, pc |-> "send", method |-> d.method, reqs |-> 0, sends |-> <<>>,
   bodies |-> IF hasBody(d) THEN <<"made">> ELSE <<>>, cur |-> IF hasBody(d) THEN 1 ELSE 0,
   resps |-> <<>>, timers |-> <<>>, late |-> FALSE, userCancels |-> FALSE, broken |-> FALSE,
   cause |-> "", timeout |-> FALSE, kinds |-> <<>>, unused |-> FALSE]

closeCur(s) == IF s.cur = 0 THEN s.bodies ELSE [s.bodies EXCEPT ![s.cur] = "closed"]
watching(s) == setRequestCancel(s.d) \in {"watch", "both"}
stopTimer(s) == IF s.timers[s.reqs] = "armed" THEN [s.timers EXCEPT ![s.reqs] = "stopped"] ELSE s.timers

\* uerr, with the body of the current request closed.
uerr(s, cause) == [s EXCEPT !.pc = "error", !.bodies = closeCur(s), !.cause = cause]

\* Client.send as far as the call of RoundTrip, which has the body from now on;
\* a request that cannot be sent is refused before that.
send(s) ==
  {IF s.d.unsendable THEN uerr(s, "unsendable") ELSE
   [s EXCEPT !.pc = "trip", !.reqs = @ + 1, !.sends = Append(@, [method |-> s.method, body |-> s.cur]),
             !.bodies = IF s.cur = 0 THEN @ ELSE [@ EXCEPT ![s.cur] = "sent"],
             !.timers = Append(@, IF setRequestCancel(s.d) = "none" THEN "off" ELSE "armed")]}

\* The deadline passes; a context ends at once, the goroutine takes its time.
deadlinePasses(s) ==
  {[s EXCEPT !.late = TRUE,
             !.timers = [i \in DOMAIN @ |-> IF @[i] = "armed" /\ ~watching(s) THEN "fired" ELSE @[i]]]
     : x \in IF s.d.timeout /\ ~s.late /\ s.reqs > 0 THEN {1} ELSE {}}
cancels(s) == {[s EXCEPT !.userCancels = TRUE] : x \in IF s.d.cancel /\ ~s.userCancels /\ s.reqs > 0 THEN {1} ELSE {}}

\* The goroutine of setRequestCancel: whichever is ready.
watch(s) ==
  LET at(i, t) == [s EXCEPT !.timers[i] = t]
      armed == {i \in DOMAIN s.timers : s.timers[i] = "armed" /\ watching(s)}
  IN {at(i, "canceled") : i \in IF s.userCancels THEN armed ELSE {}}
     \cup {at(i, "fired") : i \in IF s.late THEN armed ELSE {}}

\* Why the request under way may fail now.
causes(s) ==
  LET t == s.timers[s.reqs]
      k == setRequestCancel(s.d)
  IN {"net"} \cup (IF s.d.sooner \/ (s.late /\ k \in {"ctx", "both"}) THEN {"deadline"} ELSE {})
       \cup (IF t = "fired" /\ k \in {"watch", "both"} THEN {"timer"} ELSE {})
       \cup (IF t = "canceled" \/ (s.userCancels /\ ~watching(s)) THEN {"user"} ELSE {})

\* Mutant: the timer of the goroutine is forgotten.
didTimeoutCtxOnly(s) == IF setRequestCancel(s.d) = "ctx" THEN s.late ELSE FALSE
\* didTimeout, and what url.Error.Timeout says of the error.
didTimeout(s) == IF setRequestCancel(s.d) = "ctx" THEN s.late ELSE watching(s) /\ s.timers[s.reqs] = "fired"
reported(s, cause) == cause = "deadline" \/ (s.d.timeout /\ didTimeout(s))

\* RoundTrip fails; it closes the request's body itself.
sendFailed(s, cause) == [s EXCEPT !.pc = "error", !.cause = cause, !.timeout = reported(s, cause)]
tripFails(s) == {[sendFailed(s, c) EXCEPT !.timers = stopTimer(s)] : c \in causes(s)}
\* A RoundTripper without a response, or without the body it announces.
tripBroken(s) == {[sendFailed(s, "net") EXCEPT !.broken = TRUE]}

redirectBehavior(method, status, d) ==
  CASE status \in {301, 302, 303} ->
         [redirect |-> TRUE, body |-> FALSE, method |-> IF method \in {"GET", "HEAD"} THEN method ELSE "GET"]
    [] status \in {307, 308} -> [redirect |-> ~hasBody(d) \/ d.body = "again", body |-> TRUE, method |-> method]
    [] OTHER -> [redirect |-> FALSE, body |-> FALSE, method |-> ""]

\* A response: the loop goes on or returns it.
answered(s, status) ==
  LET b == redirectBehavior(s.method, status, s.d)
      t == [s EXCEPT !.resps = Append(@, "open"), !.kinds = Append(@, status)]
  IN {IF b.redirect THEN [t EXCEPT !.pc = "next", !.bodies = closeCur(s)] ELSE [t EXCEPT !.pc = "response"]}

closeResp(s) == [s EXCEPT !.resps[Len(s.resps)] = "closed", !.timers = stopTimer(s)]

\* The next request after a Location; its body comes from GetBody.
hop(s) ==
  LET b == redirectBehavior(s.method, Last(s.kinds), s.d)
      again == b.body /\ s.d.body = "again"
  IN [s EXCEPT !.method = b.method, !.cur = IF again THEN Len(s.bodies) + 1 ELSE 0,
               !.bodies = IF again THEN Append(@, "made") ELSE @]

\* checkRedirect, the default or the user's.
defaultCheckRedirect(s) == IF s.reqs >= MaxRedirects THEN "refuse" ELSE "ok"
checkRedirect(s) == IF s.d.check THEN {"ok", "refuse", "last"} ELSE {defaultCheckRedirect(s)}

\* Bodies are closed whatever checkRedirect says, unless it wants the last
\* response, which is returned open.
followed(s, verdict) ==
  LET t == hop(s)
  IN CASE verdict = "last" -> [t EXCEPT !.pc = "response", !.unused = t.cur # 0]
       [] verdict = "refuse" -> uerr(closeResp(t), "refused")
       [] verdict = "ok" -> [closeResp(t) EXCEPT !.pc = "send"]
next(s) ==
  {[s EXCEPT !.pc = "response"], uerr(closeResp(s), "location")}
  \cup (IF hop(s).cur # 0 THEN {uerr(closeResp([s EXCEPT !.cur = 0]), "GetBody")} ELSE {})
  \cup {followed(s, v) : v \in checkRedirect(s)}

\* The user reads the response, with an error perhaps, and closes it.
bodyFails(s) == {[s EXCEPT !.cause = c, !.timeout = reported(s, c), !.pc = "readErr"] : c \in causes(s)}
bodyClose(s) == {[closeResp(s) EXCEPT !.pc = "done"]}

Statuses == {200, 302, 307}
Steps(s) ==
  deadlinePasses(s) \cup cancels(s) \cup watch(s) \cup
  (CASE s.pc = "send" -> send(s)
     [] s.pc = "trip" -> tripFails(s) \cup tripBroken(s) \cup UNION {answered(s, k) : k \in Statuses}
     [] s.pc = "next" -> next(s)
     [] s.pc = "response" -> bodyFails(s) \cup bodyClose(s)
     [] s.pc = "readErr" -> bodyClose(s)
     [] OTHER -> {})

------------------------------------------------------------------------------
(* What Do promises *)

\* Only the response that the loop is at is open, and after an error none is.
ResponsesClosed(s) ==
  \A i \in DOMAIN s.resps : s.resps[i] = "open" => i = Len(s.resps) /\ s.pc \in {"next", "response", "readErr"}

\* No timer and no goroutine of an earlier request, or of a call that is over,
\* still waits for the deadline.
TimersStopped(s) ==
  \A i \in DOMAIN s.timers : s.timers[i] = "armed" =>
    \/ i = s.reqs /\ s.pc \in {"trip", "next", "response", "readErr"}
    \/ s.broken

\* A body is given to one request only; when Do is over each has been given to
\* RoundTrip, which closes it, or closed, but for the one made for a request
\* that checkRedirect did not want sent (ErrUseLastResponse).
BodiesClosed(s) ==
  /\ \A i, j \in DOMAIN s.sends : s.sends[i].body = s.sends[j].body /\ s.sends[i].body # 0 => i = j
  /\ s.pc \in {"error", "response", "readErr", "done"} =>
       \A i \in DOMAIN s.bodies : s.bodies[i] = "made" => s.unused /\ i = Len(s.bodies)

\* 307 and 308 keep method and body, whole, as long as nothing else came before.
MethodAndBodyKept(s) ==
  \A i \in DOMAIN s.sends :
    (\A j \in 1 .. i - 1 : s.kinds[j] \in {307, 308}) =>
       s.sends[i].method = s.d.method /\ (s.sends[i].body # 0 <=> hasBody(s.d))

\* An error is a timeout if the deadline caused it, and not if the user did or
\* if there is no deadline.
TimeoutReported(s) ==
  /\ s.cause \in {"timer", "deadline"} => s.timeout
  /\ s.timeout => s.late \/ s.cause = "deadline"
  /\ s.cause = "user" /\ watching(s) => ~s.timeout

CallClaim(s) ==
  /\ ResponsesClosed(s) /\ TimersStopped(s) /\ BodiesClosed(s) /\ MethodAndBodyKept(s) /\ TimeoutReported(s)
  /\ ~s.d.check => s.reqs <= MaxRedirects
==============================================================================
