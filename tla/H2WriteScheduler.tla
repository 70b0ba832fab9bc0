-------------------------- MODULE H2WriteScheduler --------------------------
(***************************************************************************)
(* The three write schedulers of an HTTP/2 server connection: round robin  *)
(* (the default), random and priority.  The serve loop is their only       *)
(* caller, so every method is one step.  A frame is [stream, n, end]: n    *)
(* bytes of DATA (0 for any other frame) on a stream, 0 for control frames *)
(* and RST_STREAM, whose FrameWriteRequest has no stream.                  *)
(*                                                                         *)
(* The doubly linked lists of the code are sequences: ring (from ws.head)  *)
(* and kids[n] (from n.kids).  A node that lost its parent because the     *)
(* parent was removed has parent Lost: the removed node is in no map.      *)
(***************************************************************************)
EXTENDS Integers, Sequences, FiniteSets, SequencesExt

CONSTANTS
  Streams, MaxFrameSize, NoFrame,   \* as in H2WriteQueue
  Schedulers,       \* which of "rr", "random", "priority" to run
  InitialWindow,    \* outbound window of a stream and of the connection
  Frames,           \* frames the serve loop pushes
  Priorities,       \* PRIORITY parameters: [dep, weight, exclusive]
  Updates,          \* changes of a window: <<stream or 0, bytes>>
  MaxClosedNodesInTree, MaxIdleNodesInTree,
  Throttle,         \* ThrottleOutOfOrderWrites
  ThrottleStep,     \* 1024 bytes in the code
  MaxCalls          \* bound: pushes, window updates and priority changes

Root == 0
Ids == Streams \cup {Root}
Nil == -1
Lost == -2
MaxInt32 == 1000        \* above every size of the model
DefaultWeight == 15

ASSUME StreamsAssumption == Streams \subseteq Nat \ {0}

VARIABLES
  sched,    \* the scheduler of this connection
  st,       \* stream -> "idle", "open", "closed": the serve loop's view
  q,        \* queues: 0 is the control queue (zero, control, root.q)
  ring,     \* round robin: open streams from ws.head
  node,     \* priority: id -> [parent, weight, state, bytes, sub] of ws.nodes
  kids,     \* priority: id -> its children from n.kids
  closedNodes, idleNodes, maxID, limit,   \* priority: as in the code
  flow, connFlow, popped,
  panicked,
  skips,    \* round robin: pops of other streams while s had a sendable frame
  calls     \* pushes, window updates and priority changes so far

tree == <<node, kids, closedNodes, idleNodes, maxID, limit>>
vars == <<sched, st, q, ring, tree, flow, connFlow, popped, panicked, skips, calls>>

------------------------------------------------------------------------------
(* Frames and queues *)

SetMin(S) == CHOOSE a \in S : \A b \in S : a <= b

\* FrameWriteRequest.Consume: bytes the head of queue id may carry, given the
\* caller's limit n; 0 bytes of a non-DATA frame is always allowed.
available(id) == SetMin({flow[id], connFlow})
canConsume(id, n) ==
  /\ q[id] # <<>>
  /\ Head(q[id]).n > 0 => SetMin({available(id), n, MaxFrameSize}) > 0

consumed(id, n) ==
  LET f == Head(q[id])
      allowed == SetMin({available(id), n, MaxFrameSize})
  IN IF f.n = 0 \/ f.n <= allowed THEN f
     ELSE [f EXCEPT !.n = allowed, !.end = FALSE]

MutantRest(id, n) == Tail(q[id])
\* writeQueue.consume: the queue keeps what was not consumed.
rest(id, n) ==
  LET f == Head(q[id])
      c == consumed(id, n)
  IN IF c.n = f.n THEN Tail(q[id]) ELSE [q[id] EXCEPT ![1].n = @ - c.n]

take(id, n) ==
  /\ q' = [q EXCEPT ![id] = rest(id, n)]
  /\ popped' = consumed(id, n)
  /\ flow' = [s \in Streams |-> IF s = id THEN flow[s] - consumed(id, n).n ELSE flow[s]]
  /\ connFlow' = connFlow - consumed(id, n).n

------------------------------------------------------------------------------
(* The priority tree: t is [node, kids] while an operation changes it *)

T == [node |-> node, kids |-> kids]

NoNode == [parent |-> Nil, weight |-> 0, state |-> "none", bytes |-> 0, sub |-> 0]
present(t, id) == id = Root \/ t.node[id].state # "none"
parentOf(t, id) == IF id = Root THEN Nil ELSE t.node[id].parent

\* priorityNode.setParent: a node with a new parent comes first among its kids.
setParent(t, id, p) ==
  LET old == parentOf(t, id)
      cut == [i \in Ids |-> IF i = old THEN Remove(t.kids[i], id) ELSE t.kids[i]]
  IN IF old = p THEN t
     ELSE [node |-> [t.node EXCEPT ![id].parent = p],
           kids |-> IF p \in Ids THEN [cut EXCEPT ![p] = <<id>> \o @] ELSE cut]

newNode(state) ==
  [parent |-> Nil, weight |-> DefaultWeight, state |-> state, bytes |-> 0, sub |-> 0]

addNode(t, id, state, p) ==
  setParent([t EXCEPT !.node[id] = newNode(state)], id, p)

RECURSIVE ancestors(_, _)
ancestors(t, id) ==
  IF id \in {Nil, Lost} THEN {}
  ELSE {id} \cup ancestors(t, parentOf(t, id))

\* priorityNode.addBytes: the node and every ancestor of it.
addBytes(t, id, b) ==
  LET up == ancestors(t, id)
  IN [t EXCEPT !.node =
       [i \in Streams |->
         IF i \in up
         THEN [t.node[i] EXCEPT !.sub = @ + b, !.bytes = IF i = id THEN @ + b ELSE @]
         ELSE t.node[i]]]

\* priorityWriteScheduler.removeNode.  The loop over n.kids follows k.next
\* after k.setParent(n.parent) has put k into the list of the new parent: it
\* goes on there, and only the first child of n is moved.
removeNode(t, id) ==
  LET p == parentOf(t, id)
      t1 == IF t.kids[id] = <<>> THEN t ELSE setParent(t, Head(t.kids[id]), p)
      t2 == setParent(t1, id, Nil)
      left == ToSet(t2.kids[id])
  IN [node |-> [i \in Streams |->
                  IF i = id THEN NoNode
                  ELSE IF i \in left THEN [t2.node[i] EXCEPT !.parent = Lost]
                  ELSE t2.node[i]],
      kids |-> [t2.kids EXCEPT ![id] = <<>>]]

\* addClosedOrIdleNode: the new list, and the tree without the oldest node of
\* a full one (which may be gone already, or be open again).
full(list, max) == max > 0 /\ Len(list) = max
addToList(list, max, id) ==
  IF max = 0 THEN list
  ELSE Append(IF full(list, max) THEN Tail(list) ELSE list, id)
evict(t, list, max) ==
  IF full(list, max) /\ present(t, Head(list)) THEN removeNode(t, Head(list)) ELSE t

\* sortPriorityNodeSiblings.Less; the weight is a uint8, so weight + 1 wraps.
less(t, i, k) ==
  LET wi == (t.node[i].weight + 1) % 256
      wk == (t.node[k].weight + 1) % 256
      bi == t.node[i].sub
      bk == t.node[k].sub
  IN IF bi = 0 /\ bk = 0 THEN wi >= wk
     ELSE IF bk = 0 THEN FALSE
     ELSE IF bk > 0 THEN bi * wk <= wi * bk ELSE bi * wk >= wi * bk

\* sort.Sort of fewer than twelve elements is an insertion sort; Less is not
\* strict, so what it does with equal elements matters.
RECURSIVE insert(_, _, _)
insert(t, s, x) ==
  IF s = <<>> \/ ~less(t, x, Last(s)) THEN Append(s, x)
  ELSE Append(insert(t, Front(s), x), Last(s))
sorted(t, s) == FoldLeft(LAMBDA acc, x : insert(t, acc, x), <<>>, s)

sortKids(t, id) ==
  LET ks == t.kids[id]
      sameWeight == \A i, j \in DOMAIN ks : t.node[ks[i]].weight = t.node[ks[j]].weight
  IN IF sameWeight THEN t ELSE [t EXCEPT !.kids[id] = sorted(t, ks)]

\* priorityNode.walkReadyInOrder with the function of Pop: the tree after the
\* sorting done on the way, the node that gave a frame (Nil: none did), and
\* whether an ancestor of it is open.
RECURSIVE walkReadyInOrder(_, _, _)
RECURSIVE walkKids(_, _, _)
walkReadyInOrder(t, id, openParent) ==
  IF canConsume(id, IF openParent THEN limit ELSE MaxInt32)
  THEN [t |-> t, hit |-> id, openParent |-> openParent]
  ELSE walkKids(sortKids(t, id), sortKids(t, id).kids[id],
                openParent \/ (id # Root /\ t.node[id].state = "open"))
walkKids(t, ks, openParent) ==
  IF ks = <<>> THEN [t |-> t, hit |-> Nil, openParent |-> openParent]
  ELSE LET r == walkReadyInOrder(t, Head(ks), openParent)
       IN IF r.hit # Nil THEN r ELSE walkKids(r.t, Tail(ks), openParent)

------------------------------------------------------------------------------
(* The methods *)

Init ==
  /\ sched \in Schedulers
  /\ st = [s \in Streams |-> "idle"]
  /\ q = [i \in Ids |-> <<>>]
  /\ ring = <<>>
  /\ node = [s \in Streams |-> NoNode]
  /\ kids = [i \in Ids |-> <<>>]
  /\ closedNodes = <<>> /\ idleNodes = <<>> /\ maxID = 0
  /\ limit = IF Throttle THEN ThrottleStep ELSE MaxInt32
  /\ flow = [s \in Streams |-> InitialWindow] /\ connFlow = InitialWindow
  /\ popped = NoFrame
  /\ panicked = FALSE
  /\ skips = [s \in Streams |-> 0]
  /\ calls = 0

setTree(t) == node' = t.node /\ kids' = t.kids

Pushed(s) == s % 2 = 0

\* The serve loop opens streams with growing identifiers; a pushed stream
\* names the stream that pushed it.
OpenStream(s, pusher) ==
  /\ ~panicked /\ st[s] = "idle"
  /\ \A r \in Streams : r > s /\ Pushed(r) = Pushed(s) => st[r] = "idle"
  /\ IF Pushed(s) THEN pusher \in Streams /\ ~Pushed(pusher) /\ st[pusher] = "open"
                  ELSE pusher = Root
  /\ st' = [st EXCEPT ![s] = "open"]
  /\ CASE sched = "rr" ->
            /\ ring' = Append(ring, s)
            /\ UNCHANGED <<tree, panicked>>
       [] sched = "priority" /\ present(T, s) ->
            /\ panicked' = (node[s].state # "idle")
            /\ node' = [node EXCEPT ![s].state = IF @ = "idle" THEN "open" ELSE @]
            /\ UNCHANGED <<ring, kids, closedNodes, idleNodes, maxID, limit>>
       [] sched = "priority" /\ ~present(T, s) ->
            /\ setTree(addNode(T, s, "open", IF present(T, pusher) THEN pusher ELSE Root))
            /\ maxID' = IF s > maxID THEN s ELSE maxID
            /\ UNCHANGED <<ring, closedNodes, idleNodes, limit, panicked>>
       [] sched = "random" -> UNCHANGED <<ring, tree, panicked>>
  /\ UNCHANGED <<sched, q, flow, connFlow, popped, skips, calls>>

CloseStream(s) ==
  /\ ~panicked /\ st[s] = "open"
  /\ st' = [st EXCEPT ![s] = "closed"]
  /\ q' = [q EXCEPT ![s] = <<>>]
  /\ skips' = [skips EXCEPT ![s] = 0]
  /\ CASE sched = "rr" ->
            /\ ring' = Remove(ring, s)
            /\ UNCHANGED <<tree, panicked>>
       [] sched = "priority" /\ node[s].state # "open" ->
            /\ panicked' = TRUE
            /\ UNCHANGED <<ring, tree>>
       [] sched = "priority" /\ node[s].state = "open" ->
            LET t == addBytes([T EXCEPT !.node[s].state = "closed"], s, -node[s].bytes)
            IN /\ setTree(IF MaxClosedNodesInTree > 0
                          THEN evict(t, closedNodes, MaxClosedNodesInTree)
                          ELSE removeNode(t, s))
               /\ closedNodes' = addToList(closedNodes, MaxClosedNodesInTree, s)
               /\ UNCHANGED <<ring, idleNodes, maxID, limit, panicked>>
       [] sched = "random" -> UNCHANGED <<ring, tree, panicked>>
  /\ UNCHANGED <<sched, flow, connFlow, popped, calls>>

\* AdjustStream, which only the priority scheduler implements.  A stream the
\* scheduler has never heard of becomes an idle node; a dependency on a
\* descendant first moves the descendant up; an exclusive dependency takes
\* over the children of the new parent.
dependOn(t, s, p) ==
  LET n == t.node[s]
      t1 == IF s \in ancestors(t, parentOf(t, p.dep)) THEN setParent(t, p.dep, n.parent) ELSE t
      others == SelectSeq(t1.kids[p.dep], LAMBDA k : k # s)
      t2 == IF p.exclusive THEN FoldLeft(LAMBDA a, k : setParent(a, k, s), t1, others) ELSE t1
      t3 == setParent(t2, s, p.dep)
  IN [t3 EXCEPT !.node[s].weight = p.weight]

adjusted(t, s, p) ==
  CASE ~present(t, p.dep) -> [setParent(t, s, Root) EXCEPT !.node[s].weight = DefaultWeight]
    [] present(t, p.dep) /\ p.dep = s -> t
    [] present(t, p.dep) /\ p.dep # s -> dependOn(t, s, p)

AdjustStream(s, p) ==
  /\ ~panicked /\ sched = "priority" /\ calls < MaxCalls /\ p.dep # s
  /\ calls' = calls + 1
  /\ IF present(T, s)
     THEN /\ setTree(adjusted(T, s, p))
          /\ UNCHANGED <<idleNodes, maxID>>
     ELSE /\ s > maxID /\ MaxIdleNodesInTree > 0
          /\ maxID' = s
          /\ idleNodes' = addToList(idleNodes, MaxIdleNodesInTree, s)
          /\ setTree(adjusted(evict(addNode(T, s, "idle", Root), idleNodes, MaxIdleNodesInTree),
                              s, p))
  /\ UNCHANGED <<sched, st, q, ring, closedNodes, limit, flow, connFlow, popped, panicked, skips>>

\* The serve loop pushes frames of open streams and control frames.  A frame
\* of a stream the scheduler does not hold goes to the control queue, unless
\* it is DATA; the random scheduler makes a queue for any stream.
holds(s) ==
  CASE sched = "rr" -> s \in ToSet(ring)
    [] sched = "priority" -> present(T, s)
    [] sched = "random" -> TRUE

Push(f) ==
  /\ ~panicked /\ calls < MaxCalls
  /\ f.stream # Root => st[f.stream] = "open"
  /\ calls' = calls + 1
  /\ LET known == f.stream = Root \/ holds(f.stream)
     IN /\ panicked' = (~known /\ f.n > 0)
        /\ q' = IF panicked' THEN q
                ELSE [q EXCEPT ![IF known THEN f.stream ELSE Root] = Append(@, f)]
  /\ UNCHANGED <<sched, st, ring, tree, flow, connFlow, popped, skips>>

\* Bookkeeping of the fairness property: id gave a frame.
countSkips(id) ==
  skips' = [s \in Streams |->
             IF s = id \/ ~canConsume(s, MaxInt32) THEN 0
             ELSE IF id = Root THEN skips[s] ELSE skips[s] + 1]

MutantRingAfter(i) == ring
ringAfter(i) == SubSeq(ring, i + 1, Len(ring)) \o SubSeq(ring, 1, i)

\* Round robin: control frames first, then the first stream from ws.head
\* that flow control lets write; the one after it is the next head.
PopRoundRobin ==
  LET ready == {i \in DOMAIN ring : canConsume(ring[i], MaxInt32)}
      i == SetMin(ready)
  IN \/ /\ q[Root] # <<>>
        /\ take(Root, MaxInt32) /\ countSkips(Root) /\ UNCHANGED ring
     \/ /\ q[Root] = <<>> /\ ready # {}
        /\ take(ring[i], MaxInt32) /\ countSkips(ring[i])
        /\ ring' = ringAfter(i)
     \/ /\ q[Root] = <<>> /\ ready = {}
        /\ popped' = NoFrame
        /\ UNCHANGED <<q, ring, flow, connFlow, skips>>

\* Random: control frames first, then any stream, in the order of the map.
PopRandom ==
  LET ready == {s \in Streams : canConsume(s, MaxInt32)}
  IN /\ \/ q[Root] # <<>> /\ take(Root, MaxInt32)
        \/ \E s \in ready : q[Root] = <<>> /\ take(s, MaxInt32)
        \/ /\ q[Root] = <<>> /\ ready = {}
           /\ popped' = NoFrame /\ UNCHANGED <<q, flow, connFlow>>
     /\ UNCHANGED <<ring, skips>>

\* Priority: the first node in priority order.  A node below an open one is
\* throttled, less and less as long as the open one has nothing to send.
PopPriority ==
  LET r == walkReadyInOrder(T, Root, FALSE)
      n == IF r.openParent THEN limit ELSE MaxInt32
  IN /\ IF r.hit = Nil
        THEN /\ popped' = NoFrame
             /\ setTree(r.t)
             /\ UNCHANGED <<q, flow, connFlow, limit>>
        ELSE /\ take(r.hit, n)
             /\ setTree(addBytes(r.t, r.hit, consumed(r.hit, n).n))
             /\ limit' = IF r.openParent THEN SetMin({limit + ThrottleStep, MaxInt32})
                         ELSE IF Throttle THEN ThrottleStep ELSE limit
     /\ UNCHANGED <<ring, skips, closedNodes, idleNodes, maxID>>

Pop ==
  /\ ~panicked
  /\ \/ sched = "rr" /\ PopRoundRobin /\ UNCHANGED tree
     \/ sched = "random" /\ PopRandom /\ UNCHANGED tree
     \/ sched = "priority" /\ PopPriority
  /\ UNCHANGED <<sched, st, panicked, calls>>

\* WINDOW_UPDATE on a stream or on the connection, or a smaller
\* SETTINGS_INITIAL_WINDOW_SIZE (w < 0), which only streams feel.
windowUpdate(s, w) ==
  /\ ~panicked /\ calls < MaxCalls
  /\ calls' = calls + 1
  /\ IF s = Root THEN connFlow' = connFlow + w /\ UNCHANGED flow
                 ELSE flow' = [flow EXCEPT ![s] = @ + w] /\ UNCHANGED connFlow
  /\ skips' = [r \in Streams |-> IF w < 0 /\ r = s THEN 0 ELSE skips[r]]
  /\ UNCHANGED <<sched, st, q, ring, tree, popped, panicked>>

Next ==
  \/ \E s \in Streams, p \in Ids : OpenStream(s, p)
  \/ \E s \in Streams : CloseStream(s)
  \/ \E s \in Streams, p \in Priorities : AdjustStream(s, p)
  \/ \E f \in Frames : Push(f)
  \/ Pop
  \/ \E u \in Updates : windowUpdate(u[1], u[2])

Spec == Init /\ [][Next]_vars

------------------------------------------------------------------------------
(* Properties *)

\* Every scheduler keeps the promises of the http2WriteScheduler interface:
\* order within a stream, no frame dropped except by CloseStream, DATA within
\* the windows of the stream and of the connection, and a Pop that finds
\* nothing only when no frame can be written.
Queue == INSTANCE H2WriteQueue WITH pending <- q

ImplementsQueue == Queue!Spec

\* No call the serve loop makes trips an assertion of the scheduler ("stream
\* already opened", "already closed", "add DATA on non-open stream"), and the
\* priority tree stays a tree below the root in which each open stream hangs.
TreeSound ==
  /\ ~panicked
  /\ sched = "priority" =>
       \A s \in Streams :
         /\ st[s] = "open" => node[s].state = "open" /\ Root \in ancestors(T, s)
         /\ present(T, s) /\ node[s].parent \in Ids =>
              Cardinality({i \in DOMAIN kids[node[s].parent] : kids[node[s].parent][i] = s}) = 1

\* Round robin starves no stream: while a stream has a frame it may send, each
\* other open stream is served at most once before it.
NoStarvation ==
  sched = "rr" => \A s \in Streams : skips[s] < Cardinality(Streams)

\* No stream is lost to the policy: it stays in its tree or ring, and has its turn.
NoStreamLost == TreeSound /\ NoStarvation
=============================================================================
