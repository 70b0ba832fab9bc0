------------------------------ MODULE ServeMux ------------------------------
(***************************************************************************)
(* ServeMux: the parsing and comparison of patterns, the index that finds  *)
(* conflicts, the decision tree that finds the pattern of a request, and   *)
(* the redirections around it, as operators on their values.               *)
(*                                                                         *)
(* A path is the sequence of what stands between its slashes: "/a/" is     *)
(* <<"a", "">> and "/" is <<"">>.  A pattern's path is a sequence of       *)
(* tokens, its text cut the same way.  Segments are unescaped already.     *)
(***************************************************************************)
EXTENDS Integers, Sequences, FiniteSets, SequencesExt

------------------------------------------------------------------------------
(* Patterns *)

lit(s) == [s |-> s, wild |-> FALSE, multi |-> FALSE]
wild(s) == [s |-> s, wild |-> TRUE, multi |-> FALSE]
multi(s) == [s |-> s, wild |-> TRUE, multi |-> TRUE]
lastSegment(p) == Last(p.segs)
NoPattern == [method |-> "", host |-> "", segs |-> <<>>]

\* cleanPath: path.Clean, with the slash at the end put back.
cleanPath(path) ==
  LET step(acc, e) == IF e \in {"", "."} THEN acc
                      ELSE IF e # ".." THEN Append(acc, e)
                      ELSE IF acc = <<>> THEN acc ELSE Front(acc)
      np == FoldLeft(step, <<>>, path)
  IN IF np = <<>> THEN <<"">> ELSE IF Last(path) = "" THEN Append(np, "") ELSE np

\* parsePattern of [method, host, toks]; a token is [t, s] with t one of
\* "lit", "wild", "multi", "dollar" and "bad" (a malformed wildcard).  The
\* method "bad" is no token, the host "bad" has a brace, and without toks
\* there is no slash.
parsePattern(d) ==
  LET n == Len(d.toks)
      names == {i \in 1 .. n : d.toks[i].t \in {"wild", "multi"}}
      unclean == LET text == [i \in 1 .. n |-> IF d.toks[i].t = "lit" THEN d.toks[i].s ELSE "{}"]
                 IN text # cleanPath(text)
      segment(i) == CASE d.toks[i].t = "wild" -> wild(d.toks[i].s)
                      [] d.toks[i].t = "multi" -> multi(d.toks[i].s)
                      [] d.toks[i].t = "dollar" -> lit("/")
                      [] OTHER -> IF i = n /\ d.toks[i].s = "" THEN multi("") ELSE lit(d.toks[i].s)
  IN IF \/ d.method = "bad" \/ d.host = "bad" \/ n = 0
        \/ \E i \in 1 .. n : d.toks[i].t = "bad" \/ (i < n /\ d.toks[i].t \in {"multi", "dollar"})
        \/ \E i, j \in names : i # j /\ d.toks[i].s = d.toks[j].s
        \/ d.method \notin {"", "CONNECT"} /\ unclean
     THEN NoPattern
     ELSE [method |-> d.method, host |-> d.host, segs |-> [i \in 1 .. n |-> segment(i)]]

inverseRelationship(r) ==
  IF r = "moreSpecific" THEN "moreGeneral" ELSE IF r = "moreGeneral" THEN "moreSpecific" ELSE r

\* Mutant: more specific in one place and more general in another is not overlap.
combineLoosely(r1, r2) ==
  IF r1 = "equivalent" THEN r2
  ELSE IF r1 = "disjoint" \/ r2 = "disjoint" THEN "disjoint"
  ELSE IF r1 = "overlaps" \/ r2 = "equivalent" THEN r1
  ELSE r2
\* combineRelationships of two parts of a pattern.
combineRelationships(r1, r2) ==
  IF r1 = "equivalent" THEN r2
  ELSE IF r1 = "disjoint" \/ r2 = "disjoint" THEN "disjoint"
  ELSE IF r1 = "overlaps" \/ r2 = "equivalent" THEN r1
  ELSE IF r2 = inverseRelationship(r1) THEN "overlaps"
  ELSE r2

compareMethods(p1, p2) ==
  IF p1.method = p2.method THEN "equivalent"
  ELSE IF p1.method = "" \/ (p1.method = "GET" /\ p2.method = "HEAD") THEN "moreGeneral"
  ELSE IF p2.method = "" \/ (p2.method = "GET" /\ p1.method = "HEAD") THEN "moreSpecific"
  ELSE "disjoint"

\* A single wildcard does not match a slash at the end.
compareSegments(s1, s2) ==
  IF s1.multi /\ s2.multi THEN "equivalent"
  ELSE IF s1.multi THEN "moreGeneral" ELSE IF s2.multi THEN "moreSpecific"
  ELSE IF s1.wild /\ s2.wild THEN "equivalent"
  ELSE IF s1.wild THEN IF s2.s = "/" THEN "disjoint" ELSE "moreGeneral"
  ELSE IF s2.wild THEN IF s1.s = "/" THEN "disjoint" ELSE "moreSpecific"
  ELSE IF s1.s = s2.s THEN "equivalent" ELSE "disjoint"

comparePaths(p1, p2) ==
  LET n1 == Len(p1.segs)
      n2 == Len(p2.segs)
      both == IF n1 < n2 THEN n1 ELSE n2
      rel == FoldLeft(LAMBDA r, i : combineRelationships(r, compareSegments(p1.segs[i], p2.segs[i])),
                      "equivalent", [i \in 1 .. both |-> i])
  IN IF n1 = n2 \/ rel = "disjoint" THEN rel
     ELSE IF n1 < n2 /\ lastSegment(p1).multi THEN combineRelationships(rel, "moreGeneral")
     ELSE IF n2 < n1 /\ lastSegment(p2).multi THEN combineRelationships(rel, "moreSpecific")
     ELSE "disjoint"

comparePathsAndMethods(p1, p2) ==
  LET mrel == compareMethods(p1, p2)
  IN IF mrel = "disjoint" THEN mrel ELSE combineRelationships(mrel, comparePaths(p1, p2))

conflictsWith(p1, p2) ==
  p1.host = p2.host /\ comparePathsAndMethods(p1, p2) \in {"equivalent", "overlaps"}

------------------------------------------------------------------------------
(* What describeConflict shows the user *)

\* writeSegment: the segment as a path element; a wildcard becomes its name.
writeSegment(s) == IF s.multi \/ s.s = "/" THEN "" ELSE s.s
writeMatchingPath(segs) == [i \in DOMAIN segs |-> writeSegment(segs[i])]

rest(p, n) == writeMatchingPath(SubSeq(p.segs, n + 1, Len(p.segs)))

commonPath(p1, p2) ==
  LET n == IF Len(p1.segs) < Len(p2.segs) THEN Len(p1.segs) ELSE Len(p2.segs)
  IN [i \in 1 .. n |-> writeSegment(IF p1.segs[i].wild THEN p2.segs[i] ELSE p1.segs[i])]
     \o (IF Len(p1.segs) > n THEN rest(p1, n) ELSE rest(p2, n))

\* A path that p1 matches and p2 does not; "other" is a literal with an x added.
differencePath(p1, p2) ==
  LET n == IF Len(p1.segs) < Len(p2.segs) THEN Len(p1.segs) ELSE Len(p2.segs)
      elem(i) ==
        LET s1 == p1.segs[i]
            s2 == p2.segs[i]
        IN IF s1.wild /\ ~s1.multi /\ ~s2.wild /\ s1.s = s2.s THEN "other" ELSE writeSegment(s1)
      stops == {i \in 1 .. n : p1.segs[i].multi}
  IN IF stops = {} THEN [i \in 1 .. n |-> elem(i)] \o (IF Len(p1.segs) > n THEN rest(p1, n) ELSE rest(p2, n))
     ELSE LET k == Len(p1.segs)
              end == IF p2.segs[k].multi \/ p2.segs[k].s # "/" THEN ""
                     ELSE IF p1.segs[k].s # "" THEN p1.segs[k].s ELSE "x"
          IN Append([i \in 1 .. k - 1 |-> elem(i)], end)

------------------------------------------------------------------------------
(* The index of patterns, and registration *)

\* idx.segments[{pos, s}]; "" stands for a wildcard.
indexed(ps, pos, s) ==
  {p \in ps : /\ ~lastSegment(p).multi /\ pos \in DOMAIN p.segs
              /\ s = IF p.segs[pos].wild THEN "" ELSE p.segs[pos].s}

\* For a pattern with literals, the position with the fewest candidates.
possiblyConflictingPatterns(ps, pat) ==
  LET lits == {i \in DOMAIN pat.segs : ~pat.segs[i].wild}
      at(i) == indexed(ps, i, pat.segs[i].s) \cup indexed(ps, i, "")
      better(i, j) == \/ Cardinality(at(i)) < Cardinality(at(j))
                      \/ Cardinality(at(i)) = Cardinality(at(j)) /\ i <= j
  IN {p \in ps : lastSegment(p).multi} \cup
     (IF lastSegment(pat).s = "/" THEN indexed(ps, Len(pat.segs), "/")
      ELSE IF lits # {} THEN at(CHOOSE i \in lits : \A j \in lits : better(i, j))
      ELSE {p \in ps : ~lastSegment(p).multi})

rejected(ps, pat) == \E p \in possiblyConflictingPatterns(ps, pat) : conflictsWith(pat, p)

------------------------------------------------------------------------------
(* The decision tree *)

\* A tree is the set of its leaves: the keys on the way there and the pattern.
key(seg) == IF seg.multi THEN "*" ELSE IF seg.wild THEN "" ELSE seg.s
keys(p) == [i \in DOMAIN p.segs |-> key(p.segs[i])]
addSegments(ps) == {[keys |-> keys(p), pat |-> p] : p \in ps}
findChild(T, k) == {[e EXCEPT !.keys = Tail(@)] : e \in {f \in T : f.keys # <<>> /\ Head(f.keys) = k}}
NoMatch == [pat |-> NoPattern, vals |-> <<>>]
leaf(T) == {e \in T : e.keys = <<>>}
orElse(m, next) == IF m # NoMatch THEN m ELSE next
\* A node that is no leaf, taken for one: its pattern is nil.
Panic == [NoMatch EXCEPT !.pat.method = "panic"]

\* set panics if the leaf is there, which a literal "*" may share.
set(ps, pat) == \E p \in ps : p.host = pat.host /\ p.method = pat.method /\ keys(p) = keys(pat)

\* registerErr for one description after the other; what panics adds nothing.
register(ps, d) ==
  LET pat == parsePattern(d)
  IN IF pat = NoPattern \/ rejected(ps, pat) \/ set(ps, pat) THEN ps ELSE ps \cup {pat}

\* firstSegment, again and again: the slash at the end is a segment too.
segments(path) == [i \in DOMAIN path |-> IF i = Len(path) /\ path[i] = "" THEN "/" ELSE path[i]]

\* Literal before wildcard before the rest of the path, with backtracking.  The
\* node of the rest is the one with the key "*", whoever made it.
RECURSIVE matchPath(_, _, _)
matchPath(T, segs, vals) ==
  IF segs = <<>>
  THEN IF leaf(T) = {} THEN NoMatch ELSE [pat |-> (CHOOSE e \in leaf(T) : TRUE).pat, vals |-> vals]
  ELSE LET seg == Head(segs)
           exact == IF findChild(T, seg) = {} THEN NoMatch ELSE matchPath(findChild(T, seg), Tail(segs), vals)
           any == IF seg = "/" \/ findChild(T, "") = {} THEN NoMatch
                  ELSE matchPath(findChild(T, ""), Tail(segs), Append(vals, <<seg>>))
           star == findChild(T, "*")
           p == (CHOOSE e \in leaf(star) : TRUE).pat
           all == IF leaf(star) = {} THEN Panic ELSE [pat |-> p, vals |-> IF lastSegment(p).s = "" THEN vals ELSE Append(vals, segs)]
       IN orElse(exact, orElse(any, IF star = {} THEN NoMatch ELSE all))

withMethod(ps, m) == addSegments({p \in ps : p.method = m})
matchMethodAndPath(ps, method, path) ==
  LET found(m) == matchPath(withMethod(ps, m), segments(path), <<>>)
  IN orElse(found(method), orElse(IF method = "HEAD" THEN found("GET") ELSE NoMatch, found("")))

match(ps, host, method, path) ==
  LET found(h) == matchMethodAndPath({p \in ps : p.host = h}, method, path)
  IN orElse(IF host = "" THEN NoMatch ELSE found(host), found(""))

\* The methods with a node of their own under the host's, and HEAD for GET;
\* "panic" if that is how one of them ends.
matchingMethods(ps, host, path) ==
  LET here == {p \in ps : p.host \in {"", host} /\ p.method # ""}
      found(h, m) == matchPath(withMethod({p \in here : p.host = h}, m), segments(path), <<>>)
      ms == {m \in {p.method : p \in here} : \E h \in {"", host} : found(h, m) # NoMatch}
  IN ms \cup (IF "GET" \in ms THEN {"HEAD"} ELSE {})
        \cup (IF \E h \in {"", host}, m \in ms : found(h, m) = Panic THEN {"panic"} ELSE {})

------------------------------------------------------------------------------
(* Finding the handler of a request [method, host, urlHost, path] *)

exactMatchAnyDepth(m, path) == m # NoMatch /\ (lastSegment(m.pat).multi => Last(path) = "")
exactMatch(m, path) ==
  /\ m \notin {NoMatch, Panic}
  /\ lastSegment(m.pat).multi => Last(path) = "" /\ Len(m.pat.segs) = Len(path)

redirect(path) == [kind |-> "redirect", path |-> path, match |-> NoMatch, allow |-> {}]
answer(kind, m, allow) == [kind |-> kind, path |-> <<>>, match |-> m, allow |-> allow]

\* matchOrRedirect: whether the path with a slash added is what is registered.
addsSlash(m, slashed, path) == ~exactMatch(m, path) /\ exactMatch(slashed, Append(path, ""))

findHandler(ps, r) ==
  LET connect == r.method = "CONNECT"
      path == IF connect THEN r.path ELSE cleanPath(r.path)
      m == match(ps, r.host, r.method, path)
      host == IF connect THEN r.urlHost ELSE r.host
      first == match(ps, host, r.method, path)
      slashed == match(ps, host, r.method, Append(path, ""))
      allow == matchingMethods(ps, host, path) \cup matchingMethods(ps, host, Append(path, ""))
  IN IF first = Panic \/ (~exactMatch(first, path) /\ slashed = Panic) THEN answer("panic", Panic, {})
     ELSE IF addsSlash(first, slashed, path) THEN redirect(Append(cleanPath(r.path), ""))
     ELSE IF path # r.path THEN redirect(path)
     ELSE IF m = Panic \/ (m = NoMatch /\ "panic" \in allow) THEN answer("panic", Panic, {})
     ELSE IF m # NoMatch THEN answer("handler", m, {})
     ELSE IF allow # {} THEN answer("notAllowed", m, allow)
     ELSE answer("notFound", m, {})

\* Request.patIndex: the value of a wildcard by its name.
PathValue(m, name) ==
  LET named == SelectSeq(m.pat.segs, LAMBDA s : s.wild /\ s.s # "")
      i == {j \in DOMAIN named : named[j].s = name}
  IN IF i = {} THEN <<>> ELSE m.vals[CHOOSE j \in i : TRUE]

------------------------------------------------------------------------------
(* What the documentation of ServeMux promises, by the requests a pattern    *)
(* matches; paths are the clean ones of a finite set.                        *)

matchesSegment(s, x) == IF s.wild THEN x # "/" ELSE x = s.s
matchesPath(p, path) ==
  LET n == Len(p.segs)
      x == segments(path)
      ends == IF lastSegment(p).multi THEN n - 1 ELSE n
  IN /\ IF lastSegment(p).multi THEN Len(x) >= n ELSE Len(x) = n
     /\ \A i \in 1 .. ends : matchesSegment(p.segs[i], x[i])
matchesMethod(p, method) == p.method \in {"", method} \/ (p.method = "GET" /\ method = "HEAD")
covers(p, methods, paths) ==
  {m \in methods : matchesMethod(p, m)} \X {x \in paths : matchesPath(p, x)}

\* A pattern is refused exactly if it and a registered one with the same host
\* match a common request and neither is more specific; the paths shown to
\* the user then are in both patterns, and in one but not in the other.
ConflictClaim(ps, d, methods, paths) ==
  LET pat == parsePattern(d)
      crosses(A, B) == A \cap B # {} /\ (A = B \/ ~(A \subseteq B \/ B \subseteq A))
      clash(p) == p.host = pat.host /\ crosses(covers(p, methods, paths), covers(pat, methods, paths))
  IN pat # NoPattern =>
       /\ rejected(ps, pat) <=> \E p \in ps : clash(p)
       /\ \A p \in ps : comparePaths(pat, p) = "overlaps" =>
            LET common == commonPath(pat, p)
                mine == differencePath(pat, p)
                theirs == differencePath(p, pat)
            IN /\ \/ matchesPath(pat, common) /\ matchesPath(p, common)
                  \/ \E i \in DOMAIN pat.segs \cap DOMAIN p.segs : pat.segs[i].wild /\ p.segs[i].multi
               /\ matchesPath(pat, mine) /\ ~matchesPath(p, mine)
               /\ matchesPath(p, theirs) /\ ~matchesPath(pat, theirs)

\* The handler is that of the most specific pattern that matches, patterns
\* with a host first, and the values of its wildcards are the segments they
\* stand for.
PrecedenceClaim(ps, r, methods, paths) ==
  LET m == match(ps, r.host, r.method, r.path)
      x == segments(r.path)
      C == {p \in ps : p.host \in {"", r.host} /\ matchesMethod(p, r.method) /\ matchesPath(p, r.path)}
      within(A, B) == A # B /\ A \subseteq B
      wins(p, q) == \/ p.host # "" /\ q.host = ""
                    \/ p.host = q.host /\ within(covers(p, methods, paths), covers(q, methods, paths))
  IN IF C = {} THEN m = NoMatch
     ELSE /\ m.pat \in C /\ \A q \in C \ {m.pat} : wins(m.pat, q)
          /\ \A i \in DOMAIN m.pat.segs :
               LET s == m.pat.segs[i]
               IN s.wild /\ s.s # "" =>
                    PathValue(m, s.s) = IF s.multi THEN SubSeq(x, i, Len(x)) ELSE <<x[i]>>

\* A redirection leads to an answer, not to another redirection, and adds a
\* slash only for the root of a subtree; a method that is offered by 405 is
\* served, and after 404 there is none.
AnswerClaim(ps, r, methods) ==
  LET a == findHandler(ps, r)
      other(m) == findHandler(ps, [r EXCEPT !.method = m]).kind
  IN /\ a.kind = "redirect" /\ Last(r.path) # "" => findHandler(ps, [r EXCEPT !.path = a.path]).kind # "redirect"
     /\ a.kind = "redirect" /\ a.path # cleanPath(r.path) =>
          \E p \in ps : Len(p.segs) = Len(a.path) /\ matchesPath(p, a.path)
     /\ a.kind = "notAllowed" => \A m \in a.allow \cap methods : other(m) \in {"handler", "redirect"}
     /\ a.kind = "notFound" => \A m \in methods : other(m) # "handler"

\* Whatever the literals are, a pattern answers only the paths that it matches.
LiteralClaim(ps, r) ==
  LET m == match(ps, r.host, r.method, r.path)
  IN m # NoMatch => m # Panic /\ matchesPath(m.pat, r.path)
==============================================================================
