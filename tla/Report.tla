------------------------------- MODULE Report -------------------------------
(***************************************************************************)
(* The report of pkg/report: the walk from a vulnerability up to products  *)
(* (buildFinding), VEX statements, the merge of records that share a name  *)
(* (mergeAliases, mergeGroup), and the filters and order of Build.         *)
(***************************************************************************)
EXTENDS Integers, Sequences, FiniteSets, SequencesExt, FiniteSetsExt

-----------------------------------------------------------------------------
(* buildFinding.  The nodes are IDs; known are those whose rows were read, *)
(* parents the adjacency; the vulnerability is node vuln.  A parent that   *)
(* was saved since is visited and not followed.                            *)

Ascending(S) == SetToSortSeq(S, <)

(* Mutant of Enqueue: the walk goes deep before it goes wide.              *)
MutantEnqueue(walk, current, parent) ==
    IF parent \in walk.visited THEN walk
    ELSE [walk EXCEPT !.visited = @ \cup {parent},
                      !.next[parent] = current,
                      !.queue = <<parent>> \o @]

Enqueue(walk, current, parent) ==
    IF parent \in walk.visited THEN walk
    ELSE [walk EXCEPT !.visited = @ \cup {parent},
                      !.next[parent] = current,
                      !.queue = Append(@, parent)]

RECURSIVE Walk(_, _, _, _)
Walk(vuln, known, parents, walk) ==
    IF walk.queue = <<>> THEN walk
    ELSE LET current == Head(walk.queue)
             rest == [walk EXCEPT !.queue = Tail(@)]
             top == IF current # vuln /\ parents[current] = {}
                    THEN [rest EXCEPT !.products = @ \cup {current}] ELSE rest
         IN  Walk(vuln, known, parents,
                  IF current \notin known THEN rest
                  ELSE FoldLeft(LAMBDA w, p : Enqueue(w, current, p), top,
                                Ascending(parents[current])))

WalkFrom(vuln, known, parents) ==
    Walk(vuln, known, parents,
         [queue |-> <<vuln>>, visited |-> {vuln}, products |-> {},
          next |-> [i \in DOMAIN parents |-> vuln]])

RECURSIVE PathFrom(_, _, _)
PathFrom(next, vuln, step) ==
    IF step = vuln THEN <<>> ELSE <<step>> \o PathFrom(next, vuln, next[step])

(* A statement about the product, or else about the vulnerable package at  *)
(* the end of the path that was found.                                     *)
StatementFor(vex, path) ==
    IF vex[Head(path)] # "none" THEN vex[Head(path)] ELSE vex[Last(path)]

Suppresses(status) == status \in {"not_affected", "fixed"}

BuildFinding(vuln, known, parents, vex) ==
    LET walk == WalkFrom(vuln, known, parents)
        found == {[name |-> p, path |-> PathFrom(walk.next, vuln, p),
                   vex |-> StatementFor(vex, PathFrom(walk.next, vuln, p))] :
                    p \in walk.products}
    IN  [packages |-> parents[vuln] \cap known,
         products |-> {p \in found : ~Suppresses(p.vex)},
         suppressed |-> {p \in found : Suppresses(p.vex)}]

(* What a finding should say.  A chain leads from a product to one of the  *)
(* packages that have the vulnerability, each step from a node to one that *)
(* it depends on; only nodes whose rows were read are on it.               *)
Chains(vuln, known, parents) ==
    {c \in UNION {[1..k -> known \ {vuln}] : k \in 1..Cardinality(known \ {vuln})} :
       /\ Last(c) \in parents[vuln]
       /\ \A k \in 1..(Len(c) - 1) : c[k] \in parents[c[k + 1]]}

(* Every node that nothing depends on and that a chain leads from is given *)
(* once, with a shortest chain; no other node is.  It is suppressed only   *)
(* if a statement about it says so, or one about a package it contains     *)
(* while none is about the product.                                        *)
FindingIsRight(vuln, known, parents, vex, finding) ==
    LET chains == Chains(vuln, known, parents)
        given == finding.products \cup finding.suppressed
        from(p) == {c \in chains : Head(c) = p}
    IN  /\ {p.name : p \in given} = {p \in known \ {vuln} : parents[p] = {} /\ from(p) # {}}
        /\ \A p, q \in given : p.name = q.name => p = q
        /\ \A p \in given :
              /\ p.path \in from(p.name)
              /\ \A c \in from(p.name) : Len(p.path) <= Len(c)
        /\ \A p \in given :
              LET about == {vex[Last(c)] : c \in from(p.name)}
              IN  IF vex[p.name] # "none"
                  THEN (p \in finding.suppressed) = Suppresses(vex[p.name])
                  ELSE /\ p \in finding.suppressed => \E s \in about : Suppresses(s)
                       /\ (\A s \in about : Suppresses(s)) => p \in finding.suppressed

(* Only a cycle, or a dependent that was saved since, leaves a vulnerable  *)
(* package without a product: else every package has one.                  *)
PackagesHaveProducts(vuln, known, parents, finding) ==
    LET chains == Chains(vuln, known, parents)
        stuck == \E c \in chains :
                    \/ \E k, l \in DOMAIN c : k # l /\ c[k] = c[l]
                    \/ ~(parents[Head(c)] \subseteq known)
                    \/ \E p \in parents[Head(c)] : p \in ToSet(c) \cup {vuln}
    IN  \A pkg \in finding.packages :
            \/ stuck
            \/ \E p \in finding.products \cup finding.suppressed :
                  \E c \in chains : Head(c) = p.name /\ Last(c) = pkg

-----------------------------------------------------------------------------
(* mergeAliases.  A finding is given by its ID, its names (with the ID),   *)
(* the rank of its severity, whether it is in KEV, its score (0 for none), *)
(* its packages, products and suppressed products.  IDs and aliases are    *)
(* numbers; Rank says which are GHSA, CVE and other names (idRank).        *)
RECURSIVE Root(_, _)
Root(parent, i) == IF parent[i] = i THEN i ELSE Root(parent, parent[i])

(* Mutant of Unite: the finding is joined to the other, not its group.     *)
MutantUnite(parent, i, j) == [parent EXCEPT ![i] = Root(parent, j)]

Unite(parent, i, j) == [parent EXCEPT ![Root(parent, i)] = Root(parent, j)]

(* The first finding with a name owns it; a later one is united with it.   *)
Groups(findings) ==
    LET owner(name) == CHOOSE i \in DOMAIN findings :
                          /\ name \in findings[i].names
                          /\ \A j \in 1..(i - 1) : name \notin findings[j].names
        step(parent, i) ==
            FoldLeft(LAMBDA pt, name : IF owner(name) < i THEN Unite(pt, i, owner(name)) ELSE pt,
                     parent, Ascending(findings[i].names))
    IN  FoldLeft(step, [i \in DOMAIN findings |-> i], [i \in DOMAIN findings |-> i])

MergeGroup(group, Rank) ==
    IF Len(group) = 1 THEN Head(group)
    ELSE LET all == ToSet(group)
             lowest == Min({Rank[f.id] : f \in all})
             hidden == UNION {f.suppressed : f \in all}
         IN  [id |-> Head(SelectSeq(group, LAMBDA f : Rank[f.id] = lowest)).id,
              names |-> UNION {f.names : f \in all},
              severity |-> Max({f.severity : f \in all}),
              kev |-> \E f \in all : f.kev,
              epss |-> Max({f.epss : f \in all}),
              packages |-> UNION {f.packages : f \in all},
              products |-> (UNION {f.products : f \in all}) \ hidden,
              suppressed |-> hidden]

MergeAliases(findings, Rank) ==
    LET parent == Groups(findings)
        root(i) == Root(parent, i)
        members(r) == SelectSeq([i \in DOMAIN findings |-> i], LAMBDA i : root(i) = r)
        firsts == {i \in DOMAIN findings : \A j \in 1..(i - 1) : root(j) # root(i)}
    IN  [k \in DOMAIN Ascending(firsts) |->
           LET g == members(root(Ascending(firsts)[k]))
           IN  MergeGroup([j \in DOMAIN g |-> findings[g[j]]], Rank)]

(* The filters of Build, after the merge; want = 0 asks for everything.    *)
Kept(f, options) ==
    /\ options.want \in {0} \cup f.names
    /\ options.kevOnly => f.kev
    /\ f.epss >= options.minEPSS

(* The order of Build: KEV first, then by score, products and ID.          *)
Before(a, b) ==
    \/ a.kev /\ ~b.kev
    \/ a.kev = b.kev /\ a.epss > b.epss
    \/ /\ a.kev = b.kev /\ a.epss = b.epss
       /\ LET m == Cardinality(a.products)
              n == Cardinality(b.products)
          IN  m > n \/ (m = n /\ a.id < b.id)

Build(findings, options, Rank) ==
    SortSeq(SelectSeq(MergeAliases(findings, Rank), LAMBDA f : Kept(f, options)), Before)

(* What a merge should give: one finding for each class of findings that   *)
(* share names, directly or through others, that says what any of them     *)
(* says, and nothing about a product that one of them suppresses.          *)
RECURSIVE Linked(_, _)
Linked(findings, S) ==
    LET T == {j \in DOMAIN findings :
                \E i \in S : findings[i].names \cap findings[j].names # {}}
    IN  IF T = S THEN S ELSE Linked(findings, T)

Says(findings, S, f, Rank) ==
    LET all(field(_)) == UNION {field(findings[i]) : i \in S}
    IN  /\ \E i \in S : f.id = findings[i].id
        /\ \A i \in S : /\ Rank[f.id] <= Rank[findings[i].id]
                        /\ f.severity >= findings[i].severity /\ f.epss >= findings[i].epss
                        /\ findings[i].kev => f.kev
        /\ f.names = all(LAMBDA g : g.names) /\ f.packages = all(LAMBDA g : g.packages)
        /\ f.suppressed = all(LAMBDA g : g.suppressed)
        /\ f.products \cup f.suppressed = all(LAMBDA g : g.products \cup g.suppressed)
        /\ f.products \cap f.suppressed = {}

(* Asking for any name of a record gives the one merged finding with all   *)
(* that its class says, wherever the records stand in the list.            *)
ReportOfName(findings, name, Rank) ==
    LET answer == Build(findings, [want |-> name, kevOnly |-> FALSE, minEPSS |-> 0], Rank)
    IN  \A i \in DOMAIN findings :
            name \in findings[i].names =>
                Len(answer) = 1 /\ Says(findings, Linked(findings, {i}), answer[1], Rank)
=============================================================================
