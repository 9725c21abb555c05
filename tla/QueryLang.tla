----------------------------- MODULE QueryLang -----------------------------
(***************************************************************************)
(* ParseAndExecute of pkg/graph/parser.go on scripts that parse: the names *)
(* of a script are looked up, its queries are answered in two batches, and *)
(* the parse tree is folded into one set of nodes.                         *)
(*                                                                         *)
(* An expression is a term, perhaps an operator, and perhaps an expression *)
(* on the right: a sequence of links, each a term with the operator behind *)
(* it ("none" where there is none).  A term is a query or a group, which   *)
(* is an expression in brackets; groups within groups are left out.        *)
(***************************************************************************)
EXTENDS Naturals, Sequences, SequencesExt

CONSTANTS
    Names,        \* of the nodes in the storage
    NoName,       \* the node name that a query leaves out; the default name
                  \* of a query that is no leaderboard, which no node has
    TypeOf,       \* the type of each node
    Reached       \* [dependencies, dependents |-> the set of each node]

(* What is left of an expression when it has been parsed.                  *)
IsExpression(links) ==
    /\ links \in Seq(ToSet(links)) /\ links # <<>>
    /\ \A l \in ToSet(links) : /\ l = [term |-> l.term, op |-> l.op]
                               /\ l.op \in {"and", "or", "xor", "none"}

QueryTypes == {"dependencies", "dependents"}
Sets(S) == [is |-> "set", nodes |-> S]
Outcome(what) == [is |-> what, nodes |-> {}]

QueriesOf(term) ==
    IF term.is = "query" THEN {term} ELSE {l.term : l \in ToSet(term.links)}
Queries(script) == UNION {QueriesOf(l.term) : l \in ToSet(script)}

NameIn(query, default) == IF query.name = NoName THEN default ELSE query.name

(* collectPackages: the nodes asked for in one batch.                      *)
Collected(script, type, default) ==
    {NameIn(q, default) : q \in {p \in Queries(script) : p.type = type}}

-----------------------------------------------------------------------------
(* Mutant of Combine: xor removes and does not add.                        *)
MutantCombine(op, S, T) ==
    CASE op = "or" -> S \cup T
      [] op = "and" -> S \cap T
      [] op = "xor" -> S \ T

Combine(op, S, T) ==
    CASE op = "or" -> S \cup T
      [] op = "and" -> S \cap T
      [] op = "xor" -> (S \cup T) \ (S \cap T)

(* iterateExpression: the right-hand side is evaluated, whatever it may    *)
(* raise, only behind an operator; a bitmap that is not there is nil, and  *)
(* all three operations follow it.  The links come with their terms        *)
(* evaluated.                                                              *)
IterateExpression(links) ==
    FoldRight(LAMBDA link, right :
                IF link.term.is # "set" \/ link.op = "none" THEN link.term
                ELSE IF right.is = "nil" THEN Outcome("panic")
                ELSE IF right.is # "set" THEN right
                ELSE Sets(Combine(link.op, link.term.nodes, right.nodes)),
              links, Outcome("nil"))

(* iterateTerm: the nodes of the wanted type.                              *)
IterateQuery(query, default) ==
    IF query.type \notin QueryTypes THEN Outcome("error")
    ELSE Sets({n \in Reached[query.type][NameIn(query, default)] :
                 TypeOf[n] = query.nodeType})

(* A group is evaluated for what it may raise; its value is dropped.       *)
IterateTerm(term, default) ==
    IF term.is = "query" THEN IterateQuery(term, default)
    ELSE LET inner == IterateExpression(
                [k \in DOMAIN term.links |->
                   [term.links[k] EXCEPT !.term = IterateQuery(@, default)]])
         IN  IF inner.is = "set" THEN Sets({}) ELSE inner

(* The batches come first: all names must be known, also those in parts    *)
(* that are not evaluated, and with caches every named node needs one.     *)
(* BatchQueryDependencies follows a missing cache, BatchQueryDependents    *)
(* reports it.                                                             *)
ParseAndExecute(script, default, isCached, caches) ==
    LET dependencies == Collected(script, "dependencies", default)
        dependents == Collected(script, "dependents", default)
    IN  IF ~(dependencies \cup dependents \subseteq Names) THEN Outcome("error")
        ELSE IF isCached /\ ~(dependencies \subseteq caches) THEN Outcome("panic")
        ELSE IF isCached /\ ~(dependents \subseteq caches) THEN Outcome("error")
        ELSE IterateExpression([k \in DOMAIN script |->
                                  [script[k] EXCEPT !.term = IterateTerm(@, default)]])

-----------------------------------------------------------------------------
(* What a script means, node by node: a node is found by a query if it is  *)
(* of the type and reached from the name, by an expression as its operators*)
(* say, which are those of logic, grouped to the right, and by a group if  *)
(* by the expression in its brackets.                                      *)
Holds(op, a, b) == CASE op = "or" -> a \/ b
                     [] op = "and" -> a /\ b
                     [] op = "xor" -> a # b

Means(links, found(_)) ==
    FoldRight(LAMBDA link, right : IF link.op = "none" THEN found(link.term)
                                   ELSE Holds(link.op, found(link.term), right),
              links, FALSE)

FoundByQuery(query, default, n) ==
    n \in Reached[query.type][NameIn(query, default)] /\ TypeOf[n] = query.nodeType

FoundByTerm(term, default, n) ==
    IF term.is = "query" THEN FoundByQuery(term, default, n)
    ELSE Means(term.links, LAMBDA query : FoundByQuery(query, default, n))

Finds(script, default, n) == Means(script, LAMBDA term : FoundByTerm(term, default, n))

(* Scripts that say something: no operator is missing between two terms or *)
(* left without a right-hand side, the queries are known, and so are all   *)
(* names that they ask for.                                                *)
WellFormed(script, default) ==
    LET chain(links) == \A k \in DOMAIN links : (links[k].op = "none") = (k = Len(links))
    IN  /\ chain(script)
        /\ \A l \in ToSet(script) : l.term.is = "group" => chain(l.term.links)
        /\ \A q \in Queries(script) : q.type \in QueryTypes /\ NameIn(q, default) \in Names

HasBrackets(script) == \E l \in ToSet(script) : l.term.is = "group"

(* A script that says something finds exactly what it means, the operands  *)
(* of xor and of nested operators included, with or without caches; a query*)
(* without a name is one of the default name.                              *)
MeansWhatItSays(script, default, isCached) ==
    WellFormed(script, default) =>
        ParseAndExecute(script, default, isCached, Names)
            = Sets({n \in Names : Finds(script, default, n)})

(* Of a script with brackets this is left: if it says something, it is     *)
(* answered.  A script that asks for an unknown name, be it in brackets,   *)
(* fails as a whole.                                                       *)
IsAnswered(script, default, isCached) ==
    LET answer == ParseAndExecute(script, default, isCached, Names)
    IN  /\ WellFormed(script, default) => answer \in [is : {"set"}, nodes : SUBSET Names]
        /\ (\E q \in Queries(script) : /\ q.type \in QueryTypes
                                       /\ NameIn(q, default) \notin Names)
              => answer.is = "error"
=============================================================================
