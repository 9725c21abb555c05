----------------------------- MODULE Algorithms -----------------------------
(***************************************************************************)
(* The pure algorithms of Sapper that are stated for one input each: a     *)
(* behaviour is one state, in which input is one of the inputs of part.    *)
(***************************************************************************)
EXTENDS Integers, Sequences, FiniteSets

CONSTANTS
    \* of QueryLang: the nodes, and what is asked
    NodeNames, NoName, TypeOf, Reached, Scripts, DefaultNames,
    \* of Glob: the patterns, and the names of the storage
    Globs, GlobNames,
    \* of Versions: versions in their true order, lists of events about them,
    \* and versions that are compared
    InOrder, RangeEvents, SomeVersions

VARIABLES
    part,  \* an algorithm
    input  \* of the algorithm

QueryLang == INSTANCE QueryLang WITH Names <- NodeNames
Glob == INSTANCE Glob
Versions == INSTANCE Versions

VersionsInOrder == {InOrder[k] : k \in DOMAIN InOrder}

InputsOf ==
    [queries |-> [script : Scripts, default : DefaultNames, isCached : BOOLEAN],
     globs |-> Globs,
     ranges |-> [version : VersionsInOrder, events : RangeEvents],
     versions |-> SomeVersions \X SomeVersions]
AlgorithmsInit == part \in DOMAIN InputsOf => input \in InputsOf[part]
AlgorithmsSpec == AlgorithmsInit /\ [][FALSE]_<<part, input>>

-----------------------------------------------------------------------------
(* What the grammar of parser.go gives: a script has a term, and so has a  *)
(* group; the walks over the storage find nodes of the storage.            *)
ASSUME QueriesAssumption ==
    /\ \A type \in {"dependencies", "dependents"} : \A n \in NodeNames :
          Reached[type][n] \subseteq NodeNames
    /\ \A s \in Scripts :
          /\ QueryLang!IsExpression(s)
          /\ \A l \in QueryLang!ToSet(s) :
                \/ l.term.is = "query"
                \/ /\ l.term.is = "group" /\ QueryLang!IsExpression(l.term.links)
                   /\ \A m \in QueryLang!ToSet(l.term.links) : m.term.is = "query"

(* Names and globs are sequences of characters, without a backslash.       *)
ASSUME GlobsAssumption ==
    \A s \in Globs \cup GlobNames : s \in Seq(Glob!ToSet(s)) /\ "\\" \notin Glob!ToSet(s)

(* The order of the versions is that of CompareVersions, see               *)
(* VersionsAreOrdered; an event is about one of them.                      *)
ASSUME RangesAssumption ==
    /\ InOrder \in Seq(VersionsInOrder) /\ \A v \in VersionsInOrder : Versions!IsVersion(v)
    /\ \A j, k \in DOMAIN InOrder :
          LET c == Versions!CompareVersions(InOrder[j], InOrder[k])
          IN  (j < k => c < 0) /\ (j = k => c = 0) /\ (j > k => c > 0)
    /\ \A events \in RangeEvents :
          /\ events \in Seq(Versions!ToSet(events)) /\ Versions!NoTies(events)
          /\ \A e \in Versions!ToSet(events) :
                /\ e.kind \in {"introduced", "fixed", "last_affected"}
                /\ e.at \in VersionsInOrder \/ (e.kind = "introduced" /\ e.at = <<>>)

ASSUME VersionsAssumption == \A v \in SomeVersions : Versions!IsVersion(v)

-----------------------------------------------------------------------------
(* Query finds what a script means (api/v1/service.go, parser.go), if it   *)
(* has no brackets; see BracketsGroup.                                     *)
QueriesMeanWhatTheySay ==
    part = "queries" =>
        /\ QueryLang!IsAnswered(input.script, input.default, input.isCached)
        /\ ~QueryLang!HasBrackets(input.script) =>
              QueryLang!MeansWhatItSays(input.script, input.default, input.isCached)

(* Brackets group expressions, as README.md:124 and knowledge.go:18,21 say *)
(* and the code does not: iterateTerm drops the value of a group.          *)
BracketsGroup ==
    part = "queries" => QueryLang!MeansWhatItSays(input.script, input.default, input.isCached)

(* GetNodesByGlob finds what a glob matches, with two exceptions.          *)
GlobsFind == part = "globs" => Glob!GlobFinds(GlobNames, input)

(* The characters that convertGlobToSQLPattern escapes match themselves, as*)
(* its comment wants (sql.go:463) and the code does not do: the statement  *)
(* does not say that the backslash escapes.                                *)
EscapedCharactersMatch == part = "globs" => Glob!EscapesMatch(GlobNames, input)

(* A library is affected by a record exactly if it lies in an interval that*)
(* the events of a range describe, in whatever order they are listed, and  *)
(* whichever of words, missing numbers and zeros its version has.          *)
RangesAreIntervals ==
    part = "ranges" =>
        LET purl == [type |-> "npm", namespace |-> "org", name |-> "x", version |-> input.version]
            entry(name) == [name |-> <<"org", "/", name>>, ecosystem |-> "npm",
                            versions |-> {}, ranges |-> {input.events}]
            affects(name) == Versions!IsPackageAffected({entry(name)}, Versions!PURLToPackage(purl))
        IN  /\ affects("x") = Versions!InRange(input.version, input.events, InOrder)
            /\ ~affects("y")

(* Versions of one kind are ordered by compareVersions.                    *)
VersionsAreOrdered ==
    part = "versions" =>
        \A v \in SomeVersions :
            Versions!Comparable({input[1], input[2], v}) => Versions!Ordered(input[1], input[2], v)
=============================================================================
