------------------------------ MODULE Versions ------------------------------
(***************************************************************************)
(* Which versions of which packages an OSV record affects: the versions of *)
(* ECOSYSTEM ranges and their order, the events of a range, and the name   *)
(* and ecosystem of a purl (pkg/tools/ingest/vuln.go and helpers.go).      *)
(*                                                                         *)
(* A version is the sequence of its segments (versionSegments): runs of    *)
(* digits, which are numbers, and runs of letters, which are words.  Words *)
(* are given by their place in the alphabet, see Word.                     *)
(***************************************************************************)
EXTENDS Integers, Sequences, FiniteSets, SequencesExt

Vocabulary == <<"a", "p", "post", "rc">>
Num(n) == [word |-> FALSE, value |-> n]
Word(w) == [word |-> TRUE, value |-> CHOOSE k \in DOMAIN Vocabulary : Vocabulary[k] = w]

(* A version has a segment.                                                *)
IsVersion(v) ==
    /\ v \in Seq(ToSet(v)) /\ v # <<>>
    /\ \A s \in ToSet(v) :
          \/ s = Num(s.value) /\ s.value \in Nat
          \/ s = [word |-> TRUE, value |-> s.value] /\ s.value \in DOMAIN Vocabulary

IsPostRelease(s) == s.word /\ Vocabulary[s.value] \in {"p", "post", "pl", "patch"}

(* Mutant of NumberAfterWord: a number comes before any word.              *)
MutantNumberAfterWord(word) == FALSE

(* 1.0.1 comes after 1.0rc1 and before 1.0post1.                           *)
NumberAfterWord(word) == ~IsPostRelease(word)

(* naturalCompare: the first segment in which the two differ decides, -1   *)
(* for "before", 1 for "after".  A version that ends comes after a word    *)
(* that marks a pre-release, and before anything else.                     *)
Sign(b) == IF b THEN 1 ELSE -1

NaturalCompare(a, b) ==
    LET longer == IF Len(a) > Len(b) THEN a ELSE b
        shorter == IF Len(a) > Len(b) THEN Len(b) ELSE Len(a)
        differ == {i \in 1..shorter : a[i] # b[i]}
        i == CHOOSE k \in differ : \A l \in differ : k <= l
        endsAfter == longer[shorter + 1].word /\ ~IsPostRelease(longer[shorter + 1])
    IN  CASE differ # {} /\ a[i].word = b[i].word -> Sign(a[i].value > b[i].value)
          [] differ # {} /\ a[i].word /\ ~b[i].word -> Sign(~NumberAfterWord(a[i]))
          [] differ # {} /\ ~a[i].word /\ b[i].word -> Sign(NumberAfterWord(b[i]))
          [] differ = {} /\ Len(a) = Len(b) -> 0
          [] OTHER -> Sign((Len(a) < Len(b)) = endsAfter)

(* compareEcosystemVersions: the semver library reads one to three numbers *)
(* and fills up with zeros; versions with a dash or a plus are left out.   *)
IsSemver(v) == Len(v) \in 1..3 /\ \A k \in DOMAIN v : ~v[k].word
Triple(v) == [k \in 1..3 |-> IF k <= Len(v) THEN v[k] ELSE Num(0)]

CompareVersions(a, b) ==
    IF IsSemver(a) /\ IsSemver(b) THEN NaturalCompare(Triple(a), Triple(b))
    ELSE NaturalCompare(a, b)

-----------------------------------------------------------------------------
(* Ranges.  An event has one field, introduced, fixed or last_affected,    *)
(* and its version; at = <<>> stands for the introduced "0".               *)
Beginning(e) == e.kind = "introduced" /\ e.at = <<>>

Earlier(e, f) ==
    IF Beginning(e) \/ Beginning(f) THEN Beginning(e) /\ ~Beginning(f)
    ELSE CompareVersions(e.at, f.at) < 0

(* Mutant of SortRangeEvents: the events are taken as they are listed.     *)
MutantSortRangeEvents(events) == events

(* A stable sort: an event goes behind those that it is not earlier than.  *)
SortRangeEvents(events) ==
    FoldLeft(LAMBDA sorted, e :
               InsertAt(sorted,
                        1 + Cardinality({k \in DOMAIN sorted : ~Earlier(e, sorted[k])}), e),
             <<>>, events)

IsVersionInRange(version, events) ==
    LET reached(e) ==
          CASE e.kind = "introduced" -> Beginning(e) \/ CompareVersions(version, e.at) >= 0
            [] e.kind = "fixed" -> CompareVersions(version, e.at) >= 0
            [] e.kind = "last_affected" -> CompareVersions(version, e.at) > 0
    IN  FoldLeft(LAMBDA vulnerable, e : IF reached(e) THEN e.kind = "introduced"
                                        ELSE vulnerable,
                 FALSE, SortRangeEvents(events))

(* A purl as the names that OSV uses; some of the types in the table.      *)
PURLEcosystem(purl) ==
    CASE purl.type = "maven" -> "Maven"
      [] purl.type = "golang" -> "Go"
      [] purl.type = "npm" -> "npm"
      [] purl.type = "pypi" -> "PyPI"
      [] purl.type = "deb" /\ purl.namespace = "debian" -> "Debian"
      [] OTHER -> <<purl.type, purl.namespace>>

PURLToPackage(purl) ==
    LET ecosystem == PURLEcosystem(purl)
        separator == IF ecosystem = "Maven" THEN ":" ELSE "/"
    IN  [ecosystem |-> ecosystem, version |-> purl.version,
         name |-> IF purl.namespace = "" \/ ecosystem = "Debian" THEN <<purl.name>>
                  ELSE <<purl.namespace, separator, purl.name>>]

IsPackageAffected(affected, pkg) ==
    \E a \in affected :
        /\ a.name = pkg.name /\ a.ecosystem = pkg.ecosystem
        /\ \/ pkg.version \in a.versions
           \/ \E events \in a.ranges : IsVersionInRange(pkg.version, events)

-----------------------------------------------------------------------------
(* What OSV means by a range, for versions in their true order InOrder: a  *)
(* version is affected from some introduced event on, up to but without    *)
(* the next fixed version, or with the next last affected one.             *)
InRange(version, events, InOrder) ==
    LET place(v) == IF v = <<>> THEN 0
                    ELSE CHOOSE k \in DOMAIN InOrder : InOrder[k] = v
        v == place(version)
        at(kind) == {place(e.at) : e \in {f \in ToSet(events) : f.kind = kind}}
    IN  \E i \in at("introduced") :
            /\ i <= v
            /\ \A f \in at("fixed") : ~(i < f /\ f <= v)
            /\ \A l \in at("last_affected") : ~(i <= l /\ l < v)

(* No two events of one version, but that one version alone may be         *)
(* affected: its introduced event is listed before the last affected one.  *)
NoTies(events) ==
    \A k, l \in DOMAIN events :
        k < l /\ events[k].at = events[l].at =>
            events[k].kind = "introduced" /\ events[l].kind = "last_affected"

(* Versions that one order sorts: those that begin with equally many       *)
(* numbers, or have no number zero, and no word for a post-release.  Others*)
(* it may not: 1.0.0a < 1.0.0 = 1.0 < 1.0.0a and 1post < 1rc < 1 < 1post.  *)
Leading(v) == Cardinality({k \in DOMAIN v : \A l \in 1..k : ~v[l].word})
Comparable(V) ==
    /\ \A v \in V : \A k \in DOMAIN v : ~IsPostRelease(v[k])
    /\ \/ \A v, w \in V : Leading(v) = Leading(w)
       \/ \A v \in V : \A k \in DOMAIN v : v[k] # Num(0)

(* On them comparing is an order that a stable sort may rely on: never both*)
(* ways, and a chain of comparisons says what comparing its ends says.     *)
Ordered(a, b, c) ==
    /\ CompareVersions(a, b) = 0 - CompareVersions(b, a)
    /\ CompareVersions(a, b) <= 0 /\ CompareVersions(b, c) <= 0 =>
          /\ CompareVersions(a, c) <= 0
          /\ CompareVersions(a, b) < 0 \/ CompareVersions(b, c) < 0 =>
                CompareVersions(a, c) < 0
=============================================================================
