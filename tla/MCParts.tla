------------------------------- MODULE MCParts ------------------------------
(***************************************************************************)
(* The parts of Sapper that share no state with each other, in one run: a  *)
(* behaviour is one of a machine of module Parts, while all others stay in *)
(* their initial state, or one state that holds an input of one of the     *)
(* pure algorithms.                                                        *)
(***************************************************************************)
EXTENDS Parts, TLC

-----------------------------------------------------------------------------
(* The machines.  Two libraries of one name and a library with a namespace;*)
(* a vulnerability with a GHSA and a CVE name, EPSS files of two days and  *)
(* VEX documents that list the names in either order; a folder with an     *)
(* archive, and folders with something damaged.                            *)
Purl(type, namespace, name, version) ==
    [type |-> type, namespace |-> namespace, name |-> name, version |-> version]
MCLibraryPurls == {Purl("npm", "", "x", 1), Purl("pypi", "", "x", 1), Purl("golang", "g", "x", 2)}
MCResultPurls == {Purl("npm", "", "x", 1), Purl("pypi", "", "x", 1), Purl("npm", "", "x", 2)}

MCVulnNames == <<"GHSA-1", "CVE-1">>
MCEPSSFiles == << [c \in {"CVE-1", "CVE-2"} |-> 1], [c \in {"CVE-1"} |-> 2] >>
MCDocuments == << <<"CVE-1", "GHSA-1">>, <<"GHSA-1", "CVE-1">> >>

File(doc, bad) == [is |-> "json", doc |-> doc, bad |-> bad]
OtherFile == [is |-> "other", bad |-> FALSE]
Archive(entries) == [is |-> "zip", bad |-> FALSE, entries |-> entries]
MCPaths == { <<File("d1", FALSE), OtherFile, Archive(<<OtherFile, File("d2", FALSE)>>)>>,
             <<File("d1", FALSE), File("d2", TRUE)>>,
             <<File("d1", FALSE), Archive(<<File("d2", TRUE)>>)>>,
             <<File("d1", FALSE)>> }

-----------------------------------------------------------------------------
(* Queries: a depends on b and d, of which b is a vulnerability; a script  *)
(* is up to three queries, or up to two terms with groups.                 *)
MCNoName == "-"
MCTypeOf == ("a" :> "library") @@ ("b" :> "vuln") @@ ("d" :> "library")
MCReached == [dependencies |-> [n \in {"a", "b", "d", "-", "e"} |->
                                CASE n = "a" -> {"b", "d"} [] n = "b" -> {"b"} [] OTHER -> {"d"}],
            dependents |-> [n \in {"a", "b", "d", "-", "e"} |->
                                CASE n = "b" -> {"a", "b"} [] n = "d" -> {"a", "d"} [] OTHER -> {"a"}]]
MCNodeNames == {"a", "b", "d"}
MCDefaultNames == {MCNoName, "d"}

Query(type, nodeType, name) ==
    [is |-> "query", type |-> type, nodeType |-> nodeType, name |-> name]
SomeQueries == {Query("dependencies", "library", "a"), Query("dependents", "library", "a"),
                Query("dependents", "vuln", "b"), Query("dependencies", "library", MCNoName)}
OddQueries == {Query("unknown", "library", "a"), Query("dependents", "library", "e")}
Links(terms, n) == {l \in [1..n -> [term : terms, op : {"and", "or", "xor", "none"}]] :
                      \A k \in 1..n : l[k].op = "none" => k = n}
Group(links) == [is |-> "group", links |-> links]
Groups == {Group(l) : l \in Links(SomeQueries \cup OddQueries, 1)
                            \cup Links({Query("dependencies", "library", "a"),
                                        Query("dependents", "library", MCNoName)}, 2)}
MCScripts == Links(SomeQueries, 3) \cup Links(SomeQueries \cup OddQueries \cup Groups, 1)
           \cup Links(SomeQueries \cup OddQueries, 2)
           \cup {<<l[1], m[1]>> : l \in Links(Groups, 1), m \in Links(SomeQueries, 1)}
           \cup {<<l[1], m[1]>> : l \in Links(SomeQueries, 1), m \in Links(Groups, 1)}

(* Globs and names of up to three characters.                              *)
Strings(characters) == UNION {[1..k -> characters] : k \in 1..3}
MCGlobs == Strings({"*", "?", "a", "/", "_", "%"})
MCGlobNames == Strings({"a", "A", "b", "/", "_", "%"})

(* Versions: 1.0a < 1.0rc1 < 1.0 < 1.10 < 1.10.1 for the ranges, and all  *)
(* of up to three segments that begin with a number for the order.         *)
Num(n) == Versions!Num(n)
Word(w) == Versions!Word(w)
MCInOrder == << <<Num(1), Num(0), Word("a")>>, <<Num(1), Num(0), Word("rc"), Num(1)>>,
                <<Num(1), Num(0)>>, <<Num(1), Num(10)>>, <<Num(1), Num(10), Num(1)>> >>
MCRangeEvents ==
    LET events == {[kind |-> "introduced", at |-> <<>>]}
                  \cup [kind : {"introduced", "fixed", "last_affected"}, at : VersionsInOrder]
    IN  {e \in UNION {[1..k -> events] : k \in 0..3} : Versions!NoTies(e)}
Segments == {Num(0), Num(1), Word("a"), Word("rc")}
MCSomeVersions == {v \in UNION {[1..k -> Segments] : k \in 1..3} : ~v[1].word}

(* Graphs of a vulnerability 1 and three other nodes, of which one may have*)
(* been saved after the keys were read, and graphs of five nodes without a *)
(* cycle, where a path may be longer than another; statements about up to  *)
(* two nodes.                                                              *)
Findings == INSTANCE Report
Graphs == {p \in [1..4 -> SUBSET (2..4)] : \A i \in 1..4 : i \notin p[i]}
Ascents == {p \in [1..5 -> SUBSET (2..5)] : \A i \in 1..5 : \A j \in p[i] : i < j}
Statuses(S) == {v \in [S -> {"none", "affected", "fixed"}] :
                  v[1] = "none" /\ Cardinality({i \in S : v[i] # "none"}) <= 2}

(* Up to three findings with the IDs 1 to 3; 4 is only ever an alias.  A   *)
(* name 3 is no alias, and IDs 2 and 3 are ranked before 1.                *)
Rank == [id \in 1..3 |-> IF id = 1 THEN 2 ELSE 0]
SomeFindings ==
    {[id |-> i, names |-> n \cup {i}, severity |-> i, kev |-> i = 2, epss |-> Cardinality(n),
      packages |-> {i}, products |-> {1, 2} \ hidden, suppressed |-> hidden] :
        i \in 1..3, n \in SUBSET {1, 2, 4}, hidden \in {{}, {1}}}
Reports == {f \in UNION {[1..k -> SomeFindings] : k \in 1..3} :
              \A j, k \in DOMAIN f : j # k => f[j].id # f[k].id}

-----------------------------------------------------------------------------
NoInput == [of |-> "nothing"]
Machines == {"storages", "scorecards", "priorities", "commands"}

PartsInit ==
    /\ part \in Machines \cup DOMAIN InputsOf \cup {"findings", "reports"}
    /\ Init /\ (part # "storages" => kind = "redis")
    /\ Scorecards!Init /\ Priorities!Init /\ Commands!Init
    /\ CASE part \in DOMAIN InputsOf -> input \in InputsOf[part]
         [] part = "findings" -> input \in [known : {1..3, 1..4}, parents : Graphs]
                                             \cup [known : {1..5}, parents : Ascents]
         [] part = "reports" -> input \in Reports
         [] OTHER -> input = NoInput

PartsNext ==
    /\ UNCHANGED <<part, input>>
    /\ \/ /\ part = "storages" /\ Next
          /\ UNCHANGED <<scorecards, priorities, commands>>
       \/ /\ part = "scorecards" /\ Scorecards!Next
          /\ UNCHANGED <<vars, priorities, commands>>
       \/ /\ part = "priorities" /\ Priorities!Next
          /\ UNCHANGED <<vars, scorecards, commands>>
       \/ /\ part = "commands" /\ Commands!Next
          /\ UNCHANGED <<vars, scorecards, priorities>>

partsVars == <<part, input, vars, scorecards, priorities, commands>>
PartsSpec == PartsInit /\ [][PartsNext]_partsVars /\ Commands!Fairness

-----------------------------------------------------------------------------
(* A finding lists the products that contain the vulnerability, each with a*)
(* shortest path, and hides those that a statement clears, no others.      *)
FindingsAreRight ==
    part = "findings" =>
        \A statuses \in Statuses(DOMAIN input.parents) :
            LET finding == Findings!BuildFinding(1, input.known, input.parents, statuses)
            IN  /\ Findings!FindingIsRight(1, input.known, input.parents, statuses, finding)
                /\ Findings!PackagesHaveProducts(1, input.known, input.parents, finding)

(* A report asked for by any name of a record is about the whole record.   *)
ReportsAnswerAnyName ==
    part = "reports" => \A name \in 1..4 : Findings!ReportOfName(input, name, Rank)
=============================================================================
