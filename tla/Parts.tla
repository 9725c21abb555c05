-------------------------------- MODULE Parts -------------------------------
(***************************************************************************)
(* The machines of Sapper that share no state with each other, in one      *)
(* module: the storages, a scorecard request, the data that ranks          *)
(* vulnerabilities, and the processes.  The storages and the pure          *)
(* algorithms come with EXTENDS, the others as instances.                  *)
(***************************************************************************)
EXTENDS Storages, Algorithms

CONSTANTS
    LibraryPurls, ResultPurls, Other,         \* of Scorecards
    CVEs, VulnNames, EPSSFiles, VEXDocuments, \* of Priorities
    Shells, Paths                             \* of Commands

VARIABLES
    children, parents, ingest, copies, answered, settled,
    recorded, kev, epss, vex, store, listed, scored, due, stated,
    server, shell, request, stored

scorecards == <<children, parents, ingest, copies, answered, settled>>
priorities == <<recorded, kev, epss, vex, store, listed, scored, due, stated>>
commands == <<server, shell, request, stored>>

Scorecards == INSTANCE Scorecards
Priorities == INSTANCE Priorities WITH Documents <- VEXDocuments
Commands == INSTANCE Commands

(* What other requests make a library depend on is no result of this one.  *)
ASSUME OtherAssumption == Other \notin ResultPurls

(* A record has a name, and a document lists names; scores are numbers, and*)
(* so are documents, since 0 stands for none.                              *)
ASSUME PrioritiesAssumption ==
    /\ VulnNames \in Seq(Priorities!ToSet(VulnNames)) /\ VulnNames # <<>>
    /\ \A f \in DOMAIN EPSSFiles : \A c \in CVEs \cap DOMAIN EPSSFiles[f] :
          EPSSFiles[f][c] \in Nat
    /\ DOMAIN VEXDocuments \subseteq Nat \ {0}
    /\ \A d \in DOMAIN VEXDocuments : VEXDocuments[d] \in Seq(Priorities!ToSet(VEXDocuments[d]))

(* A path is a sequence of files, of which one holds a sequence of         *)
(* documents; a question is no document.                                   *)
ASSUME PathsAssumption ==
    \A path \in Paths :
        /\ path \in Seq(Commands!ToSet(path))
        /\ \A f \in Commands!ToSet(path) :
              LET docs == Commands!DocumentsOf(f)
              IN  /\ f.is \in {"json", "zip", "other"}
                  /\ docs \in Seq(Commands!ToSet(docs)) /\ Commands!Question \notin Commands!ToSet(docs)

-----------------------------------------------------------------------------
(* What a successful request says is linked is linked at both ends, and    *)
(* only that, see Scorecards.                                              *)
ResultsAreLinked == Scorecards!ResultsAreLinked

(* A report finds the KEV entries and scores that were ingested, see       *)
(* Priorities.                                                             *)
ScoresFollowRecords == Priorities!ScoresFollowRecords

(* A report goes by the last VEX document, see Priorities.                 *)
LastStatementCounts == Priorities!LastStatementCounts

(* What an ingest command says of its documents is true, see Commands.     *)
IngestTellsTheTruth == Commands!IngestTellsTheTruth

(* A signal ends the server and every call, see Commands.                  *)
StopEndsAll == Commands!StopEndsAll
=============================================================================
