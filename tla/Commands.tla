------------------------------ MODULE Commands ------------------------------
(***************************************************************************)
(* The sapper program: the server process, from its start over the signal  *)
(* to its end (cmd/server/server.go), and the commands that call it, each  *)
(* one call at a time, from other processes (cmd/ingest, cmd/query,        *)
(* cmd/leaderboard, cmd/report, cmd/cache and the chat of cmd/llm).        *)
(*                                                                         *)
(* What the server answers is open: a call may succeed, find nothing, fail *)
(* before or after it has stored its document, or never end.               *)
(***************************************************************************)
EXTENDS Naturals, Sequences, SequencesExt

CONSTANTS
    Shells, \* each runs one command after the other
    Paths   \* what ingest commands read: sequences of files

VARIABLES
    server,  \* "off", "starting", "listening", "unbound" or "stopping"
    shell,   \* the command that each shell runs, or ran last
    request, \* the call of each shell that the server has: its document and
             \* how far it is, "running", "stored" or "answered"
    stored   \* the documents stored for the command of each shell

vars == <<server, shell, request, stored>>

Ready(outcome) == [at |-> "ready", outcome |-> outcome]
NoRequest == [at |-> "none"]
Set(s, state) == shell' = [shell EXCEPT ![s] = state]

Init ==
    /\ server = "off"
    /\ shell = [s \in Shells |-> Ready("none")]
    /\ request = [s \in Shells |-> NoRequest]
    /\ stored = [s \in Shells |-> <<>>]

-----------------------------------------------------------------------------
(* LoadDataFromPath of cmd/helpers/fileLoader.go.  A file is by its ending *)
(* a document, an archive of documents, or skipped; each may be damaged,   *)
(* entries of an archive may be too large.  One damaged file is enough for *)
(* an error, though the rest of a directory is read to list all of them.   *)
Damaged == [is |-> "damaged", docs |-> <<>>]
Loaded(docs) == [is |-> "loaded", docs |-> docs]

ReadZipFile(file) ==
    LET documents == SelectSeq(file.entries, LAMBDA e : e.is # "other")
    IN  IF file.bad \/ \E e \in ToSet(file.entries) : e.is # "other" /\ e.bad THEN Damaged
        ELSE Loaded([k \in DOMAIN documents |-> documents[k].doc])

LoadDataFromPath(path) ==
    LET load(f) == CASE f.is = "zip" -> ReadZipFile(f)
                     [] f.is = "json" -> IF f.bad THEN Damaged ELSE Loaded(<<f.doc>>)
                     [] f.is = "other" -> Loaded(<<>>)
    IN  IF \E f \in ToSet(path) : load(f) = Damaged THEN Damaged
        ELSE Loaded(FoldLeft(LAMBDA docs, f : docs \o load(f).docs, <<>>, path))

-----------------------------------------------------------------------------
(* The commands begin.  A command that ingests calls once for each document*)
(* that it has loaded, told counts those whose progress it has printed.    *)
Ingest(s, service, path) ==
    LET load == LoadDataFromPath(path)
    IN  Set(s, CASE load = Damaged -> [at |-> "ready", outcome |-> "error", path |-> path,
                                       told |-> 0]
                 [] load = Loaded(<<>>) -> [at |-> "ready", outcome |-> "success",
                                            path |-> path, told |-> 0]
                 [] OTHER -> [at |-> "call", command |-> service, path |-> path,
                              left |-> load.docs, told |-> 0])

IngestOSV(s, path) == Ingest(s, "IngestVulnerability", path)
IngestSBOM(s, path) == Ingest(s, "IngestSBOM", path)
IngestScorecard(s, path) == Ingest(s, "IngestScorecard", path)

(* KEV, EPSS and VEX: one file and one call.                               *)
IngestData(s, path) ==
    /\ Len(path) = 1 /\ path[1].is = "json"
    /\ Set(s, IF path[1].bad THEN [at |-> "ready", outcome |-> "error", path |-> path, told |-> 0]
              ELSE [at |-> "call", command |-> "IngestData", path |-> path,
                    left |-> <<path[1].doc>>, told |-> 0])

(* The others ask one question, or are refused: an empty script, pattern or*)
(* name is not sent by three of them.                                      *)
Question == "question"
Formats == {"json", "table", "markdown", "unknown"}
Ask(s, command, format) ==
    Set(s, [at |-> "call", command |-> command, format |-> format, left |-> <<Question>>])

QueryCustom(s, empty, format) ==
    IF empty THEN Set(s, Ready("error")) ELSE Ask(s, "Query", format)
GlobSearch(s, empty, format) ==
    IF empty THEN Set(s, Ready("error")) ELSE Ask(s, "GetNodesByGlob", format)
GetMetadata(s, empty, format) ==
    IF empty THEN Set(s, Ready("error")) ELSE Ask(s, "GetNodeByName", format)
LeaderboardCustom(s, format) == Ask(s, "CustomLeaderboard", format)
LeaderboardKeys(s, format) == Ask(s, "AllKeys", format)
Report(s, format) == Ask(s, "Report", format)
Cache(s, clear) == Ask(s, IF clear THEN "Clear" ELSE "Cache", "table")

(* A chat needs a key or an address, and asks the user.                    *)
Chat(s, hasKeyOrAddress) ==
    Set(s, IF hasKeyOrAddress THEN [at |-> "prompt", shown |-> "nothing"] ELSE Ready("error"))

Begin(s) ==
    /\ shell[s].at = "ready"
    /\ \/ \E path \in Paths : IngestOSV(s, path) \/ IngestSBOM(s, path)
                              \/ IngestScorecard(s, path) \/ IngestData(s, path)
       \/ \E empty \in BOOLEAN, format \in Formats :
             QueryCustom(s, empty, format) \/ GlobSearch(s, empty, format)
             \/ GetMetadata(s, empty, format)
       \/ \E format \in Formats :
             LeaderboardCustom(s, format) \/ LeaderboardKeys(s, format) \/ Report(s, format)
       \/ \E b \in BOOLEAN : Cache(s, b) \/ Chat(s, b)
    /\ stored' = [stored EXCEPT ![s] = <<>>]
    /\ UNCHANGED <<server, request>>

-----------------------------------------------------------------------------
(* A turn of the chat.  The user ends it, or asks; the model fails, or its *)
(* answer names one of three calls; anything else is apologised for, and   *)
(* nothing at all gives an empty result.  The history of messages, which   *)
(* grows by three with each turn, is left out.                             *)
ServiceOf == [leaderboard |-> "CustomLeaderboard", query |-> "Query",
              globsearch |-> "GetNodesByGlob"]

Turn(s) ==
    /\ shell[s].at = "prompt"
    /\ \/ Set(s, Ready("success"))  \* exit
       \/ Set(s, Ready("error"))    \* the input ends, the model fails or says nothing
       \/ \E text \in {"apology", "empty"} : Set(s, [at |-> "prompt", shown |-> text])
       \/ \E prefix \in DOMAIN ServiceOf, format \in {"json", "table", "unknown"} :
             Set(s, [at |-> "call", command |-> "Chat", format |-> format,
                     left |-> <<Question>>, service |-> ServiceOf[prefix]])
    /\ UNCHANGED <<server, request, stored>>

(* A call is refused unless the server listens.                            *)
Call(s) ==
    /\ shell[s].at = "call"
    /\ IF server = "listening"
       THEN /\ request' = [request EXCEPT ![s] = [at |-> "running", doc |-> Head(shell[s].left)]]
            /\ Set(s, [shell[s] EXCEPT !.at = "wait"])
       ELSE /\ request' = [request EXCEPT ![s] = [at |-> "answered", reply |-> "error"]]
            /\ Set(s, [shell[s] EXCEPT !.at = "wait"])
    /\ UNCHANGED <<server, stored>>

-----------------------------------------------------------------------------
(* What a command makes of a reply: "answer", "nothing" or "error".        *)
Printed(format, formats) == IF format \in formats THEN "success" ELSE "error"

QueryCustomEnds(reply, format) ==
    IF reply = "answer" THEN Printed(format, {"json", "table"}) ELSE "error"
GlobSearchEnds(reply, format) ==
    IF reply = "answer" THEN Printed(format, {"json", "table"}) ELSE "error"
GetMetadataEnds(reply, format) ==
    IF reply = "answer" THEN Printed(format, {"json", "table"}) ELSE "error"
(* No queries arrive as none at all, which a table cannot show.            *)
LeaderboardCustomEnds(reply, format) ==
    IF reply = "error" THEN "error"
    ELSE Printed(format, IF reply = "nothing" THEN {"json"} ELSE {"json", "table"})
LeaderboardKeysEnds(reply, format) ==
    IF reply = "error" THEN "error"
    ELSE Printed(format, IF reply = "nothing" THEN {"json"} ELSE {"json", "table"})
ReportEnds(reply, format) ==
    IF reply = "error" THEN "error" ELSE Printed(format, {"json", "table", "markdown"})
CacheEnds(reply) == IF reply = "error" THEN "error" ELSE "success"

Outcome(command, reply, format) ==
    CASE command = "Query" -> QueryCustomEnds(reply, format)
      [] command = "GetNodesByGlob" -> GlobSearchEnds(reply, format)
      [] command = "GetNodeByName" -> GetMetadataEnds(reply, format)
      [] command = "CustomLeaderboard" -> LeaderboardCustomEnds(reply, format)
      [] command = "AllKeys" -> LeaderboardKeysEnds(reply, format)
      [] command = "Report" -> ReportEnds(reply, format)
      [] command \in {"Cache", "Clear"} -> CacheEnds(reply)

(* A failed call is shown and the chat goes on.                            *)
ChatShows(reply, format) ==
    CASE reply = "error" -> "failed"
      [] reply = "nothing" -> "nothing found"
      [] OTHER -> IF format = "unknown" THEN "empty" ELSE "results"

(* Mutant of AfterDocument: the next document follows a failed one.        *)
MutantAfterDocument(c, reply) ==
    IF Len(c.left) = 1
    THEN [at |-> "ready", outcome |-> "success", path |-> c.path, told |-> c.told + 1]
    ELSE [c EXCEPT !.at = "call", !.left = Tail(@), !.told = @ + 1]

(* An ingest command stops at the first error.                             *)
AfterDocument(c, reply) ==
    CASE reply = "error" -> [at |-> "ready", outcome |-> "error", path |-> c.path, told |-> c.told]
      [] reply # "error" /\ Len(c.left) = 1 ->
            [at |-> "ready", outcome |-> "success", path |-> c.path, told |-> c.told + 1]
      [] OTHER -> [c EXCEPT !.at = "call", !.left = Tail(@), !.told = @ + 1]

Receive(s) ==
    LET c == shell[s]
        reply == request[s].reply
    IN  /\ request[s].at = "answered"
        /\ Set(s, CASE "path" \in DOMAIN c -> AfterDocument(c, reply)
                    [] c.command = "Chat" -> [at |-> "prompt", shown |-> ChatShows(reply, c.format)]
                    [] OTHER -> Ready(Outcome(c.command, reply, c.format)))
        /\ request' = [request EXCEPT ![s] = NoRequest]
        /\ UNCHANGED <<server, stored>>

-----------------------------------------------------------------------------
(* The server.  Its options are refused before the storage is opened, but  *)
(* for the concurrency, which is checked after; each ends the process.     *)
StorageTypes == {"redis", "sqlite", "other"}
PersistentPreRunE(o) ==
    /\ o.type \in {"redis", "sqlite"}
    /\ o.type = "redis" => o.addr
    /\ o.type = "sqlite" => o.path \/ o.defaultPath
ProvideStorage(o) == o.type \in {"redis", "sqlite"} /\ o.opens
SetupServer(o) == o.concurrency > 0

Options == [type : StorageTypes, addr : BOOLEAN, path : BOOLEAN, defaultPath : BOOLEAN,
            opens : BOOLEAN, concurrency : 0..1]

Start(o) ==
    /\ server = "off"
    /\ PersistentPreRunE(o) /\ ProvideStorage(o) /\ SetupServer(o)
    /\ server' = "starting"
    /\ UNCHANGED <<shell, request, stored>>

(* ListenAndServe, in a goroutine.  If the address cannot be bound, that is*)
(* logged and the process goes on waiting for a signal.                    *)
Listen ==
    /\ server = "starting"
    /\ server' \in {"listening", "unbound"}
    /\ UNCHANGED <<shell, request, stored>>

Signal ==
    /\ server \in {"starting", "listening", "unbound"}
    /\ server' = "stopping"
    /\ UNCHANGED <<shell, request, stored>>

InFlight == {s \in Shells : request[s].at \in {"running", "stored"}}

(* The process ends: calls that it had break off, and fail for the caller. *)
Exit ==
    /\ server' = "off"
    /\ request' = [s \in Shells |-> IF s \in InFlight THEN [at |-> "answered", reply |-> "error"]
                                    ELSE request[s]]
    /\ UNCHANGED <<shell, stored>>

(* Mutant of Stop: it waits until all calls have ended.                    *)
MutantStop ==
    /\ server = "stopping"
    /\ InFlight = {}
    /\ Exit

(* Shutdown waits for the calls, yet no longer than five seconds: with or  *)
(* without them, the process ends.                                         *)
Stop ==
    /\ server = "stopping"
    /\ Exit

Crash ==
    /\ server # "off"
    /\ Exit

(* A handler stores the document, if there is one, and answers; it may     *)
(* fail before and after, and it may hang (FindCycles).                    *)
Store(s) ==
    /\ request[s].at = "running"
    /\ request' = [request EXCEPT ![s] = [at |-> "stored"]]
    /\ stored' = IF request[s].doc = Question THEN stored
                 ELSE [stored EXCEPT ![s] = Append(@, request[s].doc)]
    /\ UNCHANGED <<server, shell>>

Answer(s) ==
    /\ \/ request[s].at = "stored" /\ \E r \in {"answer", "nothing", "error"} :
             request' = [request EXCEPT ![s] = [at |-> "answered", reply |-> r]]
       \/ request[s].at = "running" /\
             request' = [request EXCEPT ![s] = [at |-> "answered", reply |-> "error"]]
    /\ UNCHANGED <<server, shell, stored>>

Serve ==
    \/ \E o \in Options : Start(o)
    \/ Listen \/ Signal \/ Stop \/ Crash
    \/ \E s \in Shells : Store(s) \/ Answer(s)

Next == Serve \/ \E s \in Shells : Begin(s) \/ Turn(s) \/ Call(s) \/ Receive(s)

(* A process that has been told to stop does; a reply reaches its caller.  *)
(* Neither users nor handlers need to do anything.                         *)
Fairness == WF_vars(Stop) /\ \A s \in Shells : WF_vars(Receive(s))
Spec == Init /\ [][Next]_vars /\ Fairness

-----------------------------------------------------------------------------
(* The documents of a file and of a path, damaged or not.                  *)
DocumentsOf(f) ==
    CASE f.is = "zip" -> LET e == SelectSeq(f.entries, LAMBDA x : x.is # "other")
                         IN  [k \in DOMAIN e |-> e[k].doc]
      [] OTHER -> IF f.is = "json" THEN <<f.doc>> ELSE <<>>
Documents(path) == FoldLeft(LAMBDA docs, f : docs \o DocumentsOf(f), <<>>, path)
WasDamaged(path) ==
    \E f \in ToSet(path) :
        \/ f.is # "other" /\ f.bad
        \/ f.is = "zip" /\ \E e \in ToSet(f.entries) : e.is # "other" /\ e.bad

(* An ingest command of a directory tells the truth about it.  When it     *)
(* reports success, the server has stored every document once and in order,*)
(* however often it was restarted meanwhile; at any moment the server has  *)
(* stored what the progress says, and one document more at most; and       *)
(* nothing is stored of a path of which something cannot be read.          *)
IngestTellsTheTruth ==
    \A s \in Shells : "path" \in DOMAIN shell[s] /\ Documents(shell[s].path) # <<>> =>
        LET docs == Documents(shell[s].path)
        IN  /\ shell[s].at = "ready" /\ shell[s].outcome = "success" => stored[s] = docs
            /\ IsPrefix(stored[s], docs)
            /\ Len(stored[s]) \in shell[s].told..(shell[s].told + 1)
            /\ WasDamaged(shell[s].path) => stored[s] = <<>>

(* A signal ends the server, whatever its handlers do, and with it every   *)
(* call that it had: no caller waits for a server that is gone.            *)
StopEndsAll ==
    /\ server = "stopping" ~> server = "off"
    /\ \A s \in Shells : server = "stopping" /\ shell[s].at = "wait" ~> shell[s].at # "wait"
=============================================================================
