-------------------------------- MODULE Glob --------------------------------
(***************************************************************************)
(* GetNodesByGlob of the three storages: which names a glob pattern finds. *)
(* SQL turns the pattern into one for LIKE, Redis gives it to KEYS, and the*)
(* mock storage to filepath.Match.  Names and patterns are sequences of    *)
(* characters; classes in brackets and escapes, which only the latter two  *)
(* know, and backslashes in names are left out.                            *)
(***************************************************************************)
EXTENDS Naturals, Sequences, SequencesExt

(* The parts of a pattern cover a name from position j on, if those from i *)
(* on do.  A part stands for one of the characters in of, or, if it is a   *)
(* star, for any number of them.                                           *)
Covers(parts, name) ==
    LET covers[place \in (1..(Len(parts) + 1)) \X (1..(Len(name) + 1))] ==
          LET i == place[1]
              j == place[2]
              fits == j <= Len(name) /\ name[j] \in parts[i].of
          IN  IF i > Len(parts) THEN j > Len(name)
              ELSE \/ parts[i].star /\ (covers[<<i + 1, j>>] \/ (fits /\ covers[<<i, j + 1>>]))
                   \/ ~parts[i].star /\ fits /\ covers[<<i + 1, j + 1>>]
    IN  covers[<<1, 1>>]

Lower(c) == CASE c = "A" -> "a" [] OTHER -> c

(* What a glob is: * stands for any characters, ? for one, others for      *)
(* themselves.                                                             *)
Matches(pattern, name) ==
    Covers([k \in DOMAIN pattern |->
              [star |-> pattern[k] = "*",
               of |-> IF pattern[k] \in {"*", "?"} THEN ToSet(name) ELSE {pattern[k]}]], name)

(* LIKE of SQLite: % and _ are the wildcards, upper and lower case are one.*)
(* The statement has no ESCAPE clause (sql.go:20), so that a backslash is a*)
(* character like any other.                                               *)
Like(pattern, name) ==
    Covers([k \in DOMAIN pattern |->
              [star |-> pattern[k] = "%",
               of |-> IF pattern[k] \in {"%", "_"} THEN ToSet(name)
                      ELSE {c \in ToSet(name) : Lower(c) = Lower(pattern[k])}]], name)

(* Mutant of ConvertGlobToSQLPattern: LIKE's own wildcards stay wildcards. *)
MutantConvertGlobToSQLPattern(pattern) ==
    [k \in DOMAIN pattern |-> CASE pattern[k] = "*" -> "%"
                                [] pattern[k] = "?" -> "_"
                                [] OTHER -> pattern[k]]

ConvertGlobToSQLPattern(pattern) ==
    FoldLeft(LAMBDA out, c : out \o (CASE c = "*" -> <<"%">>
                                       [] c = "?" -> <<"_">>
                                       [] c \in {"%", "_"} -> <<"\\", c>>
                                       [] OTHER -> <<c>>),
             <<>>, pattern)

SQLGetNodesByGlob(names, pattern) ==
    {n \in names : Like(ConvertGlobToSQLPattern(pattern), n)}

RedisGetNodesByGlob(names, pattern) == {n \in names : Matches(pattern, n)}

(* filepath.Match: neither wildcard covers a slash.                        *)
MockGetNodesByGlob(names, pattern) ==
    LET parts(name) ==
            [k \in DOMAIN pattern |->
               [star |-> pattern[k] = "*",
                of |-> IF pattern[k] \in {"*", "?"} THEN ToSet(name) \ {"/"} ELSE {pattern[k]}]]
    IN  {n \in names : Covers(parts(n), n)}

-----------------------------------------------------------------------------
Folded(s) == [k \in DOMAIN s |-> Lower(s[k])]
Literal(pattern) == \A c \in ToSet(pattern) : c \notin {"*", "?"}

(* A glob finds the names that it matches, in the SQL storage also those   *)
(* that differ in case; nothing that it does not match is found, though    *)
(* names and globs hold the wildcards of LIKE.  Only these may be missed:  *)
(* in the SQL storage names that such a wildcard in the glob stands for, in*)
(* the mock storage names with a slash.                                    *)
GlobFinds(names, pattern) ==
    LET matched == RedisGetNodesByGlob(names, pattern)
        folded == {n \in names : Matches(Folded(pattern), Folded(n))}
        sql == SQLGetNodesByGlob(names, pattern)
        mock == MockGetNodesByGlob(names, pattern)
    IN  /\ sql \subseteq folded
        /\ ToSet(pattern) \cap {"%", "_"} = {} => sql = folded
        /\ mock \subseteq matched
        /\ \A n \in matched \ mock : "/" \in ToSet(n) /\ ~Literal(pattern)

(* The wildcards of LIKE in a glob are escaped, so that it finds what it   *)
(* matches whether or not it spells one out.                               *)
EscapesMatch(names, pattern) ==
    RedisGetNodesByGlob(names, pattern) \subseteq SQLGetNodesByGlob(names, pattern)
=============================================================================
