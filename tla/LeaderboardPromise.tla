------------------------- MODULE LeaderboardPromise -------------------------
(***************************************************************************)
(* What a request for a leaderboard promises, without its goroutines and   *)
(* channels.  The nodes to rank are fixed at one moment; the evaluation of *)
(* the script fails for some of them; the answer is an error or a ranking. *)
(***************************************************************************)
EXTENDS Naturals, FiniteSets

CONSTANTS Nodes, Size(_) \* the nodes, and the size of the answer for each

VARIABLES
    asked,   \* the nodes to rank are fixed
    named,   \* which they are
    failed,  \* the nodes whose evaluation failed
    fatal,   \* the nodes whose evaluation cannot but kill the server
    reply,   \* "none", "error" or "ranking"
    ranking, \* the nodes of the answer in order
    crashed  \* the server has died

vars == <<asked, named, failed, fatal, reply, ranking, crashed>>

(* Rankings of the nodes in R: each once, the largest answer first.        *)
Rankings(R) ==
    {r \in [1..Cardinality(R) -> R] :
       /\ \A n \in R : \E k \in DOMAIN r : r[k] = n
       /\ \A k, l \in DOMAIN r : k < l => Size(r[k]) >= Size(r[l])}

Init == /\ ~asked
        /\ named = {} /\ failed = {} /\ fatal = {}
        /\ reply = "none" /\ ranking = <<>> /\ ~crashed

(* The storage may refuse before there is anything to rank.                *)
Refuse ==
    /\ ~asked /\ reply = "none"
    /\ reply' = "error"
    /\ UNCHANGED <<asked, named, failed, fatal, ranking, crashed>>

Ask ==
    /\ ~asked /\ reply = "none"
    /\ asked' = TRUE
    /\ named' \in SUBSET Nodes
    /\ fatal' \in SUBSET named'
    /\ UNCHANGED <<failed, reply, ranking, crashed>>

Evaluate(n) ==
    /\ n \in named \ failed
    /\ failed' = failed \cup {n}
    /\ UNCHANGED <<asked, named, fatal, reply, ranking, crashed>>

(* A failure is reported, or the nodes that failed are left out; no node   *)
(* that could be ranked is.                                                *)
Answer ==
    /\ asked /\ reply = "none"
    /\ \/ /\ failed # {}
          /\ reply' = "error" /\ UNCHANGED ranking
       \/ /\ reply' = "ranking"
          /\ \E R \in SUBSET named : /\ named \ failed \subseteq R
                                     /\ ranking' \in Rankings(R)
    /\ UNCHANGED <<asked, named, failed, fatal, crashed>>

Crash ==
    /\ fatal # {}
    /\ crashed' = TRUE
    /\ UNCHANGED <<asked, named, failed, fatal, reply, ranking>>

Next == Refuse \/ Ask \/ Answer \/ Crash \/ \E n \in Nodes : Evaluate(n)

Spec == Init /\ [][~crashed /\ Next]_vars
=============================================================================
