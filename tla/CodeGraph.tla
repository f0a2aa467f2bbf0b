------------------------------- MODULE CodeGraph --------------------------------
(*****************************************************************************)
(* The code graph of a snapshot and what a change of code can affect         *)
(* (graphify_adapter.py).  A node is a symbol with a file of its own, so the *)
(* content of a node, of its file and of its symbol are one.  What a node    *)
(* calls follows from its content.                                           *)
(*****************************************************************************)
EXTENDS Naturals, FiniteSets

CONSTANTS
    Node,
    Content,
    Absent,         \* what a node is that is not in a snapshot
    Calls,          \* of a node with a content: the nodes it calls
    Hops,           \* maximum_reverse_dependency_depth
    NodeLimit       \* maximum_reverse_dependency_nodes

ASSUME GraphAssumption ==
    /\ IsFiniteSet(Node)
    /\ Absent \notin Content
    /\ Calls \in [Node \X Content -> SUBSET Node]
    /\ Hops \in Nat \ {0} /\ NodeLimit \in Nat \ {0}

(* A snapshot: the content of every node.                                    *)
Code == [Node -> Content \cup {Absent}]

Nodes(c) == {n \in Node : c[n] # Absent}

(* An edge with its identity, of which the caller's content is a part.       *)
Edges(c) ==
    {e \in [from : Nodes(c), content : Content, to : Nodes(c)] :
        e.content = c[e.from] /\ e.to \in Calls[<<e.from, c[e.from]>>]}

Neighborhood(c, n) == {e \in Edges(c) : n \in {e.from, e.to}}

Callers(c, S) == {e.from : e \in {x \in Edges(c) : x.to \in S}}

ChangedNodes(old, new) == {n \in Node : old[n] # new[n]}

ChangedEdges(old, new) ==
    (Edges(old) \ Edges(new)) \cup (Edges(new) \ Edges(old))

(* The callers of S, their callers, and so on for Hops rounds.               *)
CallersWithin(c, S) ==
    LET round[k \in 0..Hops] ==
            IF k = 0 THEN S ELSE round[k - 1] \cup Callers(c, round[k - 1])
    IN  round[Hops]

(* The same walk with its limits: it stops before a round that would pass    *)
(* NodeLimit.                                                                *)
FanOut(c, S) ==
    LET next(p) == Callers(c, p.frontier) \ p.reached
        round[k \in 0..Hops] ==
            IF k = 0
            THEN [reached |-> S, frontier |-> S]
            ELSE LET p == round[k - 1]
                 IN  IF /\ next(p) # {}
                        /\ Cardinality(p.reached) + Cardinality(next(p)) > NodeLimit
                     THEN p
                     ELSE [reached |-> p.reached \cup next(p), frontier |-> next(p)]
    IN  round[Hops]

(* It gave up where the last nodes it reached still have callers: then       *)
(* nothing can be called unaffected.                                         *)
Truncated(c, S) == Callers(c, FanOut(c, S).frontier) # {}

Touched(old, new) ==
    ChangedNodes(old, new)
    \cup UNION {{e.from, e.to} : e \in ChangedEdges(old, new)}

(* Whether evidence that refers to the nodes refs is affected by a delta.    *)
Affected(refs, old, new) ==
    \/ Truncated(new, Touched(old, new))
    \/ refs \cap FanOut(new, Touched(old, new)).reached # {}

(* Whether what was recorded of the nodes refs in old is what new has.       *)
SameEvidence(refs, old, new) ==
    \A n \in refs : /\ n \in Nodes(new)
                    /\ new[n] = old[n]
                    /\ Neighborhood(new, n) = Neighborhood(old, n)

================================================================================
