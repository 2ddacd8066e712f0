----------------------------- MODULE MCPipeline -----------------------------
(***************************************************************************)
(* Worlds for TLC: text recalls that run to the end of the pipeline under  *)
(* every small budget; themes, neighbourhoods and edges that end at the    *)
(* first model call, for which they have no budget.                        *)
(***************************************************************************)
EXTENDS Pipeline

Alone == [c \in Claims |-> <<>>]
NoEdges == [p \in Pairs |-> {}]

Plain ==
  [theme |-> FALSE, found |-> <<2, 1, 3>>, dim |-> [c \in Claims |-> 1],
   rel |-> [c \in Claims |-> 50], cos |-> [a \in Claims |-> [b \in Claims |-> 0]],
   allowed |-> Claims, next |-> Alone, relevant |-> Claims, readable |-> Claims,
   hops |-> 2, size |-> 4, edges |-> NoEdges, budget |-> 0, review |-> FALSE]

\* Two clusters of three claims at most, every budget up to one call more than
\* the retries can spend.
Written ==
  {[Plain EXCEPT !.budget = b, !.review = r, !.allowed = a] :
     b \in 0..7, r \in BOOLEAN, a \in {{}, {3}, {1, 2, 3}}}

\* Candidates 1 to 3 with every likeness on both sides of the threshold.
Likeness == {0, 90, 95}
CosOf(f) ==
  [a \in Claims |-> [b \in Claims |->
     IF a = b THEN 100 ELSE IF <<a, b>> \in DOMAIN f THEN f[<<a, b>>]
     ELSE IF <<b, a>> \in DOMAIN f THEN f[<<b, a>>] ELSE 0]]
Themes ==
  {[Plain EXCEPT !.theme = TRUE, !.cos = CosOf(f), !.dim = d, !.rel = r,
                 !.allowed = {1, 2}] :
     f \in [{<<1, 2>>, <<1, 3>>, <<2, 3>>} -> Likeness],
     d \in {<<1, 1, 1, 1, 1>>, <<1, 2, 1, 1, 1>>, <<1, 0, 1, 1, 1>>, <<0, 0, 0, 0, 0>>},
     r \in {<<90, 80, 80, 0, 0>>, <<50, 50, 50, 0, 0>>, <<40, 90, 70, 0, 0>>}}

\* One seed or two, and a claim (4) the first reaches in two steps and the
\* second in one.
Neighbourhoods ==
  {[Plain EXCEPT !.found = f, !.next = <<n1, n2, n3, n4, <<>>>>, !.relevant = r,
                 !.hops = h, !.size = s, !.readable = Claims \ u] :
     f \in {<<1>>, <<1, 2>>}, n1 \in {<<>>, <<3>>, <<3, 4>>}, n2 \in {<<>>, <<4>>},
     n3 \in {<<>>, <<4>>, <<1, 5>>}, n4 \in {<<5>>, <<2>>},
     r \in {Claims, Claims \ {3}}, h \in 1..2, s \in {3, 6}, u \in {{}, {5}}}

\* Every graph of supports and contradictions between four claims, and some of
\* three with the other types and with edges both ways.
EdgeSets == {{}, {"supports"}, {"contradicts"}}
MixedSets == {{"corroborates", "contradicts"}, {"methodology"}, {"supersedes"}}
Upward == {p \in Pairs : p[1] < p[2] /\ p[2] # 5}
Graphs ==
  {[Plain EXCEPT !.found = <<1, 2, 3, 4>>, !.edges = e] :
     e \in {[p \in Pairs |-> IF p \in Upward THEN g[p] ELSE {}] : g \in [Upward -> EdgeSets]}
           \cup {[NoEdges EXCEPT ![<<1, 2>>] = x, ![<<2, 3>>] = y, ![<<1, 3>>] = z] :
                   x, y, z \in MixedSets}
           \cup {[NoEdges EXCEPT ![<<1, 2>>] = x, ![<<2, 1>>] = y, ![<<3, 2>>] = z] :
                   x, y, z \in EdgeSets}}

MCWorlds == Written \cup Themes \cup Neighbourhoods \cup Graphs
=============================================================================
