---------------------------- MODULE MCExperiments ----------------------------
(* Three conditions over up to three queries for Experiments. *)
EXTENDS Experiments

\* Two-sided p-values, in hundredths, one of them higher where queries tie
MCPValue(n, wins, losses) ==
    LET m == IF wins > losses THEN wins ELSE losses
    IN IF wins = losses THEN 100
       ELSE CASE m = 1 -> 90 [] m = 2 /\ n = 3 -> 70 [] m = 2 -> 40 [] m = 3 -> 20 [] OTHER -> 10

MCGrid == <<2, 1, 3>>

MCBaselines == {0, 1, 9}

\* A query's score under each condition; -1 where no chunk answers it
Outcome(queries) ==
    [c \in 1..3 |-> [q \in {i \in 1..3 : queries[i][c] # -1} |-> queries[q][c]]]

\* Wins and losses of every number, ties, and queries dropped under some conditions
MCOutcomes ==
    {Outcome(<<<<0, 1, 0>>, y, z>>) :
        y \in {<<0, 1, 0>>, <<1, 0, 1>>}, z \in {<<0, 1, 0>>, <<0, 1, 1>>, <<1, -1, -1>>}}
        \cup {Outcome(<<<<1, -1, 0>>, <<-1, 0, 1>>, z>>) : z \in {<<0, 1, -1>>, <<0, 0, 1>>}}
=============================================================================
