----------------------------- MODULE MCBuildList -----------------------------
(***************************************************************************)
(* An instance of BuildList for TLC: two pushes to one repository, and a   *)
(* third request, to any, that may be all the handlers have to tell apart. *)
(***************************************************************************)
EXTENDS BuildList

CONSTANTS q1, q2, q3, r1, r2

Plain == [ref |-> 20, inRefs |-> TRUE, sha |-> 40, hex |-> TRUE, author |-> 10,
          message |-> 50, splits |-> FALSE, nul |-> FALSE,
          link |-> 60, https |-> TRUE]

Push == [route |-> "github", push |-> TRUE, authentic |-> TRUE,
         wellFormed |-> TRUE, repo |-> r1, headCommit |-> TRUE, meta |-> Plain]

Metas ==
    {Plain} \cup
    {[Plain EXCEPT !.ref = n, !.inRefs = n # 0] : n \in {0, 255, 256}} \cup
    {[Plain EXCEPT !.sha = n] : n \in {39, 41}} \cup
    {[Plain EXCEPT !.author = n] : n \in {0, 100, 101}} \cup
    {[Plain EXCEPT !.link = n, !.https = n # 0] : n \in {0, 255, 256}} \cup
    {[Plain EXCEPT !.message = n, !.splits = TRUE] : n \in {1000, 1001}} \cup
    {[Plain EXCEPT !.inRefs = FALSE], [Plain EXCEPT !.hex = FALSE],
     [Plain EXCEPT !.nul = TRUE], [Plain EXCEPT !.https = FALSE]}

Sent ==
    {Push, [Push EXCEPT !.repo = "unknown"]} \cup
    {[Push EXCEPT !.repo = r2, !.meta = m] : m \in Metas} \cup
    UNION {LET p == [Push EXCEPT !.repo = r2, !.route = route] IN
           {p, [p EXCEPT !.push = FALSE], [p EXCEPT !.authentic = FALSE],
            [p EXCEPT !.wellFormed = FALSE], [p EXCEPT !.headCommit = FALSE]} :
           route \in {"github", "manual"}}

ThreeRequests == {q1, q2, q3}

TwoPushesAndAny ==
    [q \in ThreeRequests |-> IF q = q3 THEN Sent ELSE {Push}]
=============================================================================
