----------------------------- MODULE MCFetching -----------------------------
(* Two sites, each with a page and a robots.txt that may disallow it, and  *)
(* an address that is none of the web's. A page may take the time of one   *)
(* page's deadline, a feed that of two.                                    *)
EXTENDS Fetching

CONSTANTS p, q, rp, rq, x, public, private

MCSites     == {"P", "Q"}
MCSite      == [u \in Urls |-> IF u \in {q, rq} THEN "Q" ELSE "P"]
MCRobots    == [s \in Sites |-> IF s = "P" THEN rp ELSE rq]
MCRules     == [s \in Sites |-> IF s = "P" THEN {{}, {p}} ELSE {{q}}]
MCFeedPaths == [u \in Urls |-> IF MCSite[u] = "P" THEN {p} ELSE {q}]
=============================================================================
