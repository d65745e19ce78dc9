-------------------------- MODULE MCCompatibleFetch --------------------------
(* Instances of CompatibleFetch for TLC. *)
EXTENDS CompatibleFetch, TLC

CONSTANTS p1, p2, c1, c2

(* Two commits with the same two blobs under exchanged names; the second   *)
(* key is opaque.                                                          *)
Trees == (c1 :> <<1, 2>>) @@ (c2 :> <<2, 1>>)

Job(o, c, s, y) == [op |-> o, commit |-> c, paths |-> s, symbolic |-> y]
Both == {1, 2}
Budget(o, a, d, f, k) == [ops |-> o, adds |-> a, damages |-> d, faults |-> f, crashes |-> k]
Opening(one, two, b) == [work |-> (p1 :> one) @@ (p2 :> two), budget |-> b]

PublishBoth(c) == {Job("publish", c, Both, TRUE)}
PublishTwo(c) == {Job("publish", c, {2}, TRUE)}
ImportOne(c) == {Job("import", c, {2}, FALSE)}
Reads == {Job("open", None, Both, TRUE), Job("import", None, Both, TRUE)}

GivenPlans ==
    {Opening(PublishBoth(c1), PublishBoth(c2), Budget(2, 0, 0, 0, 0)),
     Opening(PublishBoth(c1), {}, Budget(1, 2, 1, 0, 0)),
     Opening(PublishBoth(c1), {}, Budget(2, 1, 0, 1, 0)),
     Opening(PublishBoth(c1), Reads, Budget(3, 0, 0, 0, 1)),
     Opening(PublishTwo(c1), Reads, Budget(3, 0, 1, 0, 0)),
     Opening(PublishTwo(c1), ImportOne(c1), Budget(2, 1, 0, 0, 0)),
     Opening(PublishTwo(c1), {Job("open", None, {2}, TRUE)}, Budget(2, 1, 1, 0, 0)),
     Opening(PublishTwo(c1), {Job("publish", c2, {1}, FALSE)}, Budget(2, 0, 1, 0, 0))}

(* Pages of no more than two entries, on the hub's origin; another origin  *)
(* and a URL without https are where a redirect or a link may lead.        *)
hub(n) == [origin |-> "hub", secure |-> TRUE, n |-> n]
Urls == {hub(0), hub(1), hub(2), [origin |-> "cdn", secure |-> TRUE, n |-> 0],
         [origin |-> "hub", secure |-> FALSE, n |-> 0]}
FirstPage == hub(0)
Revisions == hub(2)
Pages == {<<>>, <<1>>, <<2, Directory>>, <<1, 2>>, <<Malformed>>}

(* The names of the two paths are a/b and b.                               *)
Letters == {"a", "b", "/"}
Names == <<<<"a", "/", "b">>, <<"b">>>>

oneOf(S) == [star |-> FALSE, chars |-> S]
one(c) == oneOf({c})
any == oneOf(Letters)
star == [star |-> TRUE, chars |-> {}]
Tokens == {star, one("a"), one("b"), one("/"), any, oneOf({"a", "/"})}
Patterns == {<<>>, <<star, star, one("b")>>, <<any, any, any>>} \cup {<<s, t>> : s, t \in Tokens}

Request(v, e, a, i) == [revision |-> v, every |-> e, allow |-> a, ignore |-> i]
Globs == {Request(c1, FALSE, {g}, {}) : g \in Patterns}
Fetches ==
    {Request("main", TRUE, {}, {}), Request("main", TRUE, {}, {<<one("a"), one("/")>>}),
     Request(c1, FALSE, {<<star, one("b")>>, <<one("b")>>}, {<<any, star, any>>})}
AllRequests == Globs \cup Fetches

(* Openings that only plan, and one that plans and publishes.              *)
Plan == Opening({}, {}, Budget(0, 0, 0, 0, 0))
PlanAndPublish ==
    Opening({Job("publish", c, s, y) : c \in Commit, s \in Selection, y \in BOOLEAN}, {},
            Budget(1, 0, 0, 1, 0))
AllOpenings == GivenPlans \cup {Plan, PlanAndPublish}
Asking == [o \in AllOpenings |->
    CASE o = Plan -> Globs [] o = PlanAndPublish -> Fetches [] OTHER -> {}]
==============================================================================
