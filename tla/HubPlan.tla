-------------------------------- MODULE HubPlan --------------------------------
(***************************************************************************)
(* How a request becomes a plan (hub_protocol.rs, transport.rs,            *)
(* fetch_plan.rs, cache/filter.rs): the revision is resolved to a commit,  *)
(* the pages of the commit's tree are retrieved, redirects are followed,   *)
(* and the filter selects the files. The server answers as it likes.       *)
(***************************************************************************)
EXTENDS Naturals, Sequences, FiniteSets

CONSTANTS
    File,           \* repository paths
    Character,      \* the characters of their names
    Name,           \* Name[x]: the name of path x, a sequence of characters
    Separator,      \* the character between the parts of a name
    Commits,        \* commit hashes
    Url,            \* records with an origin and whether the scheme is https
    TreeUrl,        \* the first page of the tree
    RevisionUrl,    \* where a symbolic revision is resolved
    MaxPages,       \* MAX_TREE_PAGES
    MaxFiles,       \* MAX_TREE_FILES
    MaxRedirects,
    Requests,       \* what may be asked: a revision and a filter
    PageEntries,    \* the sequences of entries a page may have
    Directory, Malformed, None

(* A pattern is a sequence of tokens: a star, or one character of a set    *)
(* (a literal, a question mark or a character class).                      *)
Token == [star : BOOLEAN, chars : SUBSET Character]
Star == [star |-> TRUE, chars |-> {}]
OneOf(S) == [star |-> FALSE, chars |-> S]

(* A tree entry is a file, a directory, or malformed.                      *)
Entries == File \cup {Directory, Malformed}

(* What the constants are; whoever composes this module assumes it.        *)
PlanConstants ==
    /\ Name \in [File -> Seq(Character)]
    /\ \A u \in Url : u.origin \in STRING /\ u.secure \in BOOLEAN
    /\ TreeUrl \in Url /\ RevisionUrl \in Url /\ None \notin Url
    /\ MaxPages \in Nat \ {0} /\ MaxFiles \in Nat /\ MaxRedirects \in Nat
    /\ \A r \in Requests :
           /\ r.revision \in Commits \cup {"main"}
           /\ r.allow \subseteq Seq(Token) /\ r.every \in BOOLEAN /\ r.ignore \subseteq Seq(Token)
    /\ PageEntries \subseteq Seq(Entries)

VARIABLES
    stage,          \* what the next response answers
    request,
    commit,         \* None, or the resolved commit
    visited,        \* pages requested so far
    trail,          \* the URLs the current request has been sent to, in order
    files,          \* the file entries received: page, place and path
    served,         \* the pages received, to state the properties
    outcome         \* None, or the plan or the kind of error

planVars == <<stage, request, commit, visited, trail, files, served, outcome>>

(***************************************************************************)
(* The filter                                                              *)
(***************************************************************************)
(* normalize_pattern: a pattern that names a directory selects its files.  *)
Normalized(pattern) ==
    IF pattern # <<>> /\ pattern[Len(pattern)] = OneOf({Separator})
    THEN Append(pattern, Star) ELSE pattern

(* compile_normalized: a star right after a star adds nothing.             *)
Kept(pattern) == {i \in DOMAIN pattern : ~(pattern[i].star /\ i > 1 /\ pattern[i - 1].star)}
Rank(pattern, k) == Cardinality({j \in Kept(pattern) : j <= k})
Compiled(pattern) ==
    [i \in 1 .. Cardinality(Kept(pattern)) |->
        pattern[CHOOSE k \in Kept(pattern) : Rank(pattern, k) = i]]

(* One row of Pattern::matches: the lengths of name that the tokens so far *)
(* can stand for, from those of the tokens before.                         *)
RowOfOneStep(token, name, before) ==
    IF token.star THEN before \cup {i + 1 : i \in before \ {Len(name)}}
    ELSE {i + 1 : i \in {k \in before : k < Len(name) /\ name[k + 1] \in token.chars}}

Row(token, name, before) ==
    IF token.star THEN {i \in 0 .. Len(name) : \E k \in before : k <= i}
    ELSE {i + 1 : i \in {k \in before : k < Len(name) /\ name[k + 1] \in token.chars}}

Rows(tokens, name) ==
    LET rows[i \in 0 .. Len(tokens)] ==
            IF i = 0 THEN {0} ELSE Row(tokens[i], name, rows[i - 1]) IN
    rows

Matches(pattern, name) ==
    LET tokens == Compiled(Normalized(pattern)) IN
    Len(name) \in Rows(tokens, name)[Len(tokens)]

(* RepositoryFilter::includes; every means that there is no allow list.    *)
Includes(r, x) ==
    /\ r.every \/ \E pattern \in r.allow : Matches(pattern, Name[x])
    /\ ~\E pattern \in r.ignore : Matches(pattern, Name[x])

(***************************************************************************)
(* Requests and redirects (RedirectFollower::follow)                       *)
(***************************************************************************)
Ends(kind, plan) ==
    /\ stage' = "idle"
    /\ outcome' = [kind |-> kind, plan |-> plan]
    /\ visited' = {} /\ trail' = <<>> /\ files' = {} /\ served' = <<>>
    /\ commit' = None
    /\ UNCHANGED request

Fails(kind) == Ends(kind, None)

(* retrieve_tree, at the head of its loop: a page is requested once, from  *)
(* the endpoint, and there are MaxPages of them at most.                   *)
Refused(u) ==
    u \in visited \/ u.origin # TreeUrl.origin \/ u.secure # TreeUrl.secure
    \/ Cardinality(visited) = MaxPages

RequestPage(u) ==
    /\ stage' = "tree"
    /\ visited' = visited \cup {u} /\ trail' = <<u>>

Ask(r) ==
    /\ stage = "idle" /\ outcome = None
    /\ request' = r
    /\ IF r.revision \in Commits
       THEN commit' = r.revision /\ RequestPage(TreeUrl)
       ELSE /\ stage' = "revision" /\ trail' = <<RevisionUrl>>
            /\ UNCHANGED <<commit, visited>>
    /\ UNCHANGED <<files, served, outcome>>

Waiting == stage \in {"revision", "tree"}
Current == trail[Len(trail)]

(* A redirect that repeats a URL, leaves https, or is one too many ends    *)
(* the request; the caller learns of a protocol error.                     *)
Redirected(u) ==
    /\ Waiting
    /\ IF /\ Len(trail) <= MaxRedirects
          /\ Current.secure => u.secure
          /\ \A i \in DOMAIN trail : trail[i] # u
       THEN trail' = Append(trail, u)
            /\ UNCHANGED <<stage, request, commit, visited, files, served, outcome>>
       ELSE Fails("protocol")

(* The connection fails, a redirect has no usable location, the status is  *)
(* an error, or the body is too long or not the JSON it should be.         *)
Unusable(kind) == Waiting /\ Fails(kind)

Resolved(c) ==
    /\ stage = "revision"
    /\ commit' = c /\ RequestPage(TreeUrl)
    /\ UNCHANGED <<request, files, served, outcome>>

(***************************************************************************)
(* The pages of the tree and the plan                                      *)
(***************************************************************************)
FilesOf(entries) ==
    {<<Cardinality(visited), i, entries[i]>> : i \in {k \in DOMAIN entries : entries[k] \in File}}
Listed == {f[3] : f \in files}

(* The entries of one page, and the link to the next.                      *)
TreePage(entries, next) ==
    LET all == files \cup FilesOf(entries) IN
    /\ stage = "tree"
    /\ IF \E i \in DOMAIN entries : entries[i] = Malformed
       THEN Fails("invalid") \/ Fails("protocol")
       ELSE IF Cardinality(all) > MaxFiles THEN Fails("protocol")
       ELSE IF next # None /\ Refused(next) THEN Fails("protocol")
       ELSE /\ files' = all
            /\ served' = Append(served, [entries |-> entries, next |-> next])
            /\ IF next = None
               THEN stage' = "plan" /\ trail' = <<>> /\ UNCHANGED visited
               ELSE RequestPage(next)
            /\ UNCHANGED <<request, commit, outcome>>

(* HubTree::new rejects a path listed twice; FetchPlan::build filters.     *)
BuildPlan ==
    /\ stage = "plan"
    /\ IF Cardinality(Listed) # Cardinality(files) THEN Fails("invalid")
       ELSE Ends("planned", [commit |-> commit, paths |-> {x \in Listed : Includes(request, x)}])

(***************************************************************************)
(* Specification                                                           *)
(***************************************************************************)
ErrorKinds == {"transport", "protocol", "status"}

Init ==
    /\ stage = "idle" /\ request = None /\ commit = None
    /\ visited = {} /\ trail = <<>>
    /\ files = {} /\ served = <<>> /\ outcome = None

Response ==
    \/ \E u \in Url : Redirected(u)
    \/ \E kind \in ErrorKinds : Unusable(kind)
    \/ \E c \in Commits : Resolved(c)
    \/ \E entries \in PageEntries, next \in Url \cup {None} : TreePage(entries, next)

Next ==
    \/ \E r \in Requests : Ask(r)
    \/ Response
    \/ BuildPlan

Spec == Init /\ [][Next]_planVars

(***************************************************************************)
(* Properties                                                              *)
(***************************************************************************)
(* Every variable keeps its type; a request is sent to MaxRedirects + 1    *)
(* URLs at most and a retrieval to MaxPages pages at most, whatever the    *)
(* server links to.                                                        *)
PlanTypeOK ==
    /\ stage \in {"idle", "revision", "tree", "plan"}
    /\ request \in Requests \cup {None}
    /\ commit \in Commits \cup {None}
    /\ visited \subseteq Url /\ Len(served) <= MaxPages
    /\ trail \in Seq(Url) /\ Len(trail) <= MaxRedirects + 1
    /\ files \subseteq (1 .. MaxPages) \X Nat \X File /\ Cardinality(files) <= MaxFiles

(* What a glob pattern means (adr/0005): the name is cut into one piece    *)
(* for each token, of one fitting character unless the token is a star.    *)
Means(pattern, name) ==
    LET tokens == Normalized(pattern) IN
    \E cut \in [0 .. Len(tokens) -> 0 .. Len(name)] :
        /\ cut[0] = 0 /\ cut[Len(tokens)] = Len(name)
        /\ \A i \in 1 .. Len(tokens) :
               IF tokens[i].star THEN cut[i - 1] <= cut[i]
               ELSE cut[i] = cut[i - 1] + 1 /\ name[cut[i]] \in tokens[i].chars

Selects(r, x) ==
    /\ r.every \/ \E pattern \in r.allow : Means(pattern, Name[x])
    /\ ~\E pattern \in r.ignore : Means(pattern, Name[x])

Sent == UNION {{served[i].entries[k] : k \in DOMAIN served[i].entries} : i \in DOMAIN served}

(* A plan is made only from a tree that was retrieved to its last page,    *)
(* and it holds exactly the files the filter means, of the commit that was *)
(* asked for or that the revision resolved to.                             *)
ExactStep ==
    outcome' # outcome /\ outcome'.kind = "planned" =>
        /\ served # <<>> /\ served[Len(served)].next = None
        /\ \A i \in 1 .. Len(served) - 1 : served[i].next # None
        /\ request.revision \in {outcome'.plan.commit, "main"}
        /\ outcome'.plan.paths = {x \in Sent \cap File : Selects(request, x)}
PlanIsExact == [][ExactStep]_planVars

(* The inductive invariant behind both: what has been received, page by    *)
(* page, and where the retrieval is.                                       *)
Page == [entries : PageEntries, next : Url \cup {None}]

Resting == stage = "idle" => visited = {} /\ trail = <<>> /\ files = {} /\ served = <<>>
Resolving ==
    stage = "revision" =>
        /\ request.revision = "main" /\ trail # <<>>
        /\ visited = {} /\ files = {} /\ served = <<>>
Retrieving ==
    stage = "tree" =>
        /\ trail # <<>> /\ Cardinality(visited) = Len(served) + 1
        /\ \A i \in DOMAIN served : served[i].next # None
Retrieved ==
    stage = "plan" =>
        /\ served # <<>> /\ Cardinality(visited) = Len(served)
        /\ served[Len(served)].next = None
        /\ \A i \in 1 .. Len(served) - 1 : served[i].next # None

PlanIInv ==
    /\ PlanTypeOK /\ served \in Seq(Page)
    /\ IsFiniteSet(visited) /\ Cardinality(visited) <= MaxPages /\ IsFiniteSet(files)
    /\ Resting /\ Resolving /\ Retrieving /\ Retrieved
    /\ stage # "idle" => request \in Requests
    /\ stage \in {"tree", "plan"} => request.revision \in {commit, "main"}
    /\ Listed = Sent \cap File
==============================================================================
