------------------------- MODULE CompatibleFetchProofs -------------------------
(***************************************************************************)
(* Theorems about CompatibleFetch: a fetch keeps everything that is proved *)
(* of StandardCache, the planner its bounds, and a plan holds what the     *)
(* filter means, for every pattern and every name.                         *)
(***************************************************************************)
EXTENDS CompatibleFetch, StandardCacheProofs, FiniteSetTheorems

-----------------------------------------------------------------------------
(* The publications of a fetch.                                            *)

\* A fetch publishes as StandardCache does: planning changes nothing of the
\* cache, and only adds to what a publication waits for.
THEOREM Fetches == FetchSpec => Spec
<1>1. FetchInit => Init
  BY DEF FetchInit, Init
<1>2. [Plans \/ Publishes]_fetchVars => [Next]_vars
  BY DEF Plans, Publishes, fetchVars, Next
<1> QED
  BY <1>1, <1>2, PTL DEF FetchSpec, Spec

\* What is proved of StandardCache holds of a fetch: its errors tell of what
\* it published, what is opened agrees, the ref comes last, a manifest
\* stands, and Python's files are kept.
THEOREM FetchesKeep ==
  FetchSpec => /\ []ErrorsTellOfPublication /\ []OpensAgree
               /\ RefPublishedLast /\ ManifestsStand /\ PythonBytesKept
  BY Fetches, ErrorsTell, Agree, RefLast, Stand, PythonBytes, PTL

-----------------------------------------------------------------------------
(* The planner.                                                            *)

\* HubPlan counts as this module does.
LEMMA HubSets ==
  \A S : (Hub!IsFiniteSet(S) <=> IsFiniteSet(S)) /\ Hub!Cardinality(S) = Cardinality(S)
<1>1. \A S : Hub!IsFiniteSet(S) <=> IsFiniteSet(S)
  BY DEF Hub!IsFiniteSet, IsFiniteSet
<1>2. \A S : Hub!Cardinality(S) = Cardinality(S)
  BY Zenon DEF Hub!Cardinality, Cardinality
<1> QED
  BY <1>1, <1>2

\* What the constants of the planner are.
LEMMA HubConstants ==
  /\ MaxPages \in Nat \ {0} /\ MaxFiles \in Nat /\ MaxRedirects \in Nat
  /\ TreeUrl \in Url /\ RevisionUrl \in Url /\ None \notin Url
  /\ \A r \in Requests : r.revision \in Commit \cup {"main"}
  /\ PageEntries \subseteq Seq(Hub!Entries)
  BY HubAssumption DEF Hub!PlanConstants

\* What the invariant of the planner says of where it is.
LEMMA PlanParts ==
  ASSUME Hub!PlanIInv
  PROVE  /\ Hub!PlanTypeOK /\ served \in Seq(Hub!Page) /\ Len(served) \in Nat
         /\ IsFiniteSet(visited) /\ Cardinality(visited) \in Nat /\ visited \subseteq Url
         /\ Cardinality(visited) <= MaxPages /\ IsFiniteSet(files)
         /\ Hub!Resting /\ Hub!Resolving /\ Hub!Retrieved
         /\ stage = "tree" =>
               /\ trail # <<>> /\ Cardinality(visited) = Len(served) + 1
               /\ \A i \in DOMAIN served : served[i].next # None
         /\ stage # "idle" => request \in Requests
         /\ stage \in {"tree", "plan"} => request.revision \in {commit, "main"}
         /\ Hub!Listed = Hub!Sent \cap Path
<1>1. Hub!PlanTypeOK /\ served \in Seq(Hub!Page) /\ visited \subseteq Url
  BY DEF Hub!PlanIInv, Hub!PlanTypeOK
<1>2. IsFiniteSet(visited) /\ Cardinality(visited) <= MaxPages /\ IsFiniteSet(files)
  BY HubSets DEF Hub!PlanIInv
<1>3. Cardinality(visited) \in Nat
  BY <1>2, FS_CardinalityType
<1>4. stage = "tree" => Cardinality(visited) = Len(served) + 1
  BY HubSets DEF Hub!PlanIInv, Hub!Retrieving
<1> QED
  BY <1>1, <1>2, <1>3, <1>4 DEF Hub!PlanIInv, Hub!Retrieving

\* A request ends with an error or a plan.
LEMMA EndsInv ==
  ASSUME NEW k, NEW plan, Hub!PlanIInv, Hub!Ends(k, plan)
  PROVE  Hub!PlanIInv'
<1>1. /\ stage' = "idle" /\ visited' = {} /\ trail' = <<>> /\ files' = {} /\ served' = <<>>
      /\ commit' = None /\ request' = request
  BY DEF Hub!Ends
<1>2. request \in Requests \cup {None} /\ MaxPages \in Nat /\ MaxFiles \in Nat /\ MaxRedirects \in Nat
  BY HubConstants DEF Hub!PlanIInv, Hub!PlanTypeOK
<1>3. Hub!IsFiniteSet({}) /\ Hub!Cardinality({}) = 0
  BY FS_EmptySet, HubSets
<1>4. Hub!PlanTypeOK'
  BY <1>1, <1>2, <1>3 DEF Hub!PlanTypeOK
<1>5. Hub!Listed' = {} /\ Hub!Sent' = {}
  BY <1>1 DEF Hub!Listed, Hub!Sent
<1> QED
  BY <1>1, <1>2, <1>3, <1>4, <1>5
  DEF Hub!PlanIInv, Hub!Resting, Hub!Resolving, Hub!Retrieving, Hub!Retrieved

\* The next page is requested: it is new, and there is room for it.
LEMMA PageRequested ==
  ASSUME Hub!PlanIInv, NEW u \in Url, u \notin visited, Cardinality(visited) < MaxPages,
         Hub!RequestPage(u)
  PROVE  /\ stage' = "tree" /\ visited' \subseteq Url /\ trail' = <<u>>
         /\ trail' \in Seq(Url) /\ Len(trail') <= MaxRedirects + 1 /\ trail' # <<>>
         /\ IsFiniteSet(visited') /\ Cardinality(visited') = Cardinality(visited) + 1
         /\ Cardinality(visited') <= MaxPages
<1>1. visited \subseteq Url /\ IsFiniteSet(visited) /\ MaxRedirects \in Nat /\ MaxPages \in Nat
      /\ Cardinality(visited) \in Nat
  BY PlanParts, HubConstants
<1>2. stage' = "tree" /\ visited' = visited \cup {u} /\ trail' = <<u>>
  BY DEF Hub!RequestPage
<1>3. IsFiniteSet(visited') /\ Cardinality(visited') = Cardinality(visited) + 1
  BY <1>1, <1>2, FS_AddElement
<1>4. trail' \in Seq(Url) /\ Len(trail') = 1 /\ trail' # <<>>
  BY <1>2
<1> QED
  BY <1>1, <1>2, <1>3, <1>4

\* A request is made of the hub.
LEMMA AskInv ==
  ASSUME Hub!PlanIInv, NEW r \in Requests, Hub!Ask(r)
  PROVE  Hub!PlanIInv'
<1>1. /\ stage = "idle" /\ visited = {} /\ trail = <<>> /\ files = {} /\ served = <<>>
      /\ request' = r /\ files' = files /\ served' = served
      /\ Hub!PlanTypeOK /\ served \in Seq(Hub!Page) /\ Hub!Listed = Hub!Sent \cap Path
  BY DEF Hub!Ask, Hub!PlanIInv, Hub!Resting
<1>2. r.revision \in Commit \cup {"main"}
  BY HubConstants
<1>3. IsFiniteSet({}) /\ Cardinality({}) = 0
  BY FS_EmptySet
<1>4. Hub!Listed' = Hub!Listed /\ Hub!Sent' = Hub!Sent
  BY <1>1 DEF Hub!Listed, Hub!Sent
<1>5. CASE r.revision \in Commit
  <2>1. commit' = r.revision /\ Hub!RequestPage(TreeUrl)
    BY <1>5 DEF Hub!Ask
  <2>2. /\ stage' = "tree" /\ visited' \subseteq Url
        /\ trail' \in Seq(Url) /\ Len(trail') <= MaxRedirects + 1 /\ trail' # <<>>
        /\ IsFiniteSet(visited') /\ Cardinality(visited') = 1 /\ Cardinality(visited') <= MaxPages
    BY <1>1, <1>3, <2>1, PageRequested, HubConstants
  <2>3. Hub!PlanTypeOK'
    BY <1>1, <1>5, <2>1, <2>2 DEF Hub!PlanTypeOK
  <2>4. Hub!Retrieving'
    BY <1>1, <2>2, HubSets DEF Hub!Retrieving
  <2>5. Hub!IsFiniteSet(visited)' /\ (Hub!Cardinality(visited) <= MaxPages)'
        /\ Hub!IsFiniteSet(files)'
    BY <1>1, <1>3, <2>2, HubSets
  <2> QED
    BY <1>1, <1>4, <2>1, <2>2, <2>3, <2>4, <2>5
    DEF Hub!PlanIInv, Hub!Resting, Hub!Resolving, Hub!Retrieved
<1>6. CASE r.revision \notin Commit
  <2>1. stage' = "revision" /\ trail' = <<RevisionUrl>> /\ UNCHANGED <<commit, visited>>
    BY <1>6 DEF Hub!Ask
  <2>2. trail' \in Seq(Url) /\ Len(trail') = 1 /\ trail' # <<>>
    BY <2>1, HubConstants
  <2>3. Hub!PlanTypeOK'
    BY <1>1, <2>1, <2>2, HubConstants DEF Hub!PlanTypeOK
  <2> QED
    BY <1>1, <1>2, <1>3, <1>4, <1>6, <2>1, <2>2, <2>3, HubSets
    DEF Hub!PlanIInv, Hub!Resting, Hub!Resolving, Hub!Retrieving, Hub!Retrieved
<1> QED
  BY <1>5, <1>6

\* A redirect is followed, or one too many.
LEMMA RedirectedInv ==
  ASSUME Hub!PlanIInv, NEW u \in Url, Hub!Redirected(u)
  PROVE  Hub!PlanIInv'
<1>1. CASE Hub!Fails("protocol")
  BY <1>1, EndsInv DEF Hub!Fails
<1>2. CASE /\ Len(trail) <= MaxRedirects /\ trail' = Append(trail, u)
           /\ UNCHANGED <<stage, request, commit, visited, files, served, outcome>>
  <2>1. /\ stage \in {"revision", "tree"} /\ Hub!PlanTypeOK
    BY DEF Hub!Redirected, Hub!Waiting, Hub!PlanIInv
  <2>2. trail' \in Seq(Url) /\ Len(trail') <= MaxRedirects + 1 /\ trail' # <<>>
    BY <1>2, <2>1, HubConstants DEF Hub!PlanTypeOK
  <2>3. Hub!PlanTypeOK'
    BY <1>2, <2>1, <2>2 DEF Hub!PlanTypeOK
  <2>4. Hub!Listed' = Hub!Listed /\ Hub!Sent' = Hub!Sent
    BY <1>2 DEF Hub!Listed, Hub!Sent
  <2> QED
    BY <1>2, <2>1, <2>2, <2>3, <2>4
    DEF Hub!PlanIInv, Hub!Resting, Hub!Resolving, Hub!Retrieving, Hub!Retrieved
<1> QED
  BY <1>1, <1>2 DEF Hub!Redirected

\* The revision is resolved.
LEMMA ResolvedInv ==
  ASSUME Hub!PlanIInv, NEW c \in Commit, Hub!Resolved(c)
  PROVE  Hub!PlanIInv'
<1>1. /\ stage = "revision" /\ commit' = c /\ Hub!RequestPage(TreeUrl)
      /\ UNCHANGED <<request, files, served, outcome>>
  BY DEF Hub!Resolved
<1>2. /\ Hub!PlanTypeOK /\ served \in Seq(Hub!Page) /\ Hub!Listed = Hub!Sent \cap Path
      /\ request.revision = "main" /\ visited = {} /\ files = {} /\ served = <<>>
      /\ request \in Requests
  BY <1>1 DEF Hub!PlanIInv, Hub!Resolving
<1>3. IsFiniteSet({}) /\ Cardinality({}) = 0
  BY FS_EmptySet
<1>4. /\ stage' = "tree" /\ visited' \subseteq Url
      /\ trail' \in Seq(Url) /\ Len(trail') <= MaxRedirects + 1 /\ trail' # <<>>
      /\ IsFiniteSet(visited') /\ Cardinality(visited') = 1 /\ Cardinality(visited') <= MaxPages
  BY <1>1, <1>2, <1>3, PageRequested, HubConstants
<1>5. Hub!Listed' = Hub!Listed /\ Hub!Sent' = Hub!Sent
  BY <1>1 DEF Hub!Listed, Hub!Sent
<1>6. Hub!PlanTypeOK'
  BY <1>1, <1>2, <1>4 DEF Hub!PlanTypeOK
<1>7. Hub!Retrieving'
  BY <1>1, <1>2, <1>4, HubSets DEF Hub!Retrieving
<1>8. Hub!IsFiniteSet(visited)' /\ (Hub!Cardinality(visited) <= MaxPages)'
      /\ Hub!IsFiniteSet(files)'
  BY <1>1, <1>2, <1>3, <1>4, HubSets
<1> QED
  BY <1>1, <1>2, <1>4, <1>5, <1>6, <1>7, <1>8
  DEF Hub!PlanIInv, Hub!Resting, Hub!Resolving, Hub!Retrieved

\* The files of a page are as many as the page has entries, at most.
LEMMA FilesFinite ==
  ASSUME NEW entries \in Seq(Hub!Entries)
  PROVE  IsFiniteSet(Hub!FilesOf(entries))
<1> DEFINE places == {k \in DOMAIN entries : entries[k] \in Path}
           fileAt == [k \in places |-> <<Hub!Cardinality(visited), k, entries[k]>>]
<1>1. IsFiniteSet(places)
  <2>1. places \subseteq 1 .. Len(entries) /\ Len(entries) \in Nat
    OBVIOUS
  <2>2. IsFiniteSet(1 .. Len(entries))
    BY <2>1, FS_Interval
  <2> QED
    BY <2>1, <2>2, FS_Subset
<1>2. Hub!FilesOf(entries) = {fileAt[k] : k \in places}
  BY DEF Hub!FilesOf
<1> HIDE DEF places
<1>3. fileAt \in [places -> Hub!FilesOf(entries)]
  BY <1>2
<1>4. \A e \in Hub!FilesOf(entries) : \E k \in places : fileAt[k] = e
  BY <1>2
<1> HIDE DEF fileAt
<1>5. fileAt \in Surjection(places, Hub!FilesOf(entries))
  BY <1>3, <1>4 DEF Surjection
<1> QED
  BY <1>1, <1>5, FS_Surjection

\* A page that is taken over adds its files to what is listed and to what
\* was sent.
LEMMA PageTaken ==
  ASSUME Hub!PlanIInv, stage = "tree", NEW entries \in PageEntries, NEW link \in Url \cup {None},
         files' = files \cup Hub!FilesOf(entries),
         served' = Append(served, [entries |-> entries, next |-> link])
  PROVE  /\ files' \subseteq (1 .. MaxPages) \X Nat \X Path /\ IsFiniteSet(files')
         /\ served' \in Seq(Hub!Page) /\ Len(served') = Len(served) + 1
         /\ Hub!Listed' = Hub!Sent' \cap Path
         /\ served'[Len(served')].next = link /\ served' # <<>>
         /\ \A i \in 1 .. Len(served) : served'[i] = served[i]
<1> DEFINE page == [entries |-> entries, next |-> link]
<1>1. /\ Hub!PlanTypeOK /\ served \in Seq(Hub!Page) /\ Hub!Listed = Hub!Sent \cap Path
      /\ Hub!Cardinality(visited) = Len(served) + 1 /\ Hub!Cardinality(visited) <= MaxPages
      /\ MaxPages \in Nat /\ entries \in Seq(Hub!Entries) /\ Len(served) \in Nat
      /\ IsFiniteSet(files)
  BY PlanParts, HubConstants, HubSets
<1>2. Hub!Cardinality(visited) \in 1 .. MaxPages
  BY <1>1
<1>3. Hub!FilesOf(entries) \subseteq (1 .. MaxPages) \X Nat \X Path
  <2>1. DOMAIN entries \subseteq Nat
    BY <1>1
  <2> QED
    BY <1>2, <2>1 DEF Hub!FilesOf
<1>4. files' \subseteq (1 .. MaxPages) \X Nat \X Path
  BY <1>1, <1>3 DEF Hub!PlanTypeOK
<1>5. IsFiniteSet(files')
  BY <1>1, FilesFinite, FS_Union
<1>6. page \in Hub!Page
  BY DEF Hub!Page
<1>7. /\ served' \in Seq(Hub!Page) /\ Len(served') = Len(served) + 1
      /\ \A i \in 1 .. Len(served) : served'[i] = served[i]
      /\ served'[Len(served')] = page /\ served' # <<>>
  BY <1>1, <1>6
<1>8. Hub!Sent' = Hub!Sent \cup {entries[k] : k \in DOMAIN entries}
  <2>1. DOMAIN served' = DOMAIN served \cup {Len(served')}
    BY <1>1, <1>7
  <2>2. \A i \in DOMAIN served : served'[i] = served[i]
    BY <1>1, <1>7
  <2>3. page.entries = entries
    OBVIOUS
  <2>4. {{served'[i].entries[k] : k \in DOMAIN served'[i].entries} : i \in DOMAIN served'}
          = {{served[i].entries[k] : k \in DOMAIN served[i].entries} : i \in DOMAIN served}
            \cup {{entries[k] : k \in DOMAIN entries}}
    BY <1>7, <2>1, <2>2, <2>3
  <2> QED
    BY <2>4 DEF Hub!Sent
<1>9. Hub!Listed' = Hub!Listed \cup {e[3] : e \in Hub!FilesOf(entries)}
  BY DEF Hub!Listed
<1>10. {e[3] : e \in Hub!FilesOf(entries)} = {entries[k] : k \in DOMAIN entries} \cap Path
  <2>1. ASSUME NEW e \in Hub!FilesOf(entries)
        PROVE  e[3] \in {entries[k] : k \in DOMAIN entries} \cap Path
    BY <2>1 DEF Hub!FilesOf
  <2>2. ASSUME NEW k \in DOMAIN entries, entries[k] \in Path
        PROVE  \E e \in Hub!FilesOf(entries) : e[3] = entries[k]
    <3> DEFINE e == <<Hub!Cardinality(visited), k, entries[k]>>
    <3>1. e \in Hub!FilesOf(entries)
      BY <2>2 DEF Hub!FilesOf
    <3>2. e[3] = entries[k]
      OBVIOUS
    <3> QED
      BY <3>1, <3>2
  <2> QED
    BY <2>1, <2>2
<1>11. Hub!Listed' = Hub!Sent' \cap Path
  BY <1>1, <1>8, <1>9, <1>10
<1>12. served'[Len(served')].next = link
  BY <1>7
<1> QED
  BY <1>4, <1>5, <1>7, <1>11, <1>12

\* A page of the tree arrives.
LEMMA TreePageInv ==
  ASSUME Hub!PlanIInv, NEW entries \in PageEntries, NEW link \in Url \cup {None},
         Hub!TreePage(entries, link)
  PROVE  Hub!PlanIInv'
<1>1. stage = "tree"
  BY DEF Hub!TreePage
<1>2. CASE Hub!Fails("invalid") \/ Hub!Fails("protocol")
  BY <1>2, EndsInv DEF Hub!Fails
<1>3. CASE ~(Hub!Fails("invalid") \/ Hub!Fails("protocol"))
  <2>1. /\ ~(Hub!Cardinality(files \cup Hub!FilesOf(entries)) > MaxFiles)
        /\ link # None => ~Hub!Refused(link)
        /\ files' = files \cup Hub!FilesOf(entries)
        /\ served' = Append(served, [entries |-> entries, next |-> link])
        /\ IF link = None THEN stage' = "plan" /\ trail' = <<>> /\ UNCHANGED visited
                          ELSE Hub!RequestPage(link)
        /\ UNCHANGED <<request, commit, outcome>>
    BY <1>3 DEF Hub!TreePage
  <2>2. /\ Hub!PlanTypeOK /\ served \in Seq(Hub!Page) /\ IsFiniteSet(visited) /\ visited \subseteq Url
        /\ Cardinality(visited) = Len(served) + 1 /\ Cardinality(visited) <= MaxPages
        /\ \A i \in 1 .. Len(served) : served[i].next # None
        /\ request \in Requests /\ request.revision \in {commit, "main"} /\ Len(served) \in Nat
        /\ MaxPages \in Nat /\ MaxFiles \in Nat /\ MaxRedirects \in Nat /\ None \notin Url
    BY <1>1, PlanParts, HubConstants
  <2>3. /\ files' \subseteq (1 .. MaxPages) \X Nat \X Path /\ IsFiniteSet(files')
        /\ served' \in Seq(Hub!Page) /\ Len(served') = Len(served) + 1
        /\ Hub!Listed' = Hub!Sent' \cap Path
        /\ served'[Len(served')].next = link /\ served' # <<>>
        /\ \A i \in 1 .. Len(served) : served'[i] = served[i]
    BY <1>1, <2>1, PageTaken
  <2>4. Cardinality(files') <= MaxFiles
    <3>1. Cardinality(files') \in Nat
      BY <2>3, FS_CardinalityType
    <3> QED
      BY <2>1, <2>2, <3>1, HubSets
  <2>5. /\ visited' \subseteq Url /\ IsFiniteSet(visited') /\ Cardinality(visited') <= MaxPages
        /\ trail' \in Seq(Url) /\ Len(trail') <= MaxRedirects + 1
        /\ \/ /\ link # None /\ stage' = "tree" /\ trail' # <<>>
              /\ Cardinality(visited') = Len(served') + 1
           \/ /\ link = None /\ stage' = "plan" /\ Cardinality(visited') = Len(served')
    <3>1. CASE link = None
      BY <2>1, <2>2, <2>3, <3>1
    <3>2. CASE link # None
      <4>1. link \in Url /\ link \notin visited /\ Cardinality(visited) # MaxPages /\ Hub!RequestPage(link)
        BY <2>1, <3>2, HubSets DEF Hub!Refused
      <4>2. Cardinality(visited) < MaxPages
        BY <2>2, <4>1
      <4> QED
        BY <2>2, <2>3, <3>2, <4>1, <4>2, PageRequested
    <3> QED
      BY <3>1, <3>2
  <2>6. Hub!PlanTypeOK'
    <3>1. Len(served') <= MaxPages
      BY <2>2, <2>3
    <3>2. Hub!Cardinality(files') <= MaxFiles
      BY <2>4, HubSets
    <3> QED
      BY <2>1, <2>2, <2>3, <2>5, <3>1, <3>2 DEF Hub!PlanTypeOK
  <2>7. Hub!Retrieving' /\ Hub!Retrieved'
    <3>1. DOMAIN served' = 1 .. Len(served')
      BY <2>3
    <3>2. \A i \in 1 .. Len(served) : served'[i].next # None
      BY <2>2, <2>3
    <3>3. Hub!Cardinality(visited)' = Cardinality(visited')
      BY HubSets
    <3>4. link # None => \A i \in DOMAIN served' : served'[i].next # None
      BY <2>2, <2>3, <3>1, <3>2
    <3>5. \A i \in 1 .. Len(served') - 1 : served'[i].next # None
      BY <2>2, <2>3, <3>2
    <3> QED
      BY <2>3, <2>5, <3>3, <3>4, <3>5 DEF Hub!Retrieving, Hub!Retrieved
  <2>8. Hub!IsFiniteSet(visited)' /\ (Hub!Cardinality(visited) <= MaxPages)'
        /\ Hub!IsFiniteSet(files)'
    BY <2>3, <2>5, HubSets
  <2> QED
    BY <2>1, <2>2, <2>3, <2>5, <2>6, <2>7, <2>8
    DEF Hub!PlanIInv, Hub!Resting, Hub!Resolving
<1> QED
  BY <1>2, <1>3

\* The invariant of the planner, see PlanIInv in HubPlan.
LEMMA PlanInvStep == Hub!PlanIInv /\ [Hub!Next]_planVars => Hub!PlanIInv'
<1> SUFFICES ASSUME Hub!PlanIInv, [Hub!Next]_planVars PROVE Hub!PlanIInv'
  OBVIOUS
<1>1. CASE UNCHANGED planVars
  BY <1>1 DEF planVars, Hub!PlanIInv, Hub!PlanTypeOK, Hub!Resting, Hub!Resolving, Hub!Retrieving,
     Hub!Retrieved, Hub!Listed, Hub!Sent
<1>2. CASE \E r \in Requests : Hub!Ask(r)
  BY <1>2, AskInv
<1>3. CASE \E u \in Url : Hub!Redirected(u)
  BY <1>3, RedirectedInv
<1>4. CASE \E k \in Hub!ErrorKinds : Hub!Unusable(k)
  BY <1>4, EndsInv DEF Hub!Unusable, Hub!Fails
<1>5. CASE \E c \in Commit : Hub!Resolved(c)
  BY <1>5, ResolvedInv
<1>6. CASE \E entries \in PageEntries, link \in Url \cup {None} : Hub!TreePage(entries, link)
  BY <1>6, TreePageInv
<1>7. CASE Hub!BuildPlan
  BY <1>7, EndsInv DEF Hub!BuildPlan, Hub!Fails
<1> QED
  BY <1>1, <1>2, <1>3, <1>4, <1>5, <1>6, <1>7 DEF Hub!Next, Hub!Response

\* The planner starts with its invariant.
LEMMA PlanInvInit == Hub!Init => Hub!PlanIInv
<1> SUFFICES ASSUME Hub!Init PROVE Hub!PlanIInv
  OBVIOUS
<1>1. /\ stage = "idle" /\ request = None /\ commit = None /\ visited = {} /\ trail = <<>>
      /\ files = {} /\ served = <<>>
  BY DEF Hub!Init
<1>2. Hub!IsFiniteSet({}) /\ Hub!Cardinality({}) = 0
  BY FS_EmptySet, HubSets
<1>3. Hub!PlanTypeOK
  BY <1>1, <1>2, HubConstants DEF Hub!PlanTypeOK
<1>4. Hub!Listed = {} /\ Hub!Sent = {}
  BY <1>1 DEF Hub!Listed, Hub!Sent
<1> QED
  BY <1>1, <1>2, <1>3, <1>4, HubConstants
  DEF Hub!PlanIInv, Hub!Resting, Hub!Resolving, Hub!Retrieving, Hub!Retrieved

\* A fetch keeps the planner's invariant.
LEMMA PlanInductive == FetchSpec => []Hub!PlanIInv
<1>1. FetchInit => Hub!PlanIInv
  BY PlanInvInit DEF FetchInit
<1>2. Hub!PlanIInv /\ [Plans \/ Publishes]_fetchVars => Hub!PlanIInv'
  BY PlanInvStep DEF Plans, Publishes, fetchVars
<1> QED
  BY <1>1, <1>2, PTL DEF FetchSpec

\* Both parts of a fetch keep their types, and the planner its bounds on
\* pages, files and redirects, whatever the server answers
\* (hub_protocol.rs: retrieve_tree; transport.rs: RedirectFollower).
THEOREM FetchTypeCorrect == FetchSpec => []FetchTypeOK
<1>1. Hub!PlanIInv /\ TypeOK => FetchTypeOK
  BY DEF FetchTypeOK, Hub!PlanIInv
<1> QED
  BY <1>1, PlanInductive, Fetches, TypeCorrect, PTL

-----------------------------------------------------------------------------
(* The filter.                                                             *)

\* Counting up to a number.
LEMMA CountingUp ==
  ASSUME NEW n \in Nat, NEW T, 0 \in T,
         \A i \in 0 .. n : i \in T /\ i < n => i + 1 \in T
  PROVE  0 .. n \subseteq T
<1> DEFINE rest == {i \in 0 .. n : i \notin T}
<1>1. CASE rest = {}
  BY <1>1
<1>2. CASE rest # {}
  <2>0. rest \subseteq Nat
    OBVIOUS
  <2>1. PICK i \in rest : \A j \in rest : i <= j
    <3> HIDE DEF rest
    <3> QED
      BY <1>2, <2>0, LeastMember
  <2>2. i \in 1 .. n /\ i - 1 \in 0 .. n /\ i - 1 < n /\ i - 1 \notin rest
    BY <2>1
  <2>3. (i - 1) + 1 \in T
    BY <2>2
  <2> QED
    BY <2>1, <2>2, <2>3
<1> QED
  BY <1>1, <1>2

\* The rows of a match exist up to each token.
RowsUpTo(tokens, name, m, f) ==
    f = [i \in 0 .. m |-> IF i = 0 THEN {0} ELSE Hub!Row(tokens[i], name, f[i - 1])]

LEMMA RowsExist ==
  ASSUME NEW tokens, NEW name, NEW n \in Nat
  PROVE  \E f : RowsUpTo(tokens, name, n, f)
<1> DEFINE T == {m \in 0 .. n : \E f : RowsUpTo(tokens, name, m, f)}
<1>1. 0 \in T
  <2> DEFINE f == [i \in 0 .. 0 |-> {0}]
  <2>1. DOMAIN f = 0 .. 0 /\ \A i \in 0 .. 0 : i = 0 /\ f[i] = {0}
    OBVIOUS
  <2>2. f = [i \in 0 .. 0 |-> f[i]]
    OBVIOUS
  <2> HIDE DEF f
  <2>3. f = [i \in 0 .. 0 |-> IF i = 0 THEN {0} ELSE Hub!Row(tokens[i], name, f[i - 1])]
    BY <2>1, <2>2
  <2>4. RowsUpTo(tokens, name, 0, f)
    BY <2>3 DEF RowsUpTo
  <2>5. \E g : RowsUpTo(tokens, name, 0, g)
    BY <2>4
  <2> QED
    BY <2>5
<1>2. ASSUME NEW m \in 0 .. n, m \in T, m < n PROVE m + 1 \in T
  <2>1. PICK f : RowsUpTo(tokens, name, m, f)
    BY <1>2
  <2> DEFINE g == [i \in 0 .. m + 1 |->
                     IF i = m + 1 THEN Hub!Row(tokens[i], name, f[m]) ELSE f[i]]
  <2>2. \A i \in 0 .. m : f[i] = IF i = 0 THEN {0} ELSE Hub!Row(tokens[i], name, f[i - 1])
    BY <2>1 DEF RowsUpTo
  <2>3. \A i \in 0 .. m : g[i] = f[i]
    OBVIOUS
  <2>4. g[m + 1] = Hub!Row(tokens[m + 1], name, g[m])
    BY <2>3
  <2>5. \A i \in 0 .. m + 1 : g[i] = IF i = 0 THEN {0} ELSE Hub!Row(tokens[i], name, g[i - 1])
    <3> SUFFICES ASSUME NEW i \in 0 .. m + 1
                 PROVE  g[i] = IF i = 0 THEN {0} ELSE Hub!Row(tokens[i], name, g[i - 1])
      OBVIOUS
    <3>1. CASE i = m + 1
      <4>1. (m + 1) - 1 = m /\ m + 1 # 0
        OBVIOUS
      <4> HIDE DEF g
      <4> QED
        BY <2>4, <3>1, <4>1
    <3>2. CASE i \in 1 .. m
      <4>1. i - 1 \in 0 .. m
        BY <3>2
      <4> HIDE DEF g
      <4> QED
        BY <2>2, <2>3, <3>2, <4>1
    <3>3. CASE i = 0
      <4> HIDE DEF g
      <4> QED
        BY <2>2, <2>3, <3>3
    <3> QED
      BY <3>1, <3>2, <3>3
  <2>6. DOMAIN g = 0 .. m + 1 /\ g = [i \in 0 .. m + 1 |-> g[i]]
    OBVIOUS
  <2> HIDE DEF g
  <2>7. g = [i \in 0 .. m + 1 |-> IF i = 0 THEN {0} ELSE Hub!Row(tokens[i], name, g[i - 1])]
    BY <2>5, <2>6
  <2> QED
    BY <1>2, <2>7 DEF RowsUpTo
<1>3. n \in T
  <2>1. 0 .. n \subseteq T
    BY <1>1, <1>2, CountingUp
  <2> QED
    BY <2>1
<1> QED
  BY <1>3

\* The rows are what their definition says.
LEMMA RowsEach ==
  ASSUME NEW tokens, NEW name, Len(tokens) \in Nat
  PROVE  LET rows == Hub!Rows(tokens, name) IN
         /\ rows[0] = {0}
         /\ \A i \in 0 .. Len(tokens) - 1 : rows[i + 1] = Hub!Row(tokens[i + 1], name, rows[i])
<1> DEFINE n == Len(tokens)
           rows == Hub!Rows(tokens, name)
<1>1. rows = CHOOSE f : RowsUpTo(tokens, name, n, f)
  BY DEF Hub!Rows, RowsUpTo
<1>2. RowsUpTo(tokens, name, n, rows)
  BY <1>1, RowsExist
<1> HIDE DEF rows
<1>3. \A i \in 0 .. n : rows[i] = IF i = 0 THEN {0} ELSE Hub!Row(tokens[i], name, rows[i - 1])
  BY <1>2 DEF RowsUpTo
<1>4. rows[0] = {0}
  BY <1>3
<1>5. ASSUME NEW i \in 0 .. n - 1 PROVE rows[i + 1] = Hub!Row(tokens[i + 1], name, rows[i])
  <2>1. i + 1 \in 0 .. n /\ i + 1 # 0 /\ (i + 1) - 1 = i
    OBVIOUS
  <2> QED
    BY <1>3, <2>1
<1> QED
  BY <1>4, <1>5 DEF rows

\* A token fits the piece of name between two cuts.
Fits(token, name, a, b) ==
    IF token.star THEN a <= b ELSE b = a + 1 /\ name[b] \in token.chars

\* How the first j tokens may cut name so that they end at k, and where they
\* may end.
Cuts(tokens, name, j, k) ==
    {cut \in [0 .. j -> 0 .. Len(name)] :
        /\ cut[0] = 0 /\ cut[j] = k
        /\ \A i \in 1 .. j : Fits(tokens[i], name, cut[i - 1], cut[i])}
Reach(tokens, name, j) == {k \in 0 .. Len(name) : Cuts(tokens, name, j, k) # {}}

\* One row of a match is one more token that fits.
LEMMA RowFits ==
  ASSUME NEW token \in Hub!Token, NEW name, Len(name) \in Nat, NEW before,
         before \subseteq 0 .. Len(name)
  PROVE  Hub!Row(token, name, before)
           = {k \in 0 .. Len(name) : \E b \in before : Fits(token, name, b, k)}
<1> DEFINE fit == {k \in 0 .. Len(name) : \E b \in before : Fits(token, name, b, k)}
<1>1. CASE token.star
  BY <1>1 DEF Hub!Row, Fits
<1>2. CASE ~token.star
  <2>1. ASSUME NEW k \in Hub!Row(token, name, before) PROVE k \in fit
    <3>1. PICK b \in before : b < Len(name) /\ name[b + 1] \in token.chars /\ k = b + 1
      BY <1>2, <2>1 DEF Hub!Row
    <3>2. k \in 0 .. Len(name) /\ Fits(token, name, b, k)
      BY <1>2, <3>1 DEF Fits
    <3> QED
      BY <3>2
  <2>2. ASSUME NEW k \in fit PROVE k \in Hub!Row(token, name, before)
    <3>1. PICK b \in before : Fits(token, name, b, k)
      BY <2>2
    <3>2. k = b + 1 /\ b < Len(name) /\ name[b + 1] \in token.chars
      BY <1>2, <3>1 DEF Fits
    <3> QED
      BY <1>2, <3>2 DEF Hub!Row
  <2> QED
    BY <2>1, <2>2
<1> QED
  BY <1>1, <1>2

\* No token reaches only the beginning.
LEMMA ReachNone ==
  ASSUME NEW tokens, NEW name, Len(name) \in Nat
  PROVE  Reach(tokens, name, 0) = {0}
<1> DEFINE cut == [i \in 0 .. 0 |-> 0]
<1>1. cut \in [0 .. 0 -> 0 .. Len(name)] /\ cut[0] = 0 /\ 1 .. 0 = {}
  OBVIOUS
<1> HIDE DEF cut
<1>2. cut \in Cuts(tokens, name, 0, 0)
  BY <1>1 DEF Cuts
<1>3. 0 \in Reach(tokens, name, 0)
  BY <1>2 DEF Reach
<1>4. \A k \in Reach(tokens, name, 0) : k = 0
  BY DEF Reach, Cuts
<1> QED
  BY <1>3, <1>4

\* One more token reaches what fits it from where the tokens before end.
LEMMA ReachMore ==
  ASSUME NEW tokens, NEW name, Len(name) \in Nat, NEW j \in Nat, tokens[j + 1] \in Hub!Token
  PROVE  Reach(tokens, name, j + 1) = Hub!Row(tokens[j + 1], name, Reach(tokens, name, j))
<1> DEFINE fit == {k \in 0 .. Len(name) :
                     \E b \in Reach(tokens, name, j) : Fits(tokens[j + 1], name, b, k)}
<1>1. Hub!Row(tokens[j + 1], name, Reach(tokens, name, j)) = fit
  <2>1. Reach(tokens, name, j) \subseteq 0 .. Len(name)
    BY DEF Reach
  <2> QED
    BY <2>1, RowFits
<1>2. ASSUME NEW k \in Reach(tokens, name, j + 1) PROVE k \in fit
  <2>1. PICK cut \in Cuts(tokens, name, j + 1, k) : TRUE
    BY <1>2 DEF Reach
  <2>2. /\ cut \in [0 .. j + 1 -> 0 .. Len(name)] /\ cut[0] = 0 /\ cut[j + 1] = k
        /\ \A i \in 1 .. j + 1 : Fits(tokens[i], name, cut[i - 1], cut[i])
    BY <2>1 DEF Cuts
  <2>3. /\ j \in 0 .. j + 1 /\ j + 1 \in 1 .. j + 1 /\ (j + 1) - 1 = j
        /\ \A i \in 1 .. j : i \in 1 .. j + 1 /\ i \in 0 .. j /\ i - 1 \in 0 .. j
    OBVIOUS
  <2> DEFINE short == [i \in 0 .. j |-> cut[i]]
  <2>4. /\ short \in [0 .. j -> 0 .. Len(name)] /\ short[0] = cut[0] /\ short[j] = cut[j]
        /\ \A i \in 0 .. j : short[i] = cut[i]
    BY <2>2
  <2> HIDE DEF short
  <2>5. \A i \in 1 .. j : Fits(tokens[i], name, short[i - 1], short[i])
    BY <2>2, <2>3, <2>4
  <2>6. short \in Cuts(tokens, name, j, cut[j])
    BY <2>2, <2>4, <2>5 DEF Cuts
  <2>7. cut[j] \in 0 .. Len(name)
    BY <2>2, <2>3
  <2>8. cut[j] \in Reach(tokens, name, j)
    BY <2>6, <2>7 DEF Reach
  <2>9. Fits(tokens[j + 1], name, cut[j], k)
    BY <2>2, <2>3
  <2>10. k \in 0 .. Len(name)
    BY <1>2 DEF Reach
  <2> QED
    BY <2>8, <2>9, <2>10
<1>3. ASSUME NEW k \in fit PROVE k \in Reach(tokens, name, j + 1)
  <2>1. k \in 0 .. Len(name)
    BY <1>3
  <2>2. PICK b \in Reach(tokens, name, j) : Fits(tokens[j + 1], name, b, k)
    BY <1>3
  <2>3. PICK cut \in Cuts(tokens, name, j, b) : TRUE
    BY <2>2 DEF Reach
  <2>4. /\ cut \in [0 .. j -> 0 .. Len(name)] /\ cut[0] = 0 /\ cut[j] = b
        /\ \A i \in 1 .. j : Fits(tokens[i], name, cut[i - 1], cut[i])
    BY <2>3 DEF Cuts
  <2> DEFINE long == [i \in 0 .. j + 1 |-> IF i = j + 1 THEN k ELSE cut[i]]
  <2>5. /\ long \in [0 .. j + 1 -> 0 .. Len(name)] /\ long[j + 1] = k
        /\ \A i \in 0 .. j : long[i] = cut[i]
    BY <2>1, <2>4
  <2> HIDE DEF long
  <2>6. long[0] = 0 /\ long[j] = b
    BY <2>4, <2>5
  <2>7. ASSUME NEW i \in 1 .. j + 1 PROVE Fits(tokens[i], name, long[i - 1], long[i])
    <3>1. CASE i = j + 1
      <4>1. i - 1 = j
        BY <3>1
      <4> QED
        BY <2>2, <2>5, <2>6, <3>1, <4>1
    <3>2. CASE i \in 1 .. j
      <4>1. i \in 0 .. j /\ i - 1 \in 0 .. j
        BY <3>2
      <4> QED
        BY <2>4, <2>5, <3>2, <4>1
    <3> QED
      BY <3>1, <3>2
  <2>8. long \in Cuts(tokens, name, j + 1, k)
    BY <2>5, <2>6, <2>7 DEF Cuts
  <2> QED
    BY <2>1, <2>8 DEF Reach
<1> QED
  BY <1>1, <1>2, <1>3

\* A second star adds nothing to the first.
LEMMA StarTwice ==
  ASSUME NEW one \in Hub!Token, NEW two \in Hub!Token, one.star, two.star, NEW name,
         Len(name) \in Nat, NEW before, before \subseteq 0 .. Len(name)
  PROVE  Hub!Row(two, name, Hub!Row(one, name, before)) = Hub!Row(one, name, before)
<1> DEFINE row == Hub!Row(one, name, before)
<1>1. row = {i \in 0 .. Len(name) : \E k \in before : k <= i}
  BY DEF Hub!Row
<1>2. Hub!Row(two, name, row) = {i \in 0 .. Len(name) : \E k \in row : k <= i}
  BY DEF Hub!Row
<1>3. row \subseteq 0 .. Len(name)
  BY <1>1
<1> QED
  BY <1>1, <1>2, <1>3

\* The tokens that are kept, up to a place.
KeptUpTo(tokens, k) == {j \in Hub!Kept(tokens) : j <= k}

\* What is kept of a pattern is some of its tokens.
LEMMA KeptPlaces ==
  ASSUME NEW tokens \in Seq(Hub!Token)
  PROVE  Hub!Kept(tokens) \subseteq 1 .. Len(tokens) /\ Len(tokens) \in Nat
  BY DEF Hub!Kept

\* How many tokens are kept up to a place is their rank.
LEMMA KeptFinite ==
  ASSUME NEW tokens \in Seq(Hub!Token), NEW k \in Nat
  PROVE  /\ Hub!Kept(tokens) \subseteq 1 .. Len(tokens) /\ Len(tokens) \in Nat
         /\ IsFiniteSet(Hub!Kept(tokens)) /\ Cardinality(Hub!Kept(tokens)) \in Nat
         /\ IsFiniteSet(KeptUpTo(tokens, k))
         /\ Hub!Rank(tokens, k) = Cardinality(KeptUpTo(tokens, k)) /\ Hub!Rank(tokens, k) \in Nat
         /\ Hub!Rank(tokens, k) <= Cardinality(Hub!Kept(tokens))
<1>1. Hub!Kept(tokens) \subseteq 1 .. Len(tokens) /\ Len(tokens) \in Nat
  BY DEF Hub!Kept
<1>2. IsFiniteSet(Hub!Kept(tokens))
  <2>1. IsFiniteSet(1 .. Len(tokens))
    BY <1>1, FS_Interval
  <2> QED
    BY <1>1, <2>1, FS_Subset
<1>3. IsFiniteSet(KeptUpTo(tokens, k)) /\ Cardinality(KeptUpTo(tokens, k)) <= Cardinality(Hub!Kept(tokens))
  <2>1. KeptUpTo(tokens, k) \subseteq Hub!Kept(tokens)
    BY DEF KeptUpTo
  <2> QED
    BY <1>2, <2>1, FS_Subset
<1>4. Cardinality(Hub!Kept(tokens)) \in Nat /\ Cardinality(KeptUpTo(tokens, k)) \in Nat
  BY <1>2, <1>3, FS_CardinalityType
<1>5. Hub!Rank(tokens, k) = Cardinality(KeptUpTo(tokens, k))
  BY HubSets DEF Hub!Rank, KeptUpTo
<1> QED
  BY <1>1, <1>2, <1>3, <1>4, <1>5

\* The rank goes up by one at every token that is kept, and nowhere else.
LEMMA RankStep ==
  ASSUME NEW tokens \in Seq(Hub!Token)
  PROVE  /\ Hub!Rank(tokens, 0) = 0
         /\ Hub!Rank(tokens, Len(tokens)) = Cardinality(Hub!Kept(tokens))
         /\ \A j \in Nat :
               Hub!Rank(tokens, j + 1)
                 = Hub!Rank(tokens, j) + (IF j + 1 \in Hub!Kept(tokens) THEN 1 ELSE 0)
<1>1. Hub!Kept(tokens) \subseteq 1 .. Len(tokens) /\ Len(tokens) \in Nat
  BY KeptFinite
<1>2. KeptUpTo(tokens, 0) = {} /\ KeptUpTo(tokens, Len(tokens)) = Hub!Kept(tokens)
  BY <1>1 DEF KeptUpTo
<1>3. Hub!Rank(tokens, 0) = 0 /\ Hub!Rank(tokens, Len(tokens)) = Cardinality(Hub!Kept(tokens))
  BY <1>1, <1>2, KeptFinite, FS_EmptySet
<1>4. ASSUME NEW j \in Nat
      PROVE  Hub!Rank(tokens, j + 1)
               = Hub!Rank(tokens, j) + (IF j + 1 \in Hub!Kept(tokens) THEN 1 ELSE 0)
  <2>1. j + 1 \in Nat /\ j + 1 \notin KeptUpTo(tokens, j)
    BY DEF KeptUpTo
  <2>2. /\ Hub!Rank(tokens, j) = Cardinality(KeptUpTo(tokens, j)) /\ Hub!Rank(tokens, j) \in Nat
        /\ Hub!Rank(tokens, j + 1) = Cardinality(KeptUpTo(tokens, j + 1))
        /\ IsFiniteSet(KeptUpTo(tokens, j))
    BY <2>1, KeptFinite
  <2>3. CASE j + 1 \in Hub!Kept(tokens)
    <3>1. KeptUpTo(tokens, j + 1) = KeptUpTo(tokens, j) \cup {j + 1}
      BY <1>1, <2>3 DEF KeptUpTo
    <3>2. Cardinality(KeptUpTo(tokens, j + 1)) = Cardinality(KeptUpTo(tokens, j)) + 1
      BY <2>1, <2>2, <3>1, FS_AddElement
    <3> QED
      BY <2>2, <2>3, <3>2
  <2>4. CASE j + 1 \notin Hub!Kept(tokens)
    <3>1. KeptUpTo(tokens, j + 1) = KeptUpTo(tokens, j)
      BY <1>1, <2>4 DEF KeptUpTo
    <3> QED
      BY <2>2, <2>4, <3>1
  <2> QED
    BY <2>3, <2>4
<1> QED
  BY <1>3, <1>4

\* No two tokens that are kept have the same rank.
LEMMA RankUnique ==
  ASSUME NEW tokens \in Seq(Hub!Token), NEW i \in Hub!Kept(tokens), NEW k \in Hub!Kept(tokens),
         i < k
  PROVE  Hub!Rank(tokens, i) < Hub!Rank(tokens, k)
<1>1. i \in Nat /\ k \in Nat /\ k - 1 \in Nat /\ (k - 1) + 1 = k
  BY KeptPlaces
<1>2. Hub!Rank(tokens, k) = Hub!Rank(tokens, k - 1) + 1
  <2>1. Hub!Rank(tokens, (k - 1) + 1)
          = Hub!Rank(tokens, k - 1) + (IF (k - 1) + 1 \in Hub!Kept(tokens) THEN 1 ELSE 0)
    BY <1>1, RankStep
  <2> QED
    BY <1>1, <2>1
<1>3. KeptUpTo(tokens, i) \subseteq KeptUpTo(tokens, k - 1)
  BY <1>1, KeptPlaces DEF KeptUpTo
<1>4. /\ Hub!Rank(tokens, i) = Cardinality(KeptUpTo(tokens, i)) /\ Hub!Rank(tokens, i) \in Nat
      /\ Hub!Rank(tokens, k - 1) = Cardinality(KeptUpTo(tokens, k - 1))
      /\ Hub!Rank(tokens, k - 1) \in Nat /\ IsFiniteSet(KeptUpTo(tokens, k - 1))
  BY <1>1, KeptFinite
<1>5. Cardinality(KeptUpTo(tokens, i)) <= Cardinality(KeptUpTo(tokens, k - 1))
  BY <1>3, <1>4, FS_Subset
<1> QED
  BY <1>2, <1>4, <1>5

\* The compiled pattern has the tokens that are kept, each at its rank.
LEMMA CompiledAt ==
  ASSUME NEW tokens \in Seq(Hub!Token)
  PROVE  /\ Len(Hub!Compiled(tokens)) = Cardinality(Hub!Kept(tokens))
         /\ \A k \in Hub!Kept(tokens) : Hub!Compiled(tokens)[Hub!Rank(tokens, k)] = tokens[k]
<1> DEFINE n == Cardinality(Hub!Kept(tokens))
           at(i) == CHOOSE k \in Hub!Kept(tokens) : Hub!Rank(tokens, k) = i
<1>1. n \in Nat /\ Hub!Compiled(tokens) = [i \in 1 .. n |-> tokens[at(i)]]
  BY KeptFinite, HubSets DEF Hub!Compiled
<1> HIDE DEF n
<1>2. Len(Hub!Compiled(tokens)) = n
  BY <1>1
<1>3. ASSUME NEW k \in Hub!Kept(tokens) PROVE Hub!Compiled(tokens)[Hub!Rank(tokens, k)] = tokens[k]
  <2>1. k \in Nat /\ k - 1 \in Nat /\ (k - 1) + 1 = k
    BY KeptPlaces
  <2>2. Hub!Rank(tokens, k) \in Nat /\ Hub!Rank(tokens, k) <= n /\ Hub!Rank(tokens, k - 1) \in Nat
    BY <2>1, KeptFinite DEF n
  <2>3. Hub!Rank(tokens, (k - 1) + 1)
          = Hub!Rank(tokens, k - 1) + (IF (k - 1) + 1 \in Hub!Kept(tokens) THEN 1 ELSE 0)
    BY <2>1, RankStep
  <2>4. Hub!Rank(tokens, k) \in 1 .. n
    BY <1>1, <2>1, <2>2, <2>3
  <2>5. at(Hub!Rank(tokens, k)) \in Hub!Kept(tokens)
        /\ Hub!Rank(tokens, at(Hub!Rank(tokens, k))) = Hub!Rank(tokens, k)
    OBVIOUS
  <2> HIDE DEF at
  <2>6. at(Hub!Rank(tokens, k)) = k
    <3> DEFINE i == at(Hub!Rank(tokens, k))
    <3>1. i \in Nat /\ k \in Nat /\ Hub!Rank(tokens, i) \in Nat
      BY <2>1, <2>5, KeptPlaces, KeptFinite
    <3>2. i \in Hub!Kept(tokens) /\ Hub!Rank(tokens, i) = Hub!Rank(tokens, k)
      BY <2>5
    <3> HIDE DEF i
    <3>3. ~(i < k)
      BY <3>1, <3>2, RankUnique
    <3>4. ~(k < i)
      BY <3>1, <3>2, RankUnique
    <3>5. i = k
      BY <3>1, <3>3, <3>4
    <3> QED
      BY <3>5 DEF i
  <2> QED
    BY <1>1, <2>4, <2>6
<1> QED
  BY <1>2, <1>3 DEF n

\* The row of a match at the rank of a token holds where the tokens so far
\* may end: what compilation leaves out changes no row.
LEMMA RowsReach ==
  ASSUME NEW tokens \in Seq(Hub!Token), NEW name, Len(name) \in Nat
  PROVE  \A j \in 0 .. Len(tokens) :
            Hub!Rows(Hub!Compiled(tokens), name)[Hub!Rank(tokens, j)] = Reach(tokens, name, j)
<1> DEFINE rows == Hub!Rows(Hub!Compiled(tokens), name)
           n == Len(tokens)
           T == {j \in 0 .. n : rows[Hub!Rank(tokens, j)] = Reach(tokens, name, j)}
<1>1. /\ n \in Nat /\ Hub!Kept(tokens) \subseteq 1 .. n /\ Cardinality(Hub!Kept(tokens)) \in Nat
      /\ Len(Hub!Compiled(tokens)) = Cardinality(Hub!Kept(tokens))
  BY KeptPlaces, KeptFinite, CompiledAt
<1>2. /\ rows[0] = {0}
      /\ \A i \in 0 .. Cardinality(Hub!Kept(tokens)) - 1 :
            rows[i + 1] = Hub!Row(Hub!Compiled(tokens)[i + 1], name, rows[i])
  BY <1>1, RowsEach
<1> HIDE DEF rows
<1>3. 0 \in T
  <2>1. Hub!Rank(tokens, 0) = 0 /\ Reach(tokens, name, 0) = {0} /\ 0 \in 0 .. n
    BY <1>1, RankStep, ReachNone
  <2> QED
    BY <1>2, <2>1
<1>4. ASSUME NEW j \in 0 .. n, j \in T, j < n PROVE j + 1 \in T
  <2>1. j \in Nat /\ j + 1 \in 1 .. n /\ j + 1 \in 0 .. n /\ tokens[j + 1] \in Hub!Token
    BY <1>1, <1>4
  <2>2. /\ Hub!Rank(tokens, j) \in Nat /\ Hub!Rank(tokens, j + 1) \in Nat
        /\ Hub!Rank(tokens, j + 1) <= Cardinality(Hub!Kept(tokens))
    BY <2>1, KeptFinite
  <2>3. Hub!Rank(tokens, j + 1)
          = Hub!Rank(tokens, j) + (IF j + 1 \in Hub!Kept(tokens) THEN 1 ELSE 0)
    BY <2>1, RankStep
  <2>4. Reach(tokens, name, j + 1) = Hub!Row(tokens[j + 1], name, Reach(tokens, name, j))
    BY <2>1, ReachMore
  <2>5. rows[Hub!Rank(tokens, j)] = Reach(tokens, name, j)
    BY <1>4
  <2>6. CASE j + 1 \in Hub!Kept(tokens)
    <3>1. Hub!Rank(tokens, j + 1) = Hub!Rank(tokens, j) + 1
      BY <2>2, <2>3, <2>6
    <3>2. Hub!Rank(tokens, j) \in 0 .. Cardinality(Hub!Kept(tokens)) - 1
      BY <1>1, <2>2, <3>1
    <3>3. Hub!Compiled(tokens)[Hub!Rank(tokens, j + 1)] = tokens[j + 1]
      BY <2>6, CompiledAt
    <3> QED
      BY <1>2, <2>1, <2>4, <2>5, <3>1, <3>2, <3>3
  <2>7. CASE j + 1 \notin Hub!Kept(tokens)
    <3>1. Hub!Rank(tokens, j + 1) = Hub!Rank(tokens, j)
      BY <2>2, <2>3, <2>7
    <3>2. tokens[j + 1].star /\ j \in 1 .. n /\ tokens[j].star
      <4>1. j + 1 \in DOMAIN tokens
        BY <2>1
      <4>2. tokens[j + 1].star /\ j + 1 > 1 /\ tokens[(j + 1) - 1].star
        BY <2>7, <4>1 DEF Hub!Kept
      <4> QED
        BY <2>1, <4>2
    <3>3. j - 1 \in Nat /\ (j - 1) + 1 = j /\ tokens[j] \in Hub!Token
      BY <3>2
    <3>4. Reach(tokens, name, j) = Hub!Row(tokens[j], name, Reach(tokens, name, j - 1))
      <4>1. tokens[(j - 1) + 1] \in Hub!Token
        BY <3>3
      <4>2. Reach(tokens, name, (j - 1) + 1)
              = Hub!Row(tokens[(j - 1) + 1], name, Reach(tokens, name, j - 1))
        BY <3>3, <4>1, ReachMore
      <4> QED
        BY <3>3, <4>2
    <3>5. Reach(tokens, name, j - 1) \subseteq 0 .. Len(name)
      BY DEF Reach
    <3>6. Hub!Row(tokens[j + 1], name, Reach(tokens, name, j)) = Reach(tokens, name, j)
      BY <2>1, <3>2, <3>3, <3>4, <3>5, StarTwice
    <3> QED
      BY <2>1, <2>4, <2>5, <3>1, <3>6
  <2> QED
    BY <2>6, <2>7
<1>5. 0 .. n \subseteq T
  <2> HIDE DEF T
  <2> QED
    BY <1>1, <1>3, <1>4, CountingUp
<1> QED
  BY <1>5 DEF rows

\* A pattern matches a name exactly when its tokens can cut it up, for every
\* pattern and every name (cache/filter.rs: compile_normalized,
\* Pattern::matches; adr/0005 says what a glob means).
THEOREM MatchesMeans ==
  ASSUME NEW pattern \in Seq(Hub!Token), NEW name \in Seq(Character)
  PROVE  Hub!Matches(pattern, name) <=> Hub!Means(pattern, name)
<1> DEFINE tokens == Hub!Normalized(pattern)
<1>1. tokens \in Seq(Hub!Token)
  <2>1. Hub!Star \in Hub!Token
    BY DEF Hub!Star, Hub!Token
  <2> QED
    BY <2>1 DEF Hub!Normalized
<1>2. Len(name) \in Nat
  OBVIOUS
<1>3. Hub!Matches(pattern, name)
        <=> Len(name) \in Hub!Rows(Hub!Compiled(tokens), name)[Len(Hub!Compiled(tokens))]
  BY DEF Hub!Matches
<1>4. Hub!Means(pattern, name) <=> Cuts(tokens, name, Len(tokens), Len(name)) # {}
  BY DEF Hub!Means, Cuts, Fits
<1> HIDE DEF tokens
<1>5. Len(tokens) \in 0 .. Len(tokens)
  BY <1>1
<1>6. Hub!Rows(Hub!Compiled(tokens), name)[Len(Hub!Compiled(tokens))]
        = Reach(tokens, name, Len(tokens))
  <2>1. Len(Hub!Compiled(tokens)) = Hub!Rank(tokens, Len(tokens))
    BY <1>1, CompiledAt, RankStep
  <2> QED
    BY <1>1, <1>2, <1>5, <2>1, RowsReach
<1>7. Len(name) \in Reach(tokens, name, Len(tokens))
        <=> Cuts(tokens, name, Len(tokens), Len(name)) # {}
  BY <1>2 DEF Reach
<1> QED
  BY <1>3, <1>4, <1>6, <1>7

\* The filter selects what its patterns mean.
LEMMA IncludesMeans ==
  ASSUME NEW r \in Requests, NEW x \in Path
  PROVE  Hub!Includes(r, x) <=> Hub!Selects(r, x)
<1>1. Name[x] \in Seq(Character) /\ r.allow \subseteq Seq(Hub!Token) /\ r.ignore \subseteq Seq(Hub!Token)
  BY HubAssumption DEF Hub!PlanConstants
<1>2. \A g \in r.allow \cup r.ignore : Hub!Matches(g, Name[x]) <=> Hub!Means(g, Name[x])
  BY <1>1, MatchesMeans
<1> QED
  BY <1>2 DEF Hub!Includes, Hub!Selects

-----------------------------------------------------------------------------
(* The plan.                                                               *)

\* A step that ends with an error makes no plan.
LEMMA EndsWithoutPlan ==
  ASSUME NEW k, k # "planned", NEW plan, Hub!Ends(k, plan)
  PROVE  Hub!ExactStep
<1>1. outcome'.kind = k
  BY DEF Hub!Ends
<1> QED
  BY <1>1 DEF Hub!ExactStep

\* What is planned is exact.
LEMMA ExactWhenPlanned ==
  ASSUME Hub!PlanIInv, Hub!BuildPlan
  PROVE  Hub!ExactStep
<1>1. CASE Hub!Fails("invalid")
  BY <1>1, EndsWithoutPlan DEF Hub!Fails
<1>2. CASE Hub!Ends("planned", [commit |-> commit,
                                paths |-> {x \in Hub!Listed : Hub!Includes(request, x)}])
  <2>1. stage = "plan"
    BY DEF Hub!BuildPlan
  <2>2. /\ outcome'.plan.commit = commit
        /\ outcome'.plan.paths = {x \in Hub!Listed : Hub!Includes(request, x)}
    BY <1>2 DEF Hub!Ends
  <2>3. /\ request \in Requests /\ request.revision \in {commit, "main"}
        /\ Hub!Listed = Hub!Sent \cap Path /\ Hub!Retrieved
    BY <2>1, PlanParts
  <2>4. \A x \in Path : Hub!Includes(request, x) <=> Hub!Selects(request, x)
    BY <2>3, IncludesMeans
  <2>5. outcome'.plan.paths = {x \in Hub!Sent \cap Path : Hub!Selects(request, x)}
    BY <2>2, <2>3, <2>4
  <2> QED
    BY <2>1, <2>2, <2>3, <2>5 DEF Hub!ExactStep, Hub!Retrieved
<1> QED
  BY <1>1, <1>2 DEF Hub!BuildPlan

\* Every step of the planner makes an exact plan or none.
LEMMA EveryStepExact == Hub!PlanIInv /\ [Hub!Next]_planVars => [Hub!ExactStep]_planVars
<1> SUFFICES ASSUME Hub!PlanIInv, Hub!Next, ~UNCHANGED planVars PROVE Hub!ExactStep
  OBVIOUS
<1>1. ASSUME UNCHANGED outcome PROVE Hub!ExactStep
  BY <1>1 DEF Hub!ExactStep
<1>2. CASE \E r \in Requests : Hub!Ask(r)
  BY <1>1, <1>2 DEF Hub!Ask
<1>3. CASE \E u \in Url : Hub!Redirected(u)
  BY <1>1, <1>3, EndsWithoutPlan DEF Hub!Redirected, Hub!Fails
<1>4. CASE \E k \in Hub!ErrorKinds : Hub!Unusable(k)
  BY <1>4, EndsWithoutPlan DEF Hub!Unusable, Hub!Fails, Hub!ErrorKinds
<1>5. CASE \E c \in Commit : Hub!Resolved(c)
  BY <1>1, <1>5 DEF Hub!Resolved
<1>6. CASE \E entries \in PageEntries, link \in Url \cup {None} : Hub!TreePage(entries, link)
  BY <1>1, <1>6, EndsWithoutPlan DEF Hub!TreePage, Hub!Fails
<1>7. CASE Hub!BuildPlan
  BY <1>7, ExactWhenPlanned
<1> QED
  BY <1>2, <1>3, <1>4, <1>5, <1>6, <1>7 DEF Hub!Next, Hub!Response

\* A plan is made only from a tree retrieved to its last page, of the commit
\* that was asked for or that the revision resolved to, and holds exactly
\* the files the filter means (hub_protocol.rs: retrieve_tree;
\* fetch_plan.rs: FetchPlan::build; cache/filter.rs), whatever the server
\* answers and for every filter.
THEOREM PlanExact == FetchSpec => PlanIsExact
<1>1. [Plans \/ Publishes]_fetchVars => [Hub!Next]_planVars
  BY DEF Plans, Publishes, fetchVars
<1>2. Hub!PlanIInv /\ [Plans \/ Publishes]_fetchVars => [Hub!ExactStep]_planVars
  BY <1>1, EveryStepExact
<1>3. FetchSpec => [][Hub!ExactStep]_planVars
  BY <1>2, PlanInductive, PTL DEF FetchSpec
<1> QED
  BY <1>3 DEF PlanIsExact, Hub!PlanIsExact, planVars, Hub!planVars
===============================================================================
