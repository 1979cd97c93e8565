------------------------- MODULE BatchValidationProofs -------------------------
(***************************************************************************)
(* Proofs about BatchValidation and the two modules it is made of, for any *)
(* datasets, imports, finite number of workers and request.                *)
(***************************************************************************)
EXTENDS BatchValidation, CollectionLemmas

-------------------------------------------------------------------------------
(* What an import is refused for                                           *)

(* What PutGraph and ValidateGraph look for, without the order in which    *)
(* they look.                                                              *)
Sound(import) ==
    /\ \A i \in DOMAIN import.nodes :
          ValidNode(import.nodes[i]) /\ ~ Repeated(import.nodes, i)
    /\ \A i \in DOMAIN import.edges :
          /\ ValidEdge(import.edges[i])
          /\ HasEnds(import, import.edges[i])
          /\ ~ Repeated(import.edges, i)

LEMMA ImportLists ==
    ASSUME NEW import \in Lists
    PROVE  /\ Len(import.nodes) \in Nat /\ DOMAIN import.nodes = 1 .. Len(import.nodes)
           /\ Len(import.edges) \in Nat /\ DOMAIN import.edges = 1 .. Len(import.edges)
<1>1. /\ import.nodes \in Seq(ToSet(import.nodes))
      /\ import.edges \in Seq(ToSet(import.edges))
  BY ListsAssumption
<1> QED  BY <1>1

(* PutGraph goes through nodes and edges until it meets a problem: it      *)
(* answers "ok" if and only if there is none.                              *)
LEMMA OkIsSound ==
    ASSUME NEW import \in Lists
    PROVE  PutAnswer(import) = "ok" <=> Sound(import)
<1> DEFINE m == Len(import.nodes)
           n == Len(import.edges)
           ofNodes == [i \in DOMAIN import.nodes |-> NodeAnswer(import, i)]
           ofEdges == [i \in DOMAIN import.edges |-> EdgeAnswer(import, i)]
           answers == ofNodes \o ofEdges
           Answers == {"ok", "conflict", "operation_failed"}
           refusals == {i \in DOMAIN answers : answers[i] # "ok"}
<1>1. /\ m \in Nat /\ DOMAIN import.nodes = 1 .. m
      /\ n \in Nat /\ DOMAIN import.edges = 1 .. n
  BY ImportLists
<1>2. \A i : NodeAnswer(import, i) \in Answers /\ EdgeAnswer(import, i) \in Answers
  BY DEF NodeAnswer, EdgeAnswer
<1>3. ofNodes \in [1 .. m -> Answers] /\ ofEdges \in [1 .. n -> Answers]
  BY <1>1, <1>2
<1>4. ofNodes \in Seq(Answers) /\ ofEdges \in Seq(Answers) /\ Len(ofNodes) = m /\ Len(ofEdges) = n
  BY <1>1, <1>3
<1>5. /\ answers \in Seq(Answers) /\ DOMAIN answers = 1 .. (m + n)
      /\ \A i \in 1 .. m : answers[i] = ofNodes[i]
      /\ \A i \in 1 .. n : answers[m + i] = ofEdges[i]
  <2> HIDE DEF m, n, ofNodes, ofEdges
  <2> QED  BY <1>1, <1>4
<1>6. /\ \A i \in 1 .. m : ofNodes[i] = "ok" <=>
            ValidNode(import.nodes[i]) /\ ~ Repeated(import.nodes, i)
      /\ \A i \in 1 .. n : ofEdges[i] = "ok" <=>
            /\ ValidEdge(import.edges[i])
            /\ HasEnds(import, import.edges[i])
            /\ ~ Repeated(import.edges, i)
  BY <1>1 DEF NodeAnswer, EdgeAnswer
<1>7. PutAnswer(import) = IF refusals = {} THEN "ok" ELSE answers[Min(refusals)]
  BY DEF PutAnswer
<1> HIDE DEF m, n, Answers, answers, ofNodes, ofEdges
<1>8. PutAnswer(import) = "ok" <=> \A i \in DOMAIN answers : answers[i] = "ok"
  <2>1. refusals \subseteq Nat
    BY <1>1, <1>5
  <2>2. refusals # {} => Min(refusals) \in refusals
    BY <2>1, LeastNumber
  <2> QED  BY <1>7, <2>2
<1> HIDE DEF refusals
<1>9. (\A i \in DOMAIN answers : answers[i] = "ok") <=>
         /\ \A i \in 1 .. m : ofNodes[i] = "ok"
         /\ \A i \in 1 .. n : ofEdges[i] = "ok"
  <2>1. ASSUME \A i \in DOMAIN answers : answers[i] = "ok"
        PROVE  (\A i \in 1 .. m : ofNodes[i] = "ok") /\ \A i \in 1 .. n : ofEdges[i] = "ok"
    <3>1. \A i \in 1 .. m : i \in DOMAIN answers
      BY <1>1, <1>5
    <3>2. \A i \in 1 .. n : m + i \in DOMAIN answers
      BY <1>1, <1>5
    <3> QED  BY <1>5, <2>1, <3>1, <3>2
  <2>2. ASSUME \A i \in 1 .. m : ofNodes[i] = "ok", \A i \in 1 .. n : ofEdges[i] = "ok",
               NEW i \in DOMAIN answers
        PROVE  answers[i] = "ok"
    <3>1. CASE i <= m
      BY <1>1, <1>5, <2>2, <3>1
    <3>2. CASE ~ (i <= m)
      <4>1. i - m \in 1 .. n /\ i = m + (i - m)
        BY <1>1, <1>5, <3>2
      <4> QED  BY <1>5, <2>2, <4>1
    <3> QED  BY <3>1, <3>2
  <2> QED  BY <2>1, <2>2
<1> QED  BY <1>1, <1>6, <1>8, <1>9 DEF Sound

AllFinite(lists) == \A i \in DOMAIN lists.edges : lists.edges[i].finite

(* ValidateGraph reports an issue if and only if there is a problem, or a  *)
(* length that is not finite.                                              *)
LEMMA NoIssuesIsSound ==
    ASSUME NEW lists
    PROVE  /\ (\A issue \in Issues(lists) : issue[1] = "invalid_length") <=> Sound(lists)
           /\ Issues(lists) = {} <=> Sound(lists) /\ AllFinite(lists)
<1>1. (\A issue \in Issues(lists) : issue[1] = "invalid_length") <=>
        /\ \A j \in DOMAIN lists.nodes : ~ Repeated(lists.nodes, j)
        /\ \A j \in DOMAIN lists.nodes : ValidNode(lists.nodes[j])
        /\ \A j \in DOMAIN lists.edges : ~ Repeated(lists.edges, j)
        /\ \A j \in DOMAIN lists.edges : lists.edges[j].from \in Ids(lists.nodes)
        /\ \A j \in DOMAIN lists.edges : lists.edges[j].to \in Ids(lists.nodes)
        /\ \A j \in DOMAIN lists.edges : ValidEdge(lists.edges[j])
  <2>1. ASSUME \A issue \in Issues(lists) : issue[1] = "invalid_length"
        PROVE  /\ \A j \in DOMAIN lists.nodes : ~ Repeated(lists.nodes, j)
               /\ \A j \in DOMAIN lists.nodes : ValidNode(lists.nodes[j])
               /\ \A j \in DOMAIN lists.edges : ~ Repeated(lists.edges, j)
               /\ \A j \in DOMAIN lists.edges : lists.edges[j].from \in Ids(lists.nodes)
               /\ \A j \in DOMAIN lists.edges : lists.edges[j].to \in Ids(lists.nodes)
               /\ \A j \in DOMAIN lists.edges : ValidEdge(lists.edges[j])
    <3>1. \A kind, j : <<kind, j>> \in Issues(lists) => kind = "invalid_length"
      BY <2>1
    <3> QED  BY <3>1 DEF Issues
  <2> QED  BY <2>1 DEF Issues
<1>2. Issues(lists) = {} <=>
        /\ \A issue \in Issues(lists) : issue[1] = "invalid_length"
        /\ \A j \in DOMAIN lists.edges : lists.edges[j].finite
  <2>1. ASSUME NEW issue \in Issues(lists), issue[1] = "invalid_length"
        PROVE  \E j \in DOMAIN lists.edges : ~ lists.edges[j].finite
    BY <2>1 DEF Issues
  <2>2. \A j \in DOMAIN lists.edges : ~ lists.edges[j].finite => <<"invalid_length", j>> \in Issues(lists)
    BY DEF Issues
  <2> QED  BY <2>1, <2>2
<1>3. (\A issue \in Issues(lists) : issue[1] = "invalid_length") <=> Sound(lists)
  BY <1>1 DEF Sound, HasEnds
<1> QED  BY <1>2, <1>3 DEF AllFinite

LEMMA SoundIsDistinct ==
    ASSUME NEW items, NEW n \in Nat, DOMAIN items = 1 .. n,
           \A i \in DOMAIN items : ~ Repeated(items, i)
    PROVE  \A i, j \in DOMAIN items : items[i].id = items[j].id => i = j
  BY DEF Repeated

-------------------------------------------------------------------------------
(* What the store holds.  That a refused import changes nothing and that   *)
(* the counts agree need the whole of what is stored: the graph is that of *)
(* the last import, which was sound.                                       *)

GraphOf(import, count) ==
    [nodes |-> ToSet(import.nodes), edges |-> ToSet(import.edges), version |-> count]

StoreInv ==
    /\ version \in [Datasets -> Nat]
    /\ accepted \in [Datasets -> Seq(Imports)]
    /\ graph = [d \in Datasets |->
                  IF accepted[d] = <<>> THEN NoGraph
                  ELSE GraphOf(Last(accepted[d]), Len(accepted[d]))]
    /\ \A d \in Datasets : accepted[d] # <<>> =>
          /\ Sound(Last(accepted[d]))
          /\ version[d] = Len(accepted[d])

LEMMA StoreInvInit == StoreInit => StoreInv
<1> SUFFICES ASSUME StoreInit PROVE StoreInv
  OBVIOUS
<1>1. accepted \in [Datasets -> Seq(Imports)] /\ \A d \in Datasets : accepted[d] = <<>>
  BY DEF StoreInit
<1> QED  BY <1>1 DEF StoreInit, StoreInv

LEMMA GraphIsNotNone ==
    ASSUME NEW import \in Imports, NEW n \in Nat PROVE GraphOf(import, n) # NoGraph
<1>1. /\ ToSet(import.nodes) \subseteq UNION {ToSet(i.nodes) : i \in Imports}
      /\ ToSet(import.edges) \subseteq UNION {ToSet(i.edges) : i \in Imports}
  OBVIOUS
<1> QED  BY <1>1, NoGraphAssumption DEF GraphOf

LEMMA LastAppended ==
    ASSUME NEW S, NEW s \in Seq(S), NEW x \in S
    PROVE  /\ Append(s, x) \in Seq(S) /\ Append(s, x) # <<>>
           /\ Last(Append(s, x)) = x
           /\ Len(Append(s, x)) = Len(s) + 1
  BY DEF Last

LEMMA LastIsOne ==
    ASSUME NEW S, NEW s \in Seq(S), s # <<>> PROVE Last(s) \in S /\ Len(s) \in Nat \ {0}
  BY DEF Last

LEMMA StoreInvStep == StoreInv /\ [StoreNext]_storeVars => StoreInv'
<1> SUFFICES ASSUME StoreInv, [StoreNext]_storeVars PROVE StoreInv'
  OBVIOUS
<1> USE DEF StoreInv
<1>1. ASSUME NEW d \in Datasets, CreateDataset(d) PROVE StoreInv'
  <2>1. accepted[d] = <<>>
    <3>1. accepted[d] # <<>> => Len(accepted[d]) # 0
      BY LastIsOne
    <3> QED  BY <1>1, <3>1 DEF CreateDataset
  <2> QED  BY <1>1, <2>1 DEF CreateDataset
<1>2. ASSUME NEW d \in Datasets, NEW import \in Imports, PutGraph(d, import) PROVE StoreInv'
  <2>1. CASE Answer(d, import) # "ok"
    BY <1>2, <2>1 DEF PutGraph, storeVars
  <2>2. CASE Answer(d, import) = "ok"
    <3>1. Sound(import)
      BY <2>2, OkIsSound DEF Answer, Imports
    <3>2. NextVersion(d) = Len(accepted[d]) + 1 /\ Len(accepted[d]) \in Nat
      <4>1. CASE accepted[d] = <<>>
        BY <4>1 DEF NextVersion
      <4>2. CASE accepted[d] # <<>>
        <5>1. Last(accepted[d]) \in Imports /\ Len(accepted[d]) \in Nat
          BY <4>2, LastIsOne
        <5>2. graph[d] # NoGraph
          BY <4>2, <5>1, GraphIsNotNone
        <5>3. graph[d].version = Len(accepted[d])
          BY <4>2 DEF GraphOf
        <5> QED  BY <5>1, <5>2, <5>3 DEF NextVersion
      <4> QED  BY <4>1, <4>2
    <3>3. /\ accepted' = [accepted EXCEPT ![d] = Append(@, import)]
          /\ graph' = [graph EXCEPT ![d] = GraphOf(import, Len(accepted[d]) + 1)]
          /\ version' = [version EXCEPT ![d] = Len(accepted[d]) + 1]
      BY <1>2, <2>2, <3>2 DEF PutGraph, Installed, GraphOf
    <3>4. /\ accepted'[d] \in Seq(Imports) /\ accepted'[d] # <<>>
          /\ Last(accepted'[d]) = import /\ Len(accepted'[d]) = Len(accepted[d]) + 1
      BY <3>3, LastAppended
    <3>5. \A e \in Datasets \ {d} :
             accepted'[e] = accepted[e] /\ graph'[e] = graph[e] /\ version'[e] = version[e]
      BY <3>3
    <3>6. graph' = [e \in Datasets |->
                      IF accepted'[e] = <<>> THEN NoGraph
                      ELSE GraphOf(Last(accepted'[e]), Len(accepted'[e]))]
      BY <3>3, <3>4, <3>5
    <3>7. version' \in [Datasets -> Nat] /\ accepted' \in [Datasets -> Seq(Imports)]
      BY <3>2, <3>3, <3>4
    <3>8. \A e \in Datasets : accepted'[e] # <<>> =>
             Sound(Last(accepted'[e])) /\ version'[e] = Len(accepted'[e])
      BY <3>1, <3>3, <3>4, <3>5
    <3> QED  BY <3>6, <3>7, <3>8
  <2> QED  BY <2>1, <2>2
<1>3. CASE UNCHANGED storeVars
  BY <1>3 DEF storeVars
<1> QED  BY <1>1, <1>2, <1>3 DEF StoreNext

LEMMA StoredGraphs ==
    ASSUME StoreInv, NEW d \in Datasets
    PROVE  /\ graph[d] = NoGraph <=> accepted[d] = <<>>
           /\ accepted[d] # <<>> =>
                 /\ Last(accepted[d]) \in Imports
                 /\ Sound(Last(accepted[d]))
                 /\ graph[d] = GraphOf(Last(accepted[d]), Len(accepted[d]))
                 /\ version[d] = Len(accepted[d])
                 /\ Len(accepted[d]) \in Nat \ {0}
<1>1. accepted[d] # <<>> => Last(accepted[d]) \in Imports /\ Len(accepted[d]) \in Nat \ {0}
  BY LastIsOne DEF StoreInv
<1> QED  BY <1>1, GraphIsNotNone DEF StoreInv

LEMMA StoreInvImplies == StoreInv => GraphsAreImports
<1> SUFFICES ASSUME StoreInv, NEW d \in Datasets PROVE GraphsAreImports!(d)
  BY DEF GraphsAreImports
<1>1. graph[d] = NoGraph <=> accepted[d] = <<>>
  BY StoredGraphs
<1>2. ASSUME accepted[d] # <<>>, NEW import, import = Last(accepted[d])
      PROVE  /\ graph[d].nodes = ToSet(import.nodes)
             /\ graph[d].edges = ToSet(import.edges)
             /\ \A e \in graph[d].edges : e.from # e.to /\ {e.from, e.to} \subseteq {n.id : n \in graph[d].nodes}
             /\ \A m, n \in graph[d].nodes : m.id = n.id => m = n
             /\ \A e, f \in graph[d].edges : e.id = f.id => e = f
             /\ version[d] = Len(accepted[d])
             /\ graph[d].version = Len(accepted[d])
  <2>1. /\ import \in Imports /\ Sound(import)
        /\ graph[d] = GraphOf(import, Len(accepted[d]))
        /\ version[d] = Len(accepted[d])
    BY <1>2, StoredGraphs
  <2>2. /\ graph[d].nodes = ToSet(import.nodes)
        /\ graph[d].edges = ToSet(import.edges)
        /\ graph[d].version = Len(accepted[d])
    BY <2>1 DEF GraphOf
  <2>3. Ids(import.nodes) = {n.id : n \in graph[d].nodes}
    BY <2>2 DEF Ids, ToSet
  <2>4. \A e \in graph[d].edges : e.from # e.to /\ {e.from, e.to} \subseteq Ids(import.nodes)
    BY <2>1, <2>2 DEF Sound, ValidEdge, HasEnds, ToSet
  <2>5. /\ \A i, j \in DOMAIN import.nodes : import.nodes[i].id = import.nodes[j].id => i = j
        /\ \A i, j \in DOMAIN import.edges : import.edges[i].id = import.edges[j].id => i = j
    BY <2>1, ImportLists, SoundIsDistinct DEF Sound, Imports
  <2>6. /\ \A m, n \in graph[d].nodes : m.id = n.id => m = n
        /\ \A e, f \in graph[d].edges : e.id = f.id => e = f
    BY <2>2, <2>5 DEF ToSet
  <2> QED  BY <2>1, <2>2, <2>3, <2>4, <2>6
<1> QED  BY <1>1, <1>2

-------------------------------------------------------------------------------
(* Listing a set: some order, each element once.                           *)

LEMMA Listed ==
    ASSUME NEW S, IsFiniteSet(S)
    PROVE  /\ Cardinality(S) \in Nat
           /\ DOMAIN SetToSeq(S) = 1 .. Cardinality(S)
           /\ IsInjective(SetToSeq(S))
           /\ ToSet(SetToSeq(S)) = S
<1> DEFINE n == Cardinality(S)
           s == SetToSeq(S)
<1>1. n \in Nat /\ \E f : f \in Bijection(1 .. n, S)
  BY FS_CardinalityType DEF ExistsBijection
<1>2. \E f \in [1 .. n -> S] : IsInjective(f)
  BY <1>1 DEF Bijection, Injection
<1>3. s \in [1 .. n -> S] /\ IsInjective(s)
  BY <1>2 DEF SetToSeq
<1>4. IsFiniteSet(1 .. n) /\ Cardinality(1 .. n) = n
  BY <1>1, FS_Interval
<1> HIDE DEF s, n
<1>5. s \in Injection(1 .. n, S)
  BY <1>3 DEF Injection
<1>6. s \in Surjection(1 .. n, S)
  BY <1>4, <1>5, FS_Injection DEF n
<1>7. ToSet(s) = S
  BY <1>3, <1>6 DEF Surjection, ToSet
<1> QED  BY <1>1, <1>3, <1>7 DEF n, s

LEMMA ElementsAreFinite ==
    ASSUME NEW s, NEW n \in Nat, DOMAIN s = 1 .. n PROVE IsFiniteSet(ToSet(s))
<1> DEFINE f == [i \in 1 .. n |-> s[i]]
<1>1. f \in Surjection(1 .. n, ToSet(s))
  BY DEF Surjection, ToSet
<1>2. IsFiniteSet(1 .. n)
  BY FS_Interval
<1> QED  BY <1>1, <1>2, FS_Surjection

(* The report of a stored graph, however the store lists it, has no issue. *)
LEMMA StoredGraphsAreSound ==
    ASSUME StoreInv, NEW d \in Datasets, graph[d] # NoGraph
    PROVE  Issues(Graph(d)) = {}
<1> DEFINE import == Last(accepted[d])
           lists == Graph(d)
<1>1. /\ import \in Imports /\ Sound(import)
      /\ graph[d].nodes = ToSet(import.nodes)
      /\ graph[d].edges = ToSet(import.edges)
  <2>1. /\ import \in Imports /\ Sound(import)
        /\ graph[d] = GraphOf(import, Len(accepted[d]))
    BY StoredGraphs
  <2> QED  BY <2>1 DEF GraphOf
<1>2. IsFiniteSet(graph[d].nodes) /\ IsFiniteSet(graph[d].edges)
  BY <1>1, ImportLists, ElementsAreFinite DEF Imports
<1>3. lists.nodes = SetToSeq(graph[d].nodes) /\ lists.edges = SetToSeq(graph[d].edges)
  BY DEF Graph
<1> HIDE DEF import, lists
<1>4. /\ ToSet(lists.nodes) = ToSet(import.nodes) /\ IsInjective(lists.nodes)
      /\ ToSet(lists.edges) = ToSet(import.edges) /\ IsInjective(lists.edges)
      /\ \E n \in Nat : DOMAIN lists.nodes = 1 .. n
      /\ \E n \in Nat : DOMAIN lists.edges = 1 .. n
  BY <1>1, <1>2, <1>3, Listed
<1>5. Ids(lists.nodes) = Ids(import.nodes)
  <2>1. Ids(lists.nodes) = {n.id : n \in ToSet(lists.nodes)}
    BY DEF Ids, ToSet
  <2>2. Ids(import.nodes) = {n.id : n \in ToSet(import.nodes)}
    BY DEF Ids, ToSet
  <2> QED  BY <1>4, <2>1, <2>2
<1>6. /\ \A n \in ToSet(import.nodes) : ValidNode(n)
      /\ \A e \in ToSet(import.edges) : ValidEdge(e) /\ HasEnds(import, e)
      /\ \A m, n \in ToSet(import.nodes) : m.id = n.id => m = n
      /\ \A e, f \in ToSet(import.edges) : e.id = f.id => e = f
  <2>1. /\ \A i, j \in DOMAIN import.nodes : import.nodes[i].id = import.nodes[j].id => i = j
        /\ \A i, j \in DOMAIN import.edges : import.edges[i].id = import.edges[j].id => i = j
    BY <1>1, ImportLists, SoundIsDistinct DEF Sound, Imports
  <2> QED  BY <1>1, <2>1 DEF Sound, ToSet
<1>7. ASSUME NEW items, NEW n \in Nat, DOMAIN items = 1 .. n, IsInjective(items),
             \A x, y \in ToSet(items) : x.id = y.id => x = y
      PROVE  \A i \in DOMAIN items : ~ Repeated(items, i)
  BY <1>7 DEF Repeated, IsInjective, ToSet
<1>8. /\ \A i \in DOMAIN lists.nodes : ~ Repeated(lists.nodes, i)
      /\ \A i \in DOMAIN lists.edges : ~ Repeated(lists.edges, i)
  BY <1>4, <1>6, <1>7
<1>9. /\ \A i \in DOMAIN lists.nodes : ValidNode(lists.nodes[i])
      /\ \A i \in DOMAIN lists.edges : ValidEdge(lists.edges[i])
  BY <1>4, <1>6 DEF ToSet
<1>10. \A i \in DOMAIN lists.edges : HasEnds(lists, lists.edges[i])
  BY <1>4, <1>5, <1>6 DEF ToSet, HasEnds
<1>11. Sound(lists)
  BY <1>8, <1>9, <1>10 DEF Sound
<1>12. AllFinite(lists)
  <2>1. \A e \in ToSet(import.edges) : e.finite
    BY <1>1 DEF Imports, ToSet
  <2> QED  BY <1>4, <2>1 DEF AllFinite, ToSet
<1> QED  BY <1>11, <1>12, NoIssuesIsSound DEF lists

LEMMA StoreInvExplains == StoreInv => RefusedForAReason
<1> SUFFICES ASSUME StoreInv, NEW d \in Datasets PROVE RefusedForAReason!(d)
  BY DEF RefusedForAReason
<1>1. ASSUME version[d] # 0, NEW lists \in Lists
      PROVE  Answer(d, lists) = "ok" <=> Sound(lists)
  <2>1. Answer(d, lists) = PutAnswer(lists)
    BY <1>1 DEF Answer
  <2> QED  BY <2>1, OkIsSound
<1>2. ASSUME version[d] # 0, NEW lists \in Lists
      PROVE  Answer(d, lists) # "ok" <=> \E issue \in Issues(lists) : issue[1] # "invalid_length"
  BY <1>1, <1>2, NoIssuesIsSound
<1>3. ASSUME version[d] # 0, NEW import \in Imports
      PROVE  Answer(d, import) # "ok" <=> Issues(import) # {}
  <2>1. import \in Lists /\ AllFinite(import)
    BY DEF Imports, AllFinite
  <2> QED  BY <1>1, <1>3, <2>1, NoIssuesIsSound
<1> QED  BY <1>2, <1>3, StoredGraphsAreSound

-------------------------------------------------------------------------------
(* The dispatcher.  The count Run returns is of the calls that have ended  *)
(* and been recorded; a worker that began a call after the cancellation    *)
(* never comes back to receive another input.                              *)

Recorded(result) ==
    {i \in Inputs : /\ outcome[i] = result
                    /\ \A w \in Workers : worker[w] = "record" => input[w] # i}

PastAcquire == {w \in Workers : worker[w] \in {"call", "record", "check", "returned"}}

(* Who holds which input, and how far it has come with it.                 *)
InputsAreHeld ==
    /\ \A w \in Workers :
          /\ input[w] # NoInput <=> worker[w] \in {"acquire", "call", "record"}
          /\ input[w] # NoInput => input[w] < next
          /\ worker[w] \in {"acquire", "call"} => outcome[input[w]] = "none"
          /\ worker[w] = "record" => outcome[input[w]] # "none"
    /\ \A v, w \in Workers : v # w /\ input[v] # NoInput => input[v] # input[w]
    /\ \A i \in Inputs : outcome[i] # "none" => i < next

(* An input that was handed out and has no outcome is with a worker, or    *)
(* was dropped at a cancellation.                                          *)
NothingLeftOut ==
    /\ \A i \in Inputs :
          i < next /\ outcome[i] = "none" => cancelled \/ \E w \in Workers : input[w] = i
    /\ scheduler # "sending" => cancelled \/ next = N + 1
    /\ scheduler = "returned" => \A w \in Workers : worker[w] = "returned"

TallyAgrees ==
    /\ success = Cardinality(Recorded("ok"))
    /\ firstErr <=> Recorded("error") # {}

LateIsBounded ==
    /\ ~ cancelled => late = {}
    /\ Cardinality(late) <= Cardinality(PastAcquire)

DispatcherInv ==
    /\ DispatcherTypeOK
    /\ InputsAreHeld
    /\ NothingLeftOut
    /\ TallyAgrees
    /\ LateIsBounded

LEMMA InputsAreFinite ==
    ASSUME NEW S, S \subseteq Inputs
    PROVE  IsFiniteSet(S) /\ Cardinality(S) \in 0 .. N
<1>1. N \in Nat /\ IsFiniteSet(Inputs) /\ Cardinality(Inputs) = N
  BY AskedAssumption, FS_Interval DEF Inputs
<1>2. IsFiniteSet(S) /\ Cardinality(S) <= N
  BY <1>1, FS_Subset
<1> QED  BY <1>1, <1>2, FS_CardinalityType

LEMMA WorkersAreFinite ==
    ASSUME NEW S, S \subseteq Workers
    PROVE  IsFiniteSet(S) /\ Cardinality(S) \in Nat /\ Cardinality(S) <= Cardinality(Workers)
           /\ Cardinality(Workers) \in Nat
  BY WorkersAssumption, FS_Subset, FS_CardinalityType

LEMMA DispatcherInvInit == DispatcherInit => DispatcherInv
<1> SUFFICES ASSUME DispatcherInit PROVE DispatcherInv
  OBVIOUS
<1>1. N \in Nat /\ Inputs = 1 .. N
  BY AskedAssumption DEF Inputs
<1>2. \A w \in Workers : worker[w] = "receive" /\ input[w] = NoInput
  BY DEF DispatcherInit
<1>3. \A i \in Inputs : outcome[i] = "none"
  BY DEF DispatcherInit
<1>4. DispatcherTypeOK
  <2>1. next \in 1 .. (N + 1) /\ success \in 0 .. N
    BY <1>1 DEF DispatcherInit
  <2>2. late \subseteq Inputs /\ outcome \in [Inputs -> {"none", "ok", "error"}]
    BY DEF DispatcherInit
  <2>3. /\ worker \in [Workers -> {"receive", "acquire", "call", "record", "check", "returned"}]
        /\ input \in [Workers -> Inputs \union {NoInput}]
    BY DEF DispatcherInit
  <2> QED  BY <2>1, <2>2, <2>3 DEF DispatcherInit, DispatcherTypeOK
<1>5. InputsAreHeld
  BY <1>2, <1>3 DEF InputsAreHeld
<1>6. NothingLeftOut
  BY <1>1 DEF DispatcherInit, NothingLeftOut
<1>7. Recorded("ok") = {} /\ Recorded("error") = {}
  BY <1>3 DEF Recorded
<1>8. TallyAgrees
  BY <1>7, FS_EmptySet DEF DispatcherInit, TallyAgrees
<1>9. PastAcquire = {} /\ late = {}
  BY <1>2 DEF PastAcquire, DispatcherInit
<1>10. LateIsBounded
  BY <1>9, FS_EmptySet DEF LateIsBounded
<1> QED  BY <1>4, <1>5, <1>6, <1>8, <1>10 DEF DispatcherInv

LEMMA DispatcherInvStep == DispatcherInv /\ [DispatcherNext]_dispatcherVars => DispatcherInv'
<1> SUFFICES ASSUME DispatcherInv, [DispatcherNext]_dispatcherVars PROVE DispatcherInv'
  OBVIOUS
<1>1. N \in Nat /\ Inputs = 1 .. N /\ NoInput \notin Inputs /\ DispatcherTypeOK
  BY AskedAssumption, NoInputAssumption DEF Inputs, DispatcherInv
<1> USE <1>1 DEF DispatcherInv
<1>2. ASSUME UNCHANGED tally,
             \A w \in Workers : worker'[w] = "record" <=> worker[w] = "record",
             \A w \in Workers : worker[w] = "record" => input'[w] = input[w]
      PROVE  TallyAgrees'
  <2>1. Recorded("ok")' = Recorded("ok") /\ Recorded("error")' = Recorded("error")
    BY <1>2 DEF Recorded, tally
  <2> QED  BY <1>2, <2>1 DEF TallyAgrees, tally
<1>3. ASSUME UNCHANGED late, cancelled => cancelled', late = {} \/ PastAcquire \subseteq PastAcquire'
      PROVE  LateIsBounded'
  <2>1. /\ Cardinality(PastAcquire) \in Nat /\ Cardinality(PastAcquire') \in Nat
        /\ PastAcquire \subseteq PastAcquire' => Cardinality(PastAcquire) <= Cardinality(PastAcquire')
        /\ Cardinality(late) \in Nat /\ (late = {} => Cardinality(late) = 0)
    <3>1. PastAcquire \subseteq Workers /\ PastAcquire' \subseteq Workers /\ late \subseteq Inputs
      BY DEF PastAcquire, DispatcherTypeOK
    <3>2. /\ IsFiniteSet(PastAcquire) /\ Cardinality(PastAcquire) \in Nat
          /\ IsFiniteSet(PastAcquire') /\ Cardinality(PastAcquire') \in Nat
      BY <3>1, WorkersAreFinite
    <3>3. PastAcquire \subseteq PastAcquire' => Cardinality(PastAcquire) <= Cardinality(PastAcquire')
      BY <3>2, FS_Subset
    <3>4. Cardinality(late) \in 0 .. N
      BY <3>1, InputsAreFinite
    <3>5. Cardinality(late) \in Nat
      BY <3>4
    <3>6. late = {} => Cardinality(late) = 0
      BY FS_EmptySet
    <3> QED  BY <3>2, <3>3, <3>5, <3>6
  <2> QED  BY <1>3, <2>1 DEF LateIsBounded
<1>4. ASSUME NEW w \in Workers, HandOut(w) PROVE DispatcherInv'
  <2>1. /\ scheduler = "sending" /\ next \in Inputs /\ next' = next + 1
        /\ worker[w] = "receive" /\ worker'[w] = "acquire"
        /\ input[w] = NoInput /\ input'[w] = next
        /\ \A v \in Workers \ {w} : worker'[v] = worker[v] /\ input'[v] = input[v]
        /\ UNCHANGED <<scheduler, cancelled, tally, late>>
    BY <1>4 DEF HandOut, Goto, DispatcherTypeOK, InputsAreHeld
  <2>2. DispatcherTypeOK'
    BY <1>4, <2>1 DEF HandOut, Goto, DispatcherTypeOK, tally
  <2>3. InputsAreHeld'
    BY <2>1 DEF InputsAreHeld, DispatcherTypeOK, tally
  <2>4. NothingLeftOut'
    BY <2>1 DEF NothingLeftOut, DispatcherTypeOK, InputsAreHeld, tally
  <2>5. TallyAgrees'
    BY <1>2, <2>1
  <2>6. PastAcquire \subseteq PastAcquire'
    BY <2>1 DEF PastAcquire
  <2>7. LateIsBounded'
    BY <1>3, <2>1, <2>6
  <2> QED  BY <2>2, <2>3, <2>4, <2>5, <2>7
<1>5. CASE StopSending \/ Return \/ Cancel
  <2>1. /\ UNCHANGED <<next, worker, input, tally, late>>
        /\ cancelled => cancelled'
    BY <1>5 DEF StopSending, Return, Cancel, run, DispatcherTypeOK
  <2>2. DispatcherTypeOK'
    BY <1>5 DEF StopSending, Return, Cancel, run, DispatcherTypeOK, tally
  <2>3. InputsAreHeld'
    BY <2>1 DEF InputsAreHeld, tally
  <2>4. NothingLeftOut'
    BY <1>5 DEF NothingLeftOut, StopSending, Done, Return, Cancel, run, DispatcherTypeOK, tally
  <2>5. TallyAgrees'
    BY <1>2, <2>1
  <2>6. PastAcquire' = PastAcquire
    BY <2>1 DEF PastAcquire
  <2>7. LateIsBounded'
    <3>1. CASE cancelled
      BY <1>3, <2>1, <2>6
    <3>2. CASE ~ cancelled
      BY <1>3, <2>1, <2>6
    <3> QED  BY <3>1, <3>2
  <2> QED  BY <2>2, <2>3, <2>4, <2>5, <2>7
<1>6. ASSUME NEW w \in Workers, Acquire(w) PROVE DispatcherInv'
  <2>1. /\ worker[w] = "acquire" /\ worker'[w] = "call" /\ input[w] \in Inputs
        /\ \A v \in Workers \ {w} : worker'[v] = worker[v]
        /\ UNCHANGED <<next, scheduler, cancelled, input, tally>>
        /\ late' = IF cancelled THEN late \union {input[w]} ELSE late
    BY <1>6 DEF Acquire, Goto, run, DispatcherTypeOK, InputsAreHeld
  <2>2. DispatcherTypeOK'
    BY <1>6, <2>1 DEF Acquire, Goto, DispatcherTypeOK, run, tally
  <2>3. InputsAreHeld'
    BY <2>1 DEF InputsAreHeld, tally
  <2>4. NothingLeftOut'
    BY <2>1 DEF NothingLeftOut, tally
  <2>5. TallyAgrees'
    BY <1>2, <2>1
  <2>6. PastAcquire' = PastAcquire \union {w} /\ w \notin PastAcquire
    BY <2>1 DEF PastAcquire
  <2>7. LateIsBounded'
    <3>1. CASE ~ cancelled
      BY <1>3, <2>1, <2>6, <3>1
    <3>2. CASE cancelled
      <4>1. late \subseteq Inputs /\ PastAcquire \subseteq Workers
        BY DEF DispatcherTypeOK, PastAcquire
      <4>2. IsFiniteSet(late) /\ Cardinality(late) \in 0 .. N
        BY <4>1, InputsAreFinite
      <4>3. IsFiniteSet(PastAcquire) /\ Cardinality(PastAcquire) \in Nat
        BY <4>1, WorkersAreFinite
      <4>4. Cardinality(late') \in {Cardinality(late), Cardinality(late) + 1}
        <5>1. late' = late \union {input[w]}
          BY <2>1, <3>2
        <5> QED  BY <4>2, <5>1, FS_AddElement
      <4>5. Cardinality(PastAcquire') = Cardinality(PastAcquire) + 1
        BY <2>6, <4>3, FS_AddElement
      <4> QED  BY <2>1, <3>2, <4>2, <4>3, <4>4, <4>5 DEF LateIsBounded
    <3> QED  BY <3>1, <3>2
  <2> QED  BY <2>2, <2>3, <2>4, <2>5, <2>7
<1>7. ASSUME NEW w \in Workers, Drop(w) PROVE DispatcherInv'
  <2>1. /\ worker[w] = "acquire" /\ worker'[w] = "returned" /\ cancelled
        /\ input'[w] = NoInput
        /\ \A v \in Workers \ {w} : worker'[v] = worker[v] /\ input'[v] = input[v]
        /\ UNCHANGED <<next, scheduler, cancelled, tally, late>>
    BY <1>7 DEF Drop, Goto, run, DispatcherTypeOK
  <2>2. DispatcherTypeOK'
    BY <1>7, <2>1 DEF Drop, Goto, DispatcherTypeOK, run, tally
  <2>3. InputsAreHeld'
    BY <2>1 DEF InputsAreHeld, tally
  <2>4. NothingLeftOut'
    BY <2>1 DEF NothingLeftOut, tally
  <2>5. TallyAgrees'
    BY <1>2, <2>1
  <2>6. PastAcquire \subseteq PastAcquire'
    BY <2>1 DEF PastAcquire
  <2>7. LateIsBounded'
    BY <1>3, <2>1, <2>6
  <2> QED  BY <2>2, <2>3, <2>4, <2>5, <2>7
<1>8. ASSUME NEW w \in Workers, NEW result \in {"ok", "error"}, Call(w, result)
      PROVE  DispatcherInv'
  <2>1. /\ worker[w] = "call" /\ worker'[w] = "record"
        /\ input[w] \in Inputs /\ outcome[input[w]] = "none" /\ outcome'[input[w]] = result
        /\ \A i \in Inputs \ {input[w]} : outcome'[i] = outcome[i]
        /\ \A v \in Workers \ {w} : worker'[v] = worker[v]
        /\ UNCHANGED <<next, scheduler, cancelled, input, success, firstErr, late>>
    BY <1>8 DEF Call, Goto, run, DispatcherTypeOK, InputsAreHeld
  <2>2. DispatcherTypeOK'
    BY <1>8, <2>1 DEF Call, Goto, DispatcherTypeOK, run
  <2>3. InputsAreHeld'
    BY <2>1 DEF InputsAreHeld, DispatcherTypeOK
  <2>4. NothingLeftOut'
    BY <2>1 DEF NothingLeftOut
  <2>5. Recorded("ok")' = Recorded("ok") /\ Recorded("error")' = Recorded("error")
    BY <2>1 DEF Recorded, InputsAreHeld
  <2>6. TallyAgrees'
    BY <2>1, <2>5 DEF TallyAgrees
  <2>7. PastAcquire \subseteq PastAcquire'
    BY <2>1 DEF PastAcquire
  <2>8. LateIsBounded'
    BY <1>3, <2>1, <2>7
  <2> QED  BY <2>2, <2>3, <2>4, <2>6, <2>8
<1>9. ASSUME NEW w \in Workers, Record(w) PROVE DispatcherInv'
  <2> DEFINE i == input[w]
  <2>1. /\ worker[w] = "record" /\ worker'[w] = "check"
        /\ i \in Inputs /\ outcome[i] \in {"ok", "error"} /\ input'[w] = NoInput
        /\ \A v \in Workers \ {w} : worker'[v] = worker[v] /\ input'[v] = input[v]
        /\ UNCHANGED <<next, scheduler, cancelled, outcome, late>>
        /\ outcome[i] = "ok" => success' = success + 1 /\ firstErr' = firstErr
        /\ outcome[i] = "error" => success' = success /\ firstErr' = TRUE
    <3>1. /\ worker[w] = "record" /\ input[w] \in Inputs
          /\ outcome[input[w]] \in {"ok", "error"}
      BY <1>9 DEF Record, DispatcherTypeOK, InputsAreHeld
    <3>2. /\ outcome[i] = "ok" => success' = success + 1 /\ firstErr' = firstErr
          /\ outcome[i] = "error" => success' = success /\ firstErr' = TRUE
      BY <1>9 DEF Record, Counted, Fails, DispatcherTypeOK
    <3>3. /\ worker' = [worker EXCEPT ![w] = "check"] /\ input' = [input EXCEPT ![w] = NoInput]
          /\ UNCHANGED <<next, scheduler, cancelled, outcome, late>>
      BY <1>9 DEF Record, Goto, run
    <3> QED  BY <3>1, <3>2, <3>3 DEF DispatcherTypeOK
  <2>2. \A v \in Workers \ {w} : input[v] # i
    BY <2>1 DEF InputsAreHeld
  <2>3. \A result \in {"ok", "error"} :
           /\ i \notin Recorded(result)
           /\ Recorded(result)' = IF outcome[i] = result THEN Recorded(result) \union {i}
                                  ELSE Recorded(result)
    BY <2>1, <2>2 DEF Recorded
  <2>4. IsFiniteSet(Recorded("ok")) /\ Cardinality(Recorded("ok")) \in Nat
    BY InputsAreFinite DEF Recorded
  <2>5. TallyAgrees'
    <3>1. CASE outcome[i] = "ok"
      <4>1. Cardinality(Recorded("ok")') = Cardinality(Recorded("ok")) + 1
        BY <2>3, <2>4, <3>1, FS_AddElement
      <4> QED  BY <2>1, <2>3, <3>1, <4>1 DEF TallyAgrees
    <3>2. CASE outcome[i] = "error"
      BY <2>1, <2>3, <3>2 DEF TallyAgrees
    <3> QED  BY <2>1, <3>1, <3>2
  <2>6. success' \in 0 .. N
    <3>1. Recorded("ok")' \subseteq Inputs
      BY DEF Recorded
    <3> QED  BY <2>5, <3>1, InputsAreFinite DEF TallyAgrees
  <2>7. DispatcherTypeOK'
    BY <1>9, <2>1, <2>6 DEF Record, Goto, run, DispatcherTypeOK
  <2>8. InputsAreHeld'
    BY <2>1 DEF InputsAreHeld
  <2>9. NothingLeftOut'
    BY <2>1 DEF NothingLeftOut
  <2>10. PastAcquire \subseteq PastAcquire'
    BY <2>1 DEF PastAcquire
  <2>11. LateIsBounded'
    BY <1>3, <2>1, <2>10
  <2> QED  BY <2>5, <2>7, <2>8, <2>9, <2>11
<1>10. ASSUME NEW w \in Workers, Check(w) \/ EndOfInputs(w) PROVE DispatcherInv'
  <2>1. /\ worker[w] \in {"check", "receive"} /\ worker'[w] \in {"returned", "receive"}
        /\ worker'[w] = "receive" => ~ cancelled
        /\ worker[w] = "receive" => worker'[w] = "returned"
        /\ \A v \in Workers \ {w} : worker'[v] = worker[v]
        /\ UNCHANGED <<next, scheduler, cancelled, input, tally, late>>
    BY <1>10 DEF Check, EndOfInputs, Goto, run, DispatcherTypeOK
  <2>2. DispatcherTypeOK'
    BY <1>10, <2>1 DEF Check, EndOfInputs, Goto, DispatcherTypeOK, run, tally
  <2>3. InputsAreHeld'
    BY <2>1 DEF InputsAreHeld, tally
  <2>4. NothingLeftOut'
    BY <2>1 DEF NothingLeftOut, tally
  <2>5. TallyAgrees'
    BY <1>2, <2>1
  <2>6. late = {} \/ PastAcquire \subseteq PastAcquire'
    BY <2>1 DEF PastAcquire, LateIsBounded
  <2>7. LateIsBounded'
    BY <1>3, <2>1, <2>6
  <2> QED  BY <2>2, <2>3, <2>4, <2>5, <2>7
<1>11. CASE UNCHANGED dispatcherVars
  BY <1>11
     DEF dispatcherVars, run, tally, DispatcherTypeOK, InputsAreHeld, NothingLeftOut,
         TallyAgrees, LateIsBounded, Recorded, PastAcquire
<1> QED
  BY <1>4, <1>5, <1>6, <1>7, <1>8, <1>9, <1>10, <1>11 DEF DispatcherNext, Schedule, Loop

LEMMA DispatcherInvImplies == DispatcherInv => RunAccountsForInputs
<1> SUFFICES ASSUME DispatcherInv PROVE RunAccountsForInputs
  OBVIOUS
<1> USE DEF DispatcherInv
<1>1. Cardinality(late) <= Cardinality(Workers)
  <2>1. late \subseteq Inputs /\ PastAcquire \subseteq Workers
    BY DEF DispatcherTypeOK, PastAcquire
  <2>2. Cardinality(late) \in Nat
    BY <2>1, InputsAreFinite
  <2> QED  BY <2>1, <2>2, WorkersAreFinite DEF LateIsBounded
<1>2. ASSUME scheduler = "returned"
      PROVE  /\ success = Cardinality(Ended("ok"))
             /\ firstErr <=> Ended("error") # {}
             /\ cancelled \/ Ended("none") = {}
  <2>1. \A w \in Workers : worker[w] = "returned"
    BY <1>2 DEF NothingLeftOut
  <2>2. \A result : Recorded(result) = Ended(result)
    BY <2>1 DEF Recorded, Ended
  <2>3. cancelled \/ Ended("none") = {}
    <3> SUFFICES ASSUME ~ cancelled, NEW i \in Inputs, outcome[i] = "none" PROVE FALSE
      BY DEF Ended
    <3>1. next = N + 1 /\ i < next
      BY <1>2, AskedAssumption DEF NothingLeftOut, Inputs
    <3>2. PICK w \in Workers : input[w] = i
      BY <3>1 DEF NothingLeftOut
    <3> QED  BY <2>1, <3>2, NoInputAssumption DEF InputsAreHeld
  <2> QED  BY <2>2, <2>3 DEF TallyAgrees
<1> QED  BY <1>1, <1>2 DEF RunAccountsForInputs, InputsAreHeld

-------------------------------------------------------------------------------
(* The batch.  A step of it is a step of the store, of the dispatcher, of  *)
(* both or of neither.                                                     *)

LEMMA StepsOfTheStore == [Next]_vars => [StoreNext]_storeVars
<1> SUFFICES ASSUME [Next]_vars PROVE [StoreNext]_storeVars
  OBVIOUS
<1>1. CASE \E w \in Workers : Work(w)
  BY <1>1 DEF Work, Validate, StoreReport
<1>2. CASE Next /\ ~ \E w \in Workers : Work(w)
  BY <1>2 DEF Next, ScheduleBatch
<1> QED  BY <1>1, <1>2 DEF vars

LEMMA StepsOfTheDispatcher == [Next]_vars => [DispatcherNext]_dispatcherVars
<1> SUFFICES ASSUME [Next]_vars PROVE [DispatcherNext]_dispatcherVars
  OBVIOUS
<1>1. ASSUME NEW w \in Workers, Work(w) PROVE [DispatcherNext]_dispatcherVars
  BY <1>1 DEF Work, Validate, StoreReport, DispatcherNext
<1>2. CASE Next /\ ~ \E w \in Workers : Work(w)
  BY <1>2 DEF Next, ScheduleBatch, DispatcherNext
<1> QED  BY <1>1, <1>2 DEF vars

(* A report of a graph that was imported and is valid, which it stays.     *)
GoodReport(r, d) == r.valid /\ r.version \in 1 .. Len(accepted[d])

(* A report that is not good is the empty one, which makes the call fail.  *)
ReportsAreOfCalls ==
    /\ report = [w \in Workers |-> report[w]]
    /\ \A w \in Workers : report[w] # None =>
          /\ worker[w] = "call"
          /\ report[w] = Empty \/ GoodReport(report[w], Asked[input[w]])

ResultsAreOfCalls ==
    /\ \A d \in DOMAIN results :
          GoodReport(results[d], d) \/ \E i \in Inputs : outcome[i] = "error"
    /\ \A d : d \in DOMAIN results <=> \E i \in Inputs : Asked[i] = d /\ outcome[i] # "none"

BatchInv ==
    /\ StoreInv
    /\ DispatcherInv
    /\ ReportsAreOfCalls
    /\ ResultsAreOfCalls

LEMMA BatchInvInit == Init => BatchInv
<1> SUFFICES ASSUME Init PROVE BatchInv
  OBVIOUS
<1>1. StoreInv /\ DispatcherInv
  BY StoreInvInit, DispatcherInvInit DEF Init
<1>2. \A i \in Inputs : outcome[i] = "none"
  BY DEF Init, DispatcherInit
<1>3. ReportsAreOfCalls /\ ResultsAreOfCalls
  BY <1>2 DEF Init, ReportsAreOfCalls, ResultsAreOfCalls
<1> QED  BY <1>1, <1>3 DEF BatchInv

(* The store only adds to what it has accepted.                            *)
LEMMA AcceptedGrows ==
    ASSUME StoreInv, [StoreNext]_storeVars, NEW d \in Datasets, NEW r, GoodReport(r, d)
    PROVE  GoodReport(r, d)'
<1>1. accepted[d] \in Seq(Imports)
  BY DEF StoreInv
<1>2. CASE accepted'[d] = accepted[d]
  BY <1>2 DEF GoodReport
<1>3. ASSUME NEW import \in Imports, accepted'[d] = Append(accepted[d], import)
      PROVE  GoodReport(r, d)'
  BY <1>1, <1>3, LastAppended DEF GoodReport
<1>4. ASSUME NEW c \in Datasets, CreateDataset(c) PROVE accepted' = accepted
  BY <1>4 DEF CreateDataset
<1>5. ASSUME NEW c \in Datasets, NEW import \in Imports, PutGraph(c, import)
      PROVE  accepted'[d] \in {accepted[d], Append(accepted[d], import)}
  BY <1>5 DEF PutGraph, storeVars, StoreInv
<1> QED  BY <1>2, <1>3, <1>4, <1>5 DEF StoreNext, storeVars

(* ValidateDataset: what it answers of a dataset with a graph is good.     *)
LEMMA ReportOfIsGood ==
    ASSUME StoreInv, NEW d \in Datasets
    PROVE  ReportOf(d) = Empty \/ GoodReport(ReportOf(d), d)
<1>1. CASE graph[d] = NoGraph
  BY <1>1 DEF ReportOf
<1>2. CASE graph[d] # NoGraph
  <2>1. Issues(Graph(d)) = {}
    BY <1>2, StoredGraphsAreSound
  <2>2. graph[d] = GraphOf(Last(accepted[d]), Len(accepted[d])) /\ Len(accepted[d]) \in Nat \ {0}
    BY <1>2, StoredGraphs
  <2>3. graph[d].version \in 1 .. Len(accepted[d])
    BY <2>2 DEF GraphOf
  <2> QED  BY <1>2, <2>1, <2>3 DEF ReportOf, GoodReport
<1> QED  BY <1>1, <1>2

LEMMA BatchInvStep == BatchInv /\ [Next]_vars => BatchInv'
<1> SUFFICES ASSUME BatchInv, [Next]_vars PROVE BatchInv'
  OBVIOUS
<1> USE DEF BatchInv
<1>1. StoreInv' /\ DispatcherInv'
  BY StepsOfTheStore, StepsOfTheDispatcher, StoreInvStep, DispatcherInvStep
<1>2. \A i \in Inputs : Asked[i] \in Datasets
  BY RequestAssumption DEF Inputs, N
<1>3. \A r : \A d \in Datasets : GoodReport(r, d) => GoodReport(r, d)'
  BY StepsOfTheStore, AcceptedGrows
<1>4. \A w \in Workers : worker[w] = "call" => input[w] \in Inputs /\ outcome[input[w]] = "none"
  BY DEF DispatcherInv, DispatcherTypeOK, InputsAreHeld
<1>5. outcome \in [Inputs -> {"none", "ok", "error"}] /\ worker = [w \in Workers |-> worker[w]]
  BY DEF DispatcherInv, DispatcherTypeOK
<1>6. DOMAIN results \subseteq Datasets
  BY <1>2 DEF ResultsAreOfCalls
<1>7. ASSUME UNCHANGED <<report, results, outcome>>,
             \A w \in Workers : worker[w] = "call" => worker'[w] = "call" /\ input'[w] = input[w]
      PROVE  BatchInv'
  <2>1. ReportsAreOfCalls'
    BY <1>2, <1>3, <1>4, <1>7 DEF ReportsAreOfCalls
  <2>2. ResultsAreOfCalls'
    BY <1>3, <1>6, <1>7 DEF ResultsAreOfCalls
  <2> QED  BY <1>1, <2>1, <2>2
<1>8. CASE \/ StoreNext /\ UNCHANGED <<dispatcherVars, report, results>>
           \/ Cancel /\ UNCHANGED <<storeVars, report, results>>
           \/ UNCHANGED vars
  BY <1>7, <1>8 DEF Cancel, vars, dispatcherVars, run, tally
<1>9. CASE ScheduleBatch
  <2>1. UNCHANGED <<report, results, outcome>>
    BY <1>9 DEF ScheduleBatch, Schedule, HandOut, StopSending, Return, tally
  <2>2. ASSUME NEW w \in Workers, worker[w] = "call"
        PROVE  worker'[w] = "call" /\ input'[w] = input[w]
    BY <1>9, <2>2
       DEF ScheduleBatch, Schedule, HandOut, StopSending, Return, Goto, DispatcherInv, DispatcherTypeOK
  <2> QED  BY <1>7, <2>1, <2>2
<1>10. ASSUME NEW v \in Workers, Loop(v), UNCHANGED <<storeVars, report, results>> PROVE BatchInv'
  <2>1. UNCHANGED outcome
    BY <1>10 DEF Loop, Acquire, Drop, Record, Check, EndOfInputs, tally
  <2>2. ASSUME NEW w \in Workers, worker[w] = "call"
        PROVE  worker'[w] = "call" /\ input'[w] = input[w]
    BY <1>10, <2>2
       DEF Loop, Acquire, Drop, Record, Check, EndOfInputs, Goto, DispatcherInv, DispatcherTypeOK
  <2> QED  BY <1>7, <1>10, <2>1, <2>2
<1>11. ASSUME NEW v \in Workers, Validate(v) PROVE BatchInv'
  <2>1. /\ worker[v] = "call"
        /\ report' = [report EXCEPT ![v] = ReportOf(Asked[input[v]])]
        /\ UNCHANGED <<results, outcome, worker, input, accepted>>
    BY <1>11 DEF Validate, dispatcherVars, storeVars, tally
  <2>2. ReportOf(Asked[input[v]]) = Empty \/ GoodReport(ReportOf(Asked[input[v]]), Asked[input[v]])
    BY <1>2, <1>4, <2>1, ReportOfIsGood
  <2>3. ReportsAreOfCalls'
    BY <2>1, <2>2 DEF ReportsAreOfCalls, GoodReport
  <2>4. ResultsAreOfCalls'
    BY <2>1 DEF ResultsAreOfCalls, GoodReport
  <2> QED  BY <1>1, <2>3, <2>4
<1>12. ASSUME NEW v \in Workers, StoreReport(v) PROVE BatchInv'
  <2> DEFINE i == input[v]
             d == Asked[i]
             answer == IF report[v] = Empty THEN "error" ELSE "ok"
  <2>1. /\ report[v] # None
        /\ results' = [e \in DOMAIN results \union {d} |-> IF e = d THEN report[v] ELSE results[e]]
        /\ report' = [report EXCEPT ![v] = None]
        /\ Call(v, answer)
        /\ UNCHANGED accepted
    BY <1>12 DEF StoreReport, storeVars
  <2>2. /\ worker[v] = "call" /\ i \in Inputs /\ outcome[i] = "none"
        /\ outcome' = [outcome EXCEPT ![i] = answer]
        /\ UNCHANGED input
        /\ \A w \in Workers \ {v} : worker'[w] = worker[w]
    BY <1>4, <1>5, <2>1 DEF Call, Goto
  <2>3. report[v] = Empty \/ GoodReport(report[v], d)
    BY <2>1 DEF ReportsAreOfCalls
  <2>4. ReportsAreOfCalls'
    BY <2>1, <2>2 DEF ReportsAreOfCalls, GoodReport
  <2>5. outcome'[i] = answer /\ \A j \in Inputs \ {i} : outcome'[j] = outcome[j]
    BY <1>5, <2>2
  <2>6. (\E j \in Inputs : outcome[j] = "error") => \E j \in Inputs : outcome'[j] = "error"
    BY <2>2, <2>5
  <2>7. ASSUME NEW e \in DOMAIN results'
        PROVE  GoodReport(results[e], e)' \/ \E j \in Inputs : outcome'[j] = "error"
    <3>1. CASE e = d
      BY <2>1, <2>2, <2>3, <2>5, <3>1 DEF GoodReport
    <3>2. CASE e # d
      BY <2>1, <2>6, <2>7, <3>2 DEF GoodReport, ResultsAreOfCalls
    <3> QED  BY <3>1, <3>2
  <2>8. \A e : e \in DOMAIN results' <=> \E j \in Inputs : Asked[j] = e /\ outcome'[j] # "none"
    <3>1. \A e : e \in DOMAIN results' <=> e \in DOMAIN results \/ e = d
      BY <2>1
    <3>2. answer # "none"
      OBVIOUS
    <3> QED  BY <2>2, <2>5, <3>1, <3>2 DEF ResultsAreOfCalls
  <2>9. ResultsAreOfCalls'
    BY <2>7, <2>8 DEF ResultsAreOfCalls
  <2> QED  BY <1>1, <2>4, <2>9
<1> QED  BY <1>8, <1>9, <1>10, <1>11, <1>12 DEF Next, Work

LEMMA BatchInvImplies == BatchInv => BatchAnswersAreWhole
<1> SUFFICES ASSUME BatchInv, scheduler = "returned", ~ firstErr
             PROVE  /\ \A d \in DOMAIN results :
                          results[d].valid /\ results[d].version \in 1 .. Len(accepted[d])
                    /\ ~ cancelled => DOMAIN results = ToSet(Asked)
  BY DEF BatchAnswersAreWhole
<1>1. /\ \A i \in Inputs : outcome[i] # "error"
      /\ cancelled \/ \A i \in Inputs : outcome[i] # "none"
  <2>1. RunAccountsForInputs
    BY DispatcherInvImplies DEF BatchInv
  <2> QED  BY <2>1 DEF RunAccountsForInputs, Ended
<1>2. \A d \in DOMAIN results : GoodReport(results[d], d)
  BY <1>1 DEF BatchInv, ResultsAreOfCalls
<1>3. ~ cancelled => DOMAIN results = ToSet(Asked)
  <2>1. ToSet(Asked) = {Asked[i] : i \in Inputs}
    BY RequestAssumption DEF ToSet, Inputs, N
  <2> QED  BY <1>1, <2>1 DEF BatchInv, ResultsAreOfCalls
<1> QED  BY <1>2, <1>3 DEF GoodReport

LEMMA BatchInvariant == Spec => []BatchInv
<1> QED  BY BatchInvInit, BatchInvStep, PTL DEF Spec

(* The graph of a dataset is what its last accepted import listed, with    *)
(* edges between its nodes and each id once, in every state of any number  *)
(* of imports: Store.PutGraph leaves nothing of the graph before or of a   *)
(* refused one.                                                            *)
THEOREM StoredGraphsAreImports == Spec => []GraphsAreImports
<1>1. BatchInv => GraphsAreImports
  BY StoreInvImplies DEF BatchInv
<1> QED  BY <1>1, BatchInvariant, PTL

(* Store.PutGraph and ValidateGraph, written apart, agree on what is wrong *)
(* with any graph but for lengths that are not finite, and so agree on     *)
(* whatever clients can import; and what is stored has no issue in         *)
(* whatever order the store lists it.                                      *)
THEOREM RefusalsAreIssues == Spec => []RefusedForAReason
<1>1. BatchInv => RefusedForAReason
  BY StoreInvExplains DEF BatchInv
<1> QED  BY <1>1, BatchInvariant, PTL

(* Dispatcher.Run returns the number of the calls that succeeded and an    *)
(* error if and only if one failed, has called for no input twice and,     *)
(* unless cancelled, for each; a worker begins at most one call after the  *)
(* cancellation.  Any number of workers and inputs.                        *)
THEOREM RunAccounts == Spec => []RunAccountsForInputs
<1>1. BatchInv => RunAccountsForInputs
  BY DispatcherInvImplies DEF BatchInv
<1> QED  BY <1>1, BatchInvariant, PTL

(* ValidateDatasetsBatch answers without an error only with valid reports  *)
(* of graphs that were imported, one for each id asked for unless it was   *)
(* cancelled, while clients import over the graphs it reads.               *)
THEOREM AnswersAreWhole == Spec => []BatchAnswersAreWhole
<1>1. BatchInv => BatchAnswersAreWhole
  BY BatchInvImplies
<1> QED  BY <1>1, BatchInvariant, PTL

===============================================================================
