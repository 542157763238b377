------------------------- MODULE MaterializerProofs -------------------------
(***************************************************************************)
(* Theorems about the materializer, for any fibers and bounds.             *)
(***************************************************************************)
EXTENDS Materializer, FiniteSetTheorems, TLAPS

Steps  == {"keywords", "map", "brief", "article", "images"}
Before == [keywords |-> {}, map |-> {"keywords"}, brief |-> {"keywords", "map"},
           article |-> {"keywords", "map", "brief"},
           images |-> {"keywords", "map", "brief", "article"}]
Closed(S) == \A s \in S : Before[s] \subseteq S

Locals == [todo : SUBSET Steps, step : Steps, given : SUBSET Parts, keyword : Nat, map : Nat,
           images : Nat, backfill : SUBSET Steps]
Pieces == [there : BOOLEAN, keyword : Nat, map : Nat, page : Nat]

FiberTypes == pc \in [Fibers -> Places] /\ loc \in [Fibers -> Locals]
RowTypes ==
  /\ rows \in Nat /\ maps \subseteq 1..rows
  /\ approved \subseteq Steps /\ Closed(approved)
  /\ version \in Nat /\ artifact \in [of : Nat, full : BOOLEAN] /\ given \subseteq Parts
  /\ keyword \in [id : Nat, status : Statuses] /\ brief \in Pieces /\ article \in Pieces
Types == FiberTypes /\ RowTypes

USE MaterializerAssumption DEF Steps, Statuses, Discovered, BriefReady, Written

(* The steps in their order are closed under what comes before.            *)
LEMMA OrderIs ==
  /\ DOMAIN Order = 1..5
  /\ Order[1] = "keywords" /\ Order[2] = "map" /\ Order[3] = "brief" /\ Order[4] = "article"
  /\ Order[5] = "images"
  /\ \A n \in 1..5 : Order[n] \in Steps /\ Before[Order[n]] = {Order[k] : k \in 1..(n - 1)}
<1>1. /\ DOMAIN Order = 1..5
      /\ Order[1] = "keywords" /\ Order[2] = "map" /\ Order[3] = "brief" /\ Order[4] = "article"
      /\ Order[5] = "images"
  BY DEF Order
<1>2. ASSUME NEW n \in 1..5  PROVE Order[n] \in Steps /\ Before[Order[n]] = {Order[k] : k \in 1..(n - 1)}
  <2>1. CASE n = 1  BY <1>1, <2>1 DEF Before
  <2>2. CASE n = 2  BY <1>1, <2>2 DEF Before
  <2>3. CASE n = 3  BY <1>1, <2>3 DEF Before
  <2>4. CASE n = 4  BY <1>1, <2>4 DEF Before
  <2>5. CASE n = 5  BY <1>1, <2>5 DEF Before
  <2> QED  BY <2>1, <2>2, <2>3, <2>4, <2>5
<1> QED  BY <1>1, <1>2

LEMMA PartsAre ==
  /\ PartsOf["keywords"] = {"keyword"} /\ PartsOf["map"] = {"pillar", "page"}
  /\ PartsOf["brief"] = {"target", "pageTarget"} /\ PartsOf["article"] = {} /\ PartsOf["images"] = {}
  /\ \A s \in Steps : PartsOf[s] \subseteq Parts
BY DEF PartsOf, Parts

(* What is taken next has nothing before it that is still to do.           *)
LEMMA FirstIsNext ==
  ASSUME NEW T, T \subseteq Steps, T # {}
  PROVE  FirstOf(T, Order) \in T /\ Before[FirstOf(T, Order)] \cap T = {}
<1> DEFINE P(n) == n \in 1..5 /\ Order[n] \in T /\ \A k \in 1..(n - 1) : Order[k] \notin T
<1>1. \E n : P(n)
  <2>1. "keywords" \in T => P(1)  BY OrderIs
  <2>2. "keywords" \notin T /\ "map" \in T => P(2)  BY OrderIs
  <2>3. T \cap {"keywords", "map"} = {} /\ "brief" \in T => P(3)  BY OrderIs
  <2>4. T \cap {"keywords", "map", "brief"} = {} /\ "article" \in T => P(4)  BY OrderIs
  <2>5. T \cap {"keywords", "map", "brief", "article"} = {} => P(5)
    <3>1. T \cap {"keywords", "map", "brief", "article"} = {} => "images" \in T  OBVIOUS
    <3>2. \A k \in 1..4 : Order[k] \in {"keywords", "map", "brief", "article"}  BY OrderIs
    <3> QED  BY <3>1, <3>2, OrderIs
  <2> HIDE DEF P
  <2> QED  BY <2>1, <2>2, <2>3, <2>4, <2>5
<1>2. PICK n : P(n) /\ FirstOf(T, Order) = Order[n]
  BY <1>1, OrderIs DEF FirstOf
<1> QED  BY <1>2, OrderIs

-----------------------------------------------------------------------------
Single == \A m, n \in maps : m = n

(* Whoever is about to insert a map, and has not overlapped with another,  *)
(* does so in a run without one.                                           *)
MapInv ==
  overlap \/ (Single /\ \A f \in Fibers : pc[f] = "saveMap" /\ loc[f].map = 0 => maps = {})

-----------------------------------------------------------------------------
(* What a backfill that is alone has found out at each statement.          *)
Done(f) == loc[f].backfill \ loc[f].todo

StepOf == [upsertKeywords |-> {"keywords"},
           findMap |-> {"map"}, saveMap |-> {"map"}, sync |-> {"map"},
           findLinks |-> {"brief"}, saveBrief |-> {"brief"}, linkPage |-> {"brief"},
           findBrief |-> {"article"}, saveArticle |-> {"article"},
           readStatus |-> {"brief", "article"}, advance |-> {"brief", "article"},
           findArticle |-> {"images"}, saveImages |-> {"images"}, readImages |-> {"images"},
           strip |-> {"images"}]

\* What a brief is to be linked to.
Wanted(l)   == IF "target" \in l.given THEN keyword.id ELSE 0
MapIfAny    == IF maps = {} THEN {0} ELSE maps
BriefLinked ==
  /\ brief.there /\ brief.keyword = (IF "target" \in given THEN keyword.id ELSE 0)
  /\ brief.map \in MapIfAny

Found(f) == LET l == loc[f] IN
  /\ pc[f] = "saveMap" => IF l.map = 0 THEN maps = {} ELSE l.map \in maps
  /\ pc[f] = "sync" => l.map \in maps /\ ("page" \in l.given => l.map \in rich)
  /\ pc[f] = "saveBrief" => l.keyword = Wanted(l) /\ l.map \in MapIfAny
  /\ pc[f] = "saveArticle" => l.keyword = brief.keyword /\ l.map = brief.map
  /\ pc[f] \in {"readStatus", "advance"} => l.keyword = keyword.id
  /\ pc[f] \in {"readStatus", "advance", "linkPage"} /\ l.step = "brief" =>
       BriefLinked /\ l.map = brief.map
  /\ pc[f] = "linkPage" => brief.keyword = 0 \/ keyword.status >= BriefReady
  /\ pc[f] \in {"readStatus", "advance"} /\ l.step = "article" =>
       article.there /\ article.keyword = brief.keyword /\ article.map = brief.map

Lone(f) ==
  /\ Closed(loc[f].backfill) /\ loc[f].todo \subseteq loc[f].backfill
  /\ pc[f] = "next" => Closed(Done(f)) /\ Promoted(Done(f))
  /\ pc[f] # "next" =>
       /\ loc[f].given = given \cap PartsOf[loc[f].step]
       /\ loc[f].step \in StepOf[pc[f]] /\ Done(f) = Before[loc[f].step] \cup {loc[f].step}
       /\ Promoted(Before[loc[f].step]) /\ Found(f)

LoneInv == \A f \in Fibers : alone = f => pc[f] # "idle" /\ (Single => Lone(f))

-----------------------------------------------------------------------------
(* The types.                                                              *)

USE DEF Types, RowTypes, FiberTypes, Locals, Pieces, Places

LEMMA UnlessTypes ==
  ASSUME NEW gone, NEW piece \in Pieces, NEW field \in {"keyword", "map", "page"}
  PROVE  Unless(gone, piece, field) \in Pieces
<1>1. CASE field = "keyword"  BY <1>1 DEF Unless
<1>2. CASE field = "map"  BY <1>2 DEF Unless
<1>3. CASE field = "page"  BY <1>3 DEF Unless
<1> QED  BY <1>1, <1>2, <1>3

LEMMA GoTypes ==
  ASSUME FiberTypes, NEW f \in Fibers, NEW from, NEW to \in Places, Go(f, from, to)
  PROVE  FiberTypes'
BY DEF Go, Move, Clear, Fresh

LEMMA SetLocals ==
  ASSUME FiberTypes, NEW f \in Fibers, NEW k \in Nat, NEW m \in Nat
  PROVE  /\ [loc EXCEPT ![f].map = m] \in [Fibers -> Locals]
         /\ [loc EXCEPT ![f].keyword = k, ![f].map = m] \in [Fibers -> Locals]
         /\ [loc EXCEPT ![f].map = m, ![f].keyword = k] \in [Fibers -> Locals]
<1>1. [loc EXCEPT ![f].map = m] \in [Fibers -> Locals]  OBVIOUS
<1>2. [loc EXCEPT ![f].keyword = k, ![f].map = m] \in [Fibers -> Locals]
  <2>1. [loc[f] EXCEPT !.keyword = k, !.map = m] \in Locals
    <3>1. ASSUME NEW l \in Locals  PROVE [l EXCEPT !.keyword = k, !.map = m] \in Locals
      <4> HIDE DEF Types, FiberTypes, RowTypes, Places, Pieces
      <4> QED  OBVIOUS
    <3> HIDE DEF Locals
    <3> QED  BY <3>1
  <2>2. [loc EXCEPT ![f].keyword = k, ![f].map = m]
          = [loc EXCEPT ![f] = [loc[f] EXCEPT !.keyword = k, !.map = m]]
    BY Zenon
  <2> HIDE DEF Locals
  <2> QED  BY <2>1, <2>2
<1>3. [loc EXCEPT ![f].map = m, ![f].keyword = k] = [loc EXCEPT ![f].keyword = k, ![f].map = m]
  OBVIOUS
<1> QED  BY <1>1, <1>2, <1>3

LEMMA InitTypes == Init => Types
BY DEF Init, Fresh, NoPiece, Closed

LEMMA FiberStepTypes ==
  ASSUME Types, NEW f \in Fibers,
         \/ Approve(f) \/ Backfill(f) \/ NextStep(f) \/ Finish(f) \/ Throw(f)
         \/ UpsertKeywords(f) \/ SkipMap(f) \/ FindMap(f) \/ CreateMap(f) \/ UpdateMap(f)
         \/ SyncPages(f)
         \/ FindLinks(f) \/ SaveBrief(f) \/ FindBrief(f) \/ SaveArticle(f) \/ SaveRefused(f)
         \/ ReadStatus(f) \/ Advance(f) \/ LinkPage(f)
         \/ FindArticle(f) \/ SaveImages(f) \/ ReadImages(f) \/ Strip(f)
  PROVE  Types'
<1> USE DEF runRows, pieces, Fresh
<1>1. CASE Approve(f)
  <2>1. PICK n \in 1..5 : Order[n] \notin approved /\ (\A k \in 1..(n - 1) : Order[k] \in approved)
                          /\ approved' = approved \cup {Order[n]}
                          /\ loc' = [loc EXCEPT ![f] = [Fresh EXCEPT !.todo = {Order[n]}]]
                          /\ Move(f, "idle", "next")
                          /\ UNCHANGED <<version, artifact, keyword, maps, brief, article, rows>>
                          /\ given' \subseteq given \cup PartsOf[Order[n]]
    BY <1>1, OrderIs DEF Approve
  <2>2. Order[n] \in Steps /\ Before[Order[n]] \subseteq approved
    <3>1. Order[n] \in Steps /\ Before[Order[n]] = {Order[k] : k \in 1..(n - 1)}  BY OrderIs
    <3>2. \A k \in 1..(n - 1) : Order[k] \in approved  BY <2>1
    <3> QED  BY <3>1, <3>2
  <2>3. Closed(approved')  BY <2>1, <2>2 DEF Closed
  <2>4. FiberTypes'  BY <2>1, <2>2 DEF Move
  <2>5. PartsOf[Order[n]] \subseteq Parts  BY <2>2, PartsAre
  <2> QED  BY <2>1, <2>2, <2>3, <2>4, <2>5
<1>2. CASE Backfill(f)  BY <1>2 DEF Backfill
<1>3. CASE NextStep(f)
  <2> DEFINE s == FirstOf(loc[f].todo, Order)
  <2>1. loc[f].todo \subseteq Steps  OBVIOUS
  <2>2. Load(f, s)  BY <1>3 DEF NextStep
  <2>3. s \in Steps  BY <2>1, <2>2, FirstIsNext DEF Load
  <2> HIDE DEF s
  <2>4. Entry[s] \in Places  BY <2>3 DEF Entry
  <2> DEFINE images == IF s = "images" /\ artifact.full THEN artifact.of ELSE 0
  <2>5. images \in Nat  OBVIOUS
  <2> HIDE DEF images
  <2>6. pc' \in [Fibers -> Places]  BY <2>2, <2>4 DEF Load, Move
  <2> DEFINE parts == given \cap PartsOf[s]
  <2>7. loc' = [loc EXCEPT ![f].todo = @ \ {s}, ![f].step = s, ![f].given = parts,
                           ![f].images = images]
    BY <2>2 DEF Load, images
  <2>9. parts \subseteq Parts  OBVIOUS
  <2> HIDE DEF parts
  <2>8. loc' \in [Fibers -> Locals]
    <3>1. [loc[f] EXCEPT !.todo = @ \ {s}, !.step = s, !.given = parts, !.images = images] \in Locals
      <4> DEFINE rest == loc[f].todo \ {s}
      <4>1. rest \subseteq Steps /\ loc[f] \in Locals  OBVIOUS
      <4> HIDE DEF rest
      <4>2. [loc[f] EXCEPT !.todo = rest, !.step = s, !.given = parts, !.images = images] \in Locals
        BY <2>3, <2>5, <2>9, <4>1
      <4> QED  BY <4>2 DEF rest
    <3>2. loc' = [loc EXCEPT ![f] = [loc[f] EXCEPT !.todo = @ \ {s}, !.step = s, !.given = parts,
                                                   !.images = images]]
      BY <2>7, Zenon
    <3> HIDE DEF Locals
    <3> QED  BY <3>1, <3>2
  <2> QED  BY <2>2, <2>6, <2>8 DEF Load
<1>4. CASE Finish(f)  BY <1>4 DEF Finish
<1>5. CASE Throw(f)  BY <1>5 DEF Throw, Clear
<1>6. CASE UpsertKeywords(f)
  <2>1. FiberTypes'  BY <1>6, GoTypes DEF UpsertKeywords
  <2> QED  BY <1>6, <2>1 DEF UpsertKeywords
<1>23. CASE SkipMap(f)
  <2>1. FiberTypes'  BY <1>23, GoTypes DEF SkipMap
  <2> QED  BY <1>23, <2>1 DEF SkipMap
<1>7. CASE FindMap(f)
  <2>1. PICK m \in {0} \cup maps : Move(f, "findMap", "saveMap") /\ loc' = [loc EXCEPT ![f].map = m]
    BY <1>7 DEF FindMap
  <2>2. m \in Nat  OBVIOUS
  <2>3. FiberTypes'
    <3> HIDE DEF Locals
    <3> QED  BY <2>1, <2>2, SetLocals DEF Move
  <2> QED  BY <1>7, <2>3 DEF FindMap
<1>8. CASE CreateMap(f)
  <2>1. FiberTypes'
    <3>1. rows + 1 \in Nat  OBVIOUS
    <3> HIDE DEF Locals
    <3> QED  BY <1>8, <3>1, SetLocals DEF CreateMap, Move
  <2>2. rows' \in Nat /\ maps' \subseteq 1..rows'  BY <1>8 DEF CreateMap
  <2> QED  BY <1>8, <2>1, <2>2 DEF CreateMap
<1>9. CASE UpdateMap(f)
  <2>1. FiberTypes'  BY <1>9, GoTypes DEF UpdateMap
  <2> QED  BY <1>9, <2>1 DEF UpdateMap
<1>10. CASE SyncPages(f)
  <2>1. FiberTypes'  BY <1>10, GoTypes DEF SyncPages
  <2> QED  BY <1>10, <2>1 DEF SyncPages
<1>11. CASE FindLinks(f)
  <2>1. PICK m \in {0} \cup maps : Move(f, "findLinks", "saveBrief")
                 /\ loc' = [loc EXCEPT ![f].map = m, ![f].keyword = Wanted(loc[f])]
    BY <1>11 DEF FindLinks, Wanted
  <2>2. m \in Nat /\ Wanted(loc[f]) \in Nat  BY DEF Wanted
  <2>3. FiberTypes'
    <3> HIDE DEF Locals
    <3> QED  BY <2>1, <2>2, SetLocals DEF Move
  <2> QED  BY <1>11, <2>3 DEF FindLinks
<1>12. CASE SaveBrief(f)
  <2>1. AfterPiece(loc[f]) \in Places  BY DEF AfterPiece
  <2>2. FiberTypes'  BY <1>12, <2>1, GoTypes DEF SaveBrief
  <2>3. brief' \in Pieces  BY <1>12 DEF SaveBrief
  <2> QED  BY <1>12, <2>2, <2>3 DEF SaveBrief
<1>13. CASE FindBrief(f)
  <2>1. brief.keyword \in Nat /\ brief.map \in Nat  OBVIOUS
  <2>2. FiberTypes'
    <3> HIDE DEF Locals
    <3> QED  BY <1>13, <2>1, SetLocals DEF FindBrief, Move
  <2> QED  BY <1>13, <2>2 DEF FindBrief
<1>14. CASE SaveArticle(f)
  <2>1. AfterPiece(loc[f]) \in Places  BY DEF AfterPiece
  <2>2. FiberTypes'  BY <1>14, <2>1, GoTypes DEF SaveArticle
  <2>3. article' \in Pieces  BY <1>14 DEF SaveArticle
  <2> QED  BY <1>14, <2>2, <2>3 DEF SaveArticle
<1>15. CASE SaveRefused(f)
  <2>1. FiberTypes'  BY <1>15, GoTypes DEF SaveRefused
  <2> QED  BY <1>15, <2>1 DEF SaveRefused
<1>16. CASE ReadStatus(f)
  <2>1. FiberTypes'  BY <1>16, GoTypes DEF ReadStatus, AfterAdvance
  <2> QED  BY <1>16, <2>1 DEF ReadStatus
<1>17. CASE Advance(f)
  <2>1. FiberTypes'  BY <1>17, GoTypes DEF Advance, AfterAdvance
  <2>2. keyword' \in [id : Nat, status : Statuses]  BY <1>17 DEF Advance, Target
  <2> QED  BY <1>17, <2>1, <2>2 DEF Advance
<1>18. CASE LinkPage(f)
  <2>1. FiberTypes'  BY <1>18, GoTypes DEF LinkPage
  <2>2. brief' \in Pieces  BY <1>18 DEF LinkPage
  <2> QED  BY <1>18, <2>1, <2>2 DEF LinkPage
<1>19. CASE FindArticle(f)
  <2>1. FiberTypes'  BY <1>19, GoTypes DEF FindArticle
  <2> QED  BY <1>19, <2>1 DEF FindArticle
<1>20. CASE SaveImages(f)
  <2>1. FiberTypes'  BY <1>20, GoTypes DEF SaveImages
  <2> QED  BY <1>20, <2>1 DEF SaveImages
<1>21. CASE ReadImages(f)  BY <1>21 DEF ReadImages, Move
<1>22. CASE Strip(f)
  <2>1. FiberTypes'  BY <1>22, GoTypes DEF Strip
  <2> QED  BY <1>22, <2>1 DEF Strip
<1> QED  BY <1>1, <1>2, <1>3, <1>4, <1>5, <1>6, <1>7, <1>8, <1>9, <1>10, <1>11, <1>12, <1>13, <1>14,
            <1>15, <1>16, <1>17, <1>18, <1>19, <1>20, <1>21, <1>22, <1>23

LEMMA OutsideTypes ==
  ASSUME Types,
         Rerun \/ SetStatus \/ RemoveKeyword \/ RemoveMap \/ RemovePiece \/ GenerateBrief \/ Crash
  PROVE  Types'
<1> USE DEF runRows, pieces, Outside
<1>1. CASE Rerun
  <2>1. PICK n \in 1..5 : approved' = {Order[k] : k \in 1..(n - 1)} \cap approved
    BY <1>1, OrderIs DEF Rerun
  <2>2. \A k \in 1..(n - 1) : Before[Order[k]] \subseteq {Order[i] : i \in 1..(n - 1)}
    BY OrderIs
  <2>3. Closed(approved')  BY <2>1, <2>2 DEF Closed
  <2>4. version' \in Nat /\ artifact' \in [of : Nat, full : BOOLEAN]  BY <1>1 DEF Rerun
  <2>5. approved' \subseteq Steps  BY <2>1
  <2> QED  BY <1>1, <2>3, <2>4, <2>5 DEF Rerun
<1>2. CASE SetStatus  BY <1>2 DEF SetStatus
<1>3. CASE RemoveKeyword  BY <1>3, UnlessTypes DEF RemoveKeyword
<1>4. CASE RemoveMap
  <2>1. PICK m \in maps : /\ brief' = Unless(m, Unless(m, brief, "map"), "page")
                          /\ article' = Unless(m, article, "map") /\ maps' = maps \ {m}
    BY <1>4 DEF RemoveMap
  <2>2. brief' \in Pieces /\ article' \in Pieces
    <3> HIDE DEF Pieces
    <3> QED  BY <2>1, UnlessTypes
  <2> QED  BY <1>4, <2>1, <2>2 DEF RemoveMap
<1>5. CASE RemovePiece
  <2>1. NoPiece \in Pieces  BY DEF NoPiece
  <2> QED  BY <1>5, <2>1 DEF RemovePiece
<1>6. CASE GenerateBrief  BY <1>6 DEF GenerateBrief
<1>7. CASE Crash  BY <1>7 DEF Crash, Fresh
<1> QED  BY <1>1, <1>2, <1>3, <1>4, <1>5, <1>6, <1>7

LEMMA StepTypes == Types /\ [Next]_vars => Types'
<1> SUFFICES ASSUME Types, [Next]_vars  PROVE Types'  OBVIOUS
<1>1. CASE UNCHANGED vars  BY <1>1 DEF vars, runRows, pieces, fibers
<1>2. CASE Next  BY <1>2, FiberStepTypes, OutsideTypes DEF Next
<1> QED  BY <1>1, <1>2

-----------------------------------------------------------------------------
(* One map.                                                                *)

LEMMA Count ==
  ASSUME RowTypes
  PROVE  Single <=> Cardinality(maps) <= 1
<1>1. IsFiniteSet(maps)
  <2>1. IsFiniteSet(1..rows)  BY FS_Interval
  <2>2. maps \subseteq 1..rows  OBVIOUS
  <2> QED  BY <2>1, <2>2, FS_Subset
<1>2. ASSUME Single  PROVE Cardinality(maps) <= 1
  <2>1. CASE maps = {}  BY <2>1, FS_EmptySet
  <2>2. CASE maps # {}
    <3>1. PICK m \in maps : TRUE  BY <2>2
    <3>2. maps = {m}  BY <1>2 DEF Single
    <3>3. Cardinality({m}) = 1  BY FS_Singleton
    <3> QED  BY <3>2, <3>3
  <2> QED  BY <2>1, <2>2
<1>3. ASSUME Cardinality(maps) <= 1, NEW m \in maps, NEW n \in maps  PROVE m = n
  <2>1. Cardinality(maps) \in Nat  BY <1>1, FS_CardinalityType
  <2>2. IsFiniteSet(maps \ {m}) /\ Cardinality(maps \ {m}) = Cardinality(maps) - 1
    BY <1>1, FS_RemoveElement
  <2>3. Cardinality(maps \ {m}) \in Nat  BY <2>2, FS_CardinalityType
  <2>4. Cardinality(maps \ {m}) = 0  BY <1>3, <2>1, <2>2, <2>3
  <2> QED  BY <2>2, <2>4, FS_EmptySet
<1> QED  BY <1>2, <1>3 DEF Single

(* Whatever brings no fiber before an insert and no map keeps the maps     *)
(* single.                                                                 *)
LEMMA Quiet ==
  ASSUME MapInv, maps' \subseteq maps, overlap' = overlap,
         \A g \in Fibers : pc'[g] = "saveMap" => pc[g] = "saveMap" /\ loc'[g].map = loc[g].map
  PROVE  MapInv'
BY DEF MapInv, Single

LEMMA QuietGo ==
  ASSUME Types, MapInv, NEW f \in Fibers, NEW from, NEW to, to # "saveMap", Go(f, from, to),
         UNCHANGED <<maps, overlap>>
  PROVE  MapInv'
<1>1. \A g \in Fibers : pc'[g] = "saveMap" => pc[g] = "saveMap" /\ loc'[g].map = loc[g].map
  BY DEF Go, Move
<1> QED  BY <1>1, Quiet

LEMMA MapStep == Types /\ MapInv /\ [Next]_vars => MapInv'
<1> SUFFICES ASSUME Types, MapInv, [Next]_vars  PROVE MapInv'  OBVIOUS
<1> USE DEF runRows, pieces
<1> DEFINE NoInsert == \A g \in Fibers :
             pc'[g] = "saveMap" => pc[g] = "saveMap" /\ loc'[g].map = loc[g].map
<1>1. ASSUME NEW f \in Fibers,
             \/ Approve(f) \/ Backfill(f) \/ NextStep(f) \/ Finish(f) \/ Throw(f)
             \/ FindLinks(f) \/ FindBrief(f) \/ ReadImages(f)
      PROVE  MapInv'
  <2>1. NextStep(f) => FirstOf(loc[f].todo, Order) \in Steps  BY FirstIsNext DEF NextStep, Load
  <2>2. NextStep(f) => Entry[FirstOf(loc[f].todo, Order)] # "saveMap"  BY <2>1 DEF Entry
  <2>3. NextStep(f) => NoInsert  BY <2>2 DEF NextStep, Load, Move
  <2>4. NoInsert /\ maps' = maps /\ overlap' = overlap
    <3>1. CASE Approve(f)  BY <3>1 DEF Approve, Move
    <3>2. CASE Backfill(f)  BY <3>2 DEF Backfill
    <3>3. CASE NextStep(f)  BY <3>3, <2>3 DEF NextStep, Load
    <3>4. CASE Finish(f) \/ Throw(f)  BY <3>4 DEF Finish, Throw
    <3>5. CASE FindLinks(f) \/ FindBrief(f)  BY <3>5 DEF FindLinks, FindBrief, Move
    <3>6. CASE ReadImages(f)  BY <3>6 DEF ReadImages, Move
    <3> HIDE DEF NoInsert
    <3> QED  BY <1>1, <3>1, <3>2, <3>3, <3>4, <3>5, <3>6
  <2> QED  BY <2>4, Quiet
<1>2. ASSUME NEW f \in Fibers, FindMap(f)  PROVE MapInv'
  BY <1>2 DEF FindMap, Move, MapInv, Single
<1>3. ASSUME NEW f \in Fibers, CreateMap(f)  PROVE MapInv'
  <2>1. CASE overlap'  BY <2>1 DEF MapInv
  <2>2. CASE ~overlap'
    <3>1. maps = {} /\ maps' = {rows + 1}  BY <1>3, <2>2 DEF CreateMap, Move, MapInv
    <3>2. \A g \in Fibers : ~(pc'[g] = "saveMap" /\ loc'[g].map = 0)
      BY <1>3, <2>2 DEF CreateMap, Move
    <3> QED  BY <3>1, <3>2 DEF MapInv, Single
  <2> QED  BY <2>1, <2>2
<1>4. ASSUME NEW f \in Fibers,
             \/ UpsertKeywords(f) \/ SkipMap(f) \/ UpdateMap(f) \/ SyncPages(f)
             \/ SaveBrief(f) \/ SaveArticle(f) \/ SaveRefused(f) \/ ReadStatus(f) \/ Advance(f)
             \/ LinkPage(f) \/ FindArticle(f) \/ SaveImages(f) \/ Strip(f)
      PROVE  MapInv'
  <2>1. PICK from, to : Go(f, from, to) /\ to # "saveMap" /\ UNCHANGED <<maps, overlap>>
    BY <1>4 DEF UpsertKeywords, SkipMap, UpdateMap, SyncPages, SaveBrief, SaveArticle, SaveRefused,
                ReadStatus, Advance, LinkPage, FindArticle, SaveImages, Strip,
                AfterPiece, AfterAdvance
  <2> QED  BY <2>1, QuietGo
<1>5. ASSUME Rerun \/ SetStatus \/ RemoveKeyword \/ RemoveMap \/ RemovePiece \/ GenerateBrief \/ Crash
      PROVE  MapInv'
  <2>1. maps' \subseteq maps /\ overlap' = overlap /\ NoInsert
    BY <1>5 DEF Rerun, SetStatus, RemoveKeyword, RemoveMap, RemovePiece, GenerateBrief, Crash, Outside
  <2> QED  BY <2>1, Quiet
<1>6. CASE UNCHANGED vars  BY <1>6, Quiet DEF vars, fibers
<1> QED  BY <1>1, <1>2, <1>3, <1>4, <1>5, <1>6 DEF Next

(* A run has one topical map, unless two materializations of the map ran   *)
(* at once.                                                                *)
THEOREM SingleMap == Spec => []OneMap
<1>1. Init => Types /\ MapInv  BY InitTypes DEF Init, MapInv, Single
<1>2. Types /\ MapInv /\ [Next]_vars => Types' /\ MapInv'  BY StepTypes, MapStep
<1>3. Types /\ MapInv => OneMap  BY Count DEF MapInv, OneMap
<1> QED  BY <1>1, <1>2, <1>3, PTL DEF Spec

-----------------------------------------------------------------------------
(* The backfill that is alone.                                             *)

LEMMA StepsInOrder ==
  /\ Before["keywords"] = {} /\ Before["map"] = {"keywords"}
  /\ Before["brief"] = {"keywords", "map"} /\ Before["article"] = {"keywords", "map", "brief"}
  /\ Before["images"] = {"keywords", "map", "brief", "article"}
  /\ \A s, t \in Steps : s = t \/ s \in Before[t] \/ t \in Before[s]
  /\ \A s \in Steps : Closed(Before[s] \cup {s})
BY DEF Before, Closed

LEMMA Stands ==
  ASSUME NEW S, Promoted(S), UNCHANGED <<given, keyword, maps, paged, taken, brief, article>>
  PROVE  Promoted(S)'
BY DEF Promoted, KeywordThere, MapThere, BriefThere, ArticleThere

(* A statement that is followed by another one of its step,                *)
Kept(f) ==
  /\ loc'[f].backfill = loc[f].backfill /\ loc'[f].todo = loc[f].todo
  /\ loc'[f].step = loc[f].step /\ loc'[f].given = loc[f].given

LEMMA Goes ==
  ASSUME NEW f \in Fibers, Lone(f), pc[f] # "next", pc'[f] # "next", Kept(f), given' = given,
         NEW s \in Steps, loc[f].step = s, s \in StepOf[pc'[f]], Promoted(Before[s])', Found(f)'
  PROVE  Lone(f)'
BY DEF Lone, Done, Kept, Closed

(* and the last one.                                                       *)
LEMMA Ends ==
  ASSUME Types, NEW f \in Fibers, Lone(f), pc[f] # "next", pc'[f] = "next",
         loc' = [loc EXCEPT ![f] = Clear(loc[f])],
         NEW s \in Steps, loc[f].step = s, Promoted(Before[s] \cup {s})'
  PROVE  Lone(f)'
<1>1. loc'[f].backfill = loc[f].backfill /\ loc'[f].todo = loc[f].todo  BY DEF Clear, Fresh
<1>2. Done(f)' = Before[s] \cup {s}  BY <1>1 DEF Lone, Done
<1>3. Closed(Before[s] \cup {s})  BY StepsInOrder
<1>4. Closed(Done(f))' /\ Promoted(Done(f))'  BY <1>2, <1>3 DEF Closed, Promoted
<1> QED  BY <1>1, <1>4 DEF Lone, Closed

LEMMA NextStepLone ==
  ASSUME Types, NEW f \in Fibers, Lone(f), NextStep(f)
  PROVE  pc'[f] # "idle" /\ Lone(f)'
<1> DEFINE s == FirstOf(loc[f].todo, Order)
           todo == loc[f].todo
           backfill == loc[f].backfill
<1>1. Load(f, s) /\ todo # {} /\ todo \subseteq Steps /\ backfill \subseteq Steps /\ pc[f] = "next"
  BY DEF NextStep, Load, Move
<1>2. s \in todo /\ Before[s] \cap todo = {}  BY <1>1, FirstIsNext
<1> HIDE DEF s
<1>3. Closed(backfill) /\ todo \subseteq backfill /\ Closed(backfill \ todo) /\ Promoted(backfill \ todo)
  BY <1>1 DEF Lone, Done
<1>4. backfill \ todo = Before[s]
  <2>1. Before[s] \subseteq backfill \ todo  BY <1>2, <1>3 DEF Closed
  <2>2. ASSUME NEW t \in backfill \ todo  PROVE t \in Before[s]
    BY <1>1, <1>2, <1>3, StepsInOrder DEF Closed
  <2> QED  BY <2>1, <2>2
<1>5. /\ pc'[f] = Entry[s] /\ loc'[f].step = s /\ loc'[f].todo = todo \ {s}
      /\ loc'[f].backfill = backfill /\ loc'[f].given = given \cap PartsOf[s]
      /\ UNCHANGED <<given, keyword, maps, paged, taken, brief, article>>
  BY <1>1 DEF Load, Move, pieces, runRows
<1>6. s \in Steps  BY <1>1, <1>2
<1>7. /\ Entry[s] \in {"upsertKeywords", "findMap", "findLinks", "findBrief", "findArticle"}
      /\ s \in StepOf[Entry[s]]
  BY <1>6 DEF Entry, StepOf
<1>8. Found(f)'  BY <1>5, <1>7 DEF Found
<1>9. Done(f)' = Before[s] \cup {s}  BY <1>2, <1>3, <1>4, <1>5 DEF Done
<1>10. Promoted(Before[s])  BY <1>3, <1>4
<1>11. Promoted(Before[loc[f].step])'
  BY <1>5, <1>10 DEF Promoted, KeywordThere, MapThere, BriefThere, ArticleThere
<1>12. Closed(loc[f].backfill)' /\ loc'[f].todo \subseteq loc'[f].backfill
  BY <1>3, <1>5 DEF Closed
<1>13. pc'[f] \notin {"idle", "next"}  BY <1>5, <1>7
<1> QED  BY <1>5, <1>7, <1>8, <1>9, <1>11, <1>12, <1>13 DEF Lone

LEMMA KeptBy ==
  ASSUME Types, NEW f \in Fibers, NEW k, NEW m,
         \/ loc' = loc
         \/ loc' = [loc EXCEPT ![f].map = m] \/ loc' = [loc EXCEPT ![f].images = m]
         \/ loc' = [loc EXCEPT ![f].keyword = k, ![f].map = m]
         \/ loc' = [loc EXCEPT ![f].map = m, ![f].keyword = k]
  PROVE  Kept(f)
BY DEF Kept

LEMMA Known ==
  ASSUME NEW f \in Fibers, Lone(f), pc[f] # "next"
  PROVE  /\ loc[f].step \in StepOf[pc[f]] /\ Promoted(Before[loc[f].step]) /\ Found(f)
         /\ loc[f].given = given \cap PartsOf[loc[f].step]
BY DEF Lone

LEMMA KeywordsAndMapLone ==
  ASSUME Types, NEW f \in Fibers, Single', Single, Lone(f),
         \/ UpsertKeywords(f) \/ SkipMap(f) \/ FindMap(f) \/ CreateMap(f) \/ UpdateMap(f)
         \/ SyncPages(f)
  PROVE  pc'[f] # "idle" /\ Lone(f)'
<1> USE DEF Go, Move, StepOf
<1>6. given' = given
  BY DEF UpsertKeywords, SkipMap, FindMap, CreateMap, UpdateMap, SyncPages, runRows
<1>1. CASE UpsertKeywords(f)
  <2>1. pc[f] = "upsertKeywords" /\ pc'[f] = "next" /\ loc' = [loc EXCEPT ![f] = Clear(loc[f])]
    BY <1>1 DEF UpsertKeywords
  <2>2. loc[f].step = "keywords" /\ loc[f].given = given \cap {"keyword"}
    BY <2>1, Known, PartsAre
  <2>3. KeywordThere'  BY <1>1, <1>6, <2>2 DEF UpsertKeywords, KeywordThere
  <2>4. Promoted(Before["keywords"] \cup {"keywords"})'  BY <2>3, StepsInOrder DEF Promoted
  <2> HIDE DEF Types
  <2> QED  BY <2>1, <2>2, <2>4, Ends
<1>7. CASE SkipMap(f)
  <2>1. /\ pc[f] = "findMap" /\ pc'[f] = "next" /\ loc' = [loc EXCEPT ![f] = Clear(loc[f])]
        /\ "pillar" \notin loc[f].given /\ UNCHANGED <<keyword, maps, paged, taken, brief, article>>
    BY <1>7 DEF SkipMap, pieces
  <2>2. /\ loc[f].step = "map" /\ Promoted(Before["map"])
        /\ loc[f].given = given \cap {"pillar", "page"}
    BY <2>1, Known, PartsAre
  <2>3. MapThere'  BY <1>6, <2>1, <2>2 DEF MapThere
  <2>4. Promoted(Before["map"] \cup {"map"})'
    BY <1>6, <2>1, <2>2, <2>3, StepsInOrder DEF Promoted, KeywordThere
  <2> HIDE DEF Types
  <2> QED  BY <2>1, <2>2, <2>4, Ends
<1>2. CASE FindMap(f)
  <2>1. /\ pc[f] = "findMap" /\ pc'[f] = "saveMap"
        /\ UNCHANGED <<keyword, maps, paged, taken, brief, article>>
    BY <1>2 DEF FindMap, pieces
  <2>2. loc[f].step = "map" /\ Promoted(Before["map"])  BY <2>1, Known
  <2>3. PICK m \in (IF maps = {} THEN {0} ELSE maps) : loc' = [loc EXCEPT ![f].map = m]
    BY <1>2 DEF FindMap
  <2>4. Kept(f)  BY <2>3, KeptBy
  <2>5. Found(f)'  BY <2>1, <2>3 DEF Found
  <2>6. Promoted(Before["map"])'  BY <1>6, <2>1, <2>2, Stands
  <2>7. "map" \in StepOf[pc'[f]] /\ pc'[f] \notin {"idle", "next"}  BY <2>1, <2>2, <2>3
  <2> HIDE DEF Types, Go, Move, StepOf
  <2> QED  BY <1>6, <2>1, <2>2, <2>4, <2>5, <2>6, <2>7, Goes
<1>3. CASE CreateMap(f)
  <2>1. /\ pc[f] = "saveMap" /\ pc'[f] = "sync" /\ keyword' = keyword
        /\ loc' = [loc EXCEPT ![f].map = rows + 1] /\ rows + 1 \in maps'
        /\ "page" \in loc[f].given => rows + 1 \in rich'
    BY <1>3 DEF CreateMap, Enriched
  <2>2. loc[f].step = "map" /\ Promoted(Before["map"])  BY <2>1, Known
  <2>3. Kept(f)  BY <2>1, KeptBy
  <2>4. Found(f)'  BY <2>1 DEF Found
  <2>5. Promoted(Before["map"])'
    BY <1>6, <2>1, <2>2, StepsInOrder DEF Promoted, KeywordThere
  <2>6. "map" \in StepOf[pc'[f]] /\ pc'[f] \notin {"idle", "next"}  BY <2>1, <2>2, <2>3
  <2> HIDE DEF Types, Go, Move, StepOf
  <2> QED  BY <1>6, <2>1, <2>2, <2>3, <2>4, <2>5, <2>6, Goes
<1>4. CASE UpdateMap(f)
  <2>1. pc[f] = "saveMap" /\ UNCHANGED <<keyword, maps, paged, taken, brief, article>>
    BY <1>4 DEF UpdateMap, pieces
  <2>2. loc[f].step = "map" /\ Promoted(Before["map"]) /\ Found(f)  BY <2>1, Known
  <2>3. loc[f].map \in maps /\ pc'[f] = "sync" /\ loc' = loc
    BY <1>4, <2>1, <2>2 DEF UpdateMap, Found
  <2>4. Kept(f)  BY <2>3, KeptBy
  <2>8. "page" \in loc[f].given => loc[f].map \in rich'  BY <1>4, <2>3 DEF UpdateMap, Enriched
  <2>5. Found(f)'  BY <2>1, <2>3, <2>8 DEF Found
  <2>6. Promoted(Before["map"])'  BY <1>6, <2>1, <2>2, Stands
  <2>7. "map" \in StepOf[pc'[f]] /\ pc'[f] \notin {"idle", "next"}  BY <2>1, <2>2, <2>3
  <2> HIDE DEF Types, Go, Move, StepOf
  <2> QED  BY <1>6, <2>1, <2>2, <2>3, <2>4, <2>5, <2>6, <2>7, Goes
<1>5. CASE SyncPages(f)
  <2>1. /\ pc[f] = "sync" /\ pc'[f] = "next" /\ UNCHANGED <<keyword, maps>>
        /\ paged' = paged \cup ({loc[f].map} \cap rich) /\ loc' = [loc EXCEPT ![f] = Clear(loc[f])]
    BY <1>5 DEF SyncPages
  <2>2. /\ loc[f].step = "map" /\ Promoted(Before["map"]) /\ loc[f].map \in maps
        /\ loc[f].given = given \cap {"pillar", "page"}
        /\ "page" \in loc[f].given => loc[f].map \in rich
    BY <2>1, Known, PartsAre DEF Found
  <2>3. MapThere'  BY <1>6, <2>1, <2>2 DEF MapThere, Single
  <2>4. Promoted(Before["map"] \cup {"map"})'
    BY <1>6, <2>1, <2>2, <2>3, StepsInOrder DEF Promoted, KeywordThere
  <2> HIDE DEF Types
  <2> QED  BY <2>1, <2>2, <2>4, Ends
<1> QED  BY <1>1, <1>2, <1>3, <1>4, <1>5, <1>7

LEMMA BriefLone ==
  ASSUME Types, NEW f \in Fibers, Single, Lone(f), loc[f].step = "brief",
         \/ FindLinks(f) \/ SaveBrief(f) \/ SaveRefused(f) \/ ReadStatus(f) \/ Advance(f)
         \/ LinkPage(f)
  PROVE  pc'[f] # "idle" /\ Lone(f)'
<1> USE DEF Go, Move, StepOf
<1>1. pc[f] # "next" /\ given' = given
  BY DEF FindLinks, SaveBrief, SaveRefused, ReadStatus, Advance, LinkPage, runRows
<1>2. /\ Promoted(Before["brief"]) /\ Found(f) /\ "brief" \in StepOf[pc[f]]
      /\ loc[f].given = given \cap {"target", "pageTarget"}
  BY <1>1, Known, PartsAre
<1>3. KeywordThere /\ MapThere  BY <1>2, StepsInOrder DEF Promoted
<1>4. CASE FindLinks(f)
  <2>1. pc'[f] = "saveBrief" /\ UNCHANGED <<keyword, maps, paged, taken, brief, article>>
    BY <1>4 DEF FindLinks, pieces
  <2>2. PICK m \in MapIfAny : loc' = [loc EXCEPT ![f].map = m, ![f].keyword = Wanted(loc[f])]
    BY <1>4 DEF FindLinks, Wanted, MapIfAny
  <2>3. Kept(f)  BY <2>2, KeptBy
  <2>4. /\ loc'[f].map = m /\ loc'[f].keyword = Wanted(loc[f]) /\ loc'[f].given = loc[f].given
        /\ Wanted(loc[f])' = Wanted(loc[f]) /\ MapIfAny' = MapIfAny
    BY <2>1, <2>2 DEF Wanted, MapIfAny
  <2>5. Found(f)'  BY <2>1, <2>4 DEF Found
  <2>6. Promoted(Before["brief"])'  BY <1>1, <1>2, <2>1, Stands
  <2>7. "brief" \in StepOf[pc'[f]] /\ pc'[f] \notin {"idle", "next"}  BY <2>1
  <2> HIDE DEF Types, Go, Move, StepOf
  <2> QED  BY <1>1, <2>1, <2>3, <2>5, <2>6, <2>7, Goes
<1>5. CASE SaveBrief(f)
  <2>1. pc[f] = "saveBrief" /\ loc[f].keyword = Wanted(loc[f]) /\ loc[f].map \in MapIfAny
    BY <1>2, <1>5 DEF SaveBrief, Found
  <2>2. pc'[f] = (IF loc[f].keyword = 0 THEN "linkPage" ELSE "readStatus")
    BY <1>5, <2>1 DEF SaveBrief, AfterPiece
  <2>3. loc' = loc /\ UNCHANGED <<keyword, maps, paged, taken, article>>
        /\ brief' = [brief EXCEPT !.there = TRUE, !.keyword = loc[f].keyword, !.map = loc[f].map]
    BY <1>5, <2>1, <2>2 DEF SaveBrief
  <2>4. Kept(f)  BY <2>3, KeptBy
  <2>5. brief'.there /\ brief'.keyword = loc[f].keyword /\ brief'.map = loc[f].map  BY <2>3
  <2>6. loc[f].keyword = (IF "target" \in given THEN keyword.id ELSE 0)
    BY <1>2, <2>1 DEF Wanted
  <2>7. BriefLinked'  BY <1>1, <2>1, <2>3, <2>5, <2>6 DEF BriefLinked, MapIfAny
  <2>8. Found(f)'  BY <2>2, <2>3, <2>5, <2>6, <2>7 DEF Found
  <2>9. Promoted(Before["brief"])'
    BY <1>1, <1>3, <2>3, StepsInOrder DEF Promoted, KeywordThere, MapThere
  <2>10. "brief" \in StepOf[pc'[f]] /\ pc'[f] \notin {"idle", "next"}  BY <2>2
  <2> HIDE DEF Types, Go, Move, StepOf
  <2> QED  BY <1>1, <2>4, <2>8, <2>9, <2>10, Goes
<1>6. CASE SaveRefused(f)
  <2>1. pc[f] = "saveBrief" \/ pc[f] = "saveArticle"  BY <1>6 DEF SaveRefused
  <2>2. pc[f] = "saveBrief"  BY <1>2, <2>1
  <2> QED  BY <1>2, <1>6, <2>2 DEF SaveRefused, Found, Linkable, Wanted, MapIfAny
<1>7. CASE ReadStatus(f)
  <2>1. /\ pc[f] = "readStatus" /\ BriefLinked /\ loc[f].keyword = keyword.id
        /\ loc[f].map = brief.map /\ pc'[f] \in {"advance", "linkPage"}
        /\ pc'[f] = "linkPage" => keyword.status >= BriefReady
    BY <1>2, <1>7 DEF ReadStatus, Found, Target, AfterAdvance
  <2>2. loc' = loc /\ UNCHANGED <<keyword, maps, paged, taken, brief, article>>
    BY <1>7, <2>1 DEF ReadStatus, pieces, AfterAdvance
  <2>3. Kept(f)  BY <2>2, KeptBy
  <2>4. BriefLinked'  BY <1>1, <2>1, <2>2 DEF BriefLinked, MapIfAny
  <2>5. Found(f)'  BY <2>1, <2>2, <2>4 DEF Found
  <2>6. Promoted(Before["brief"])'  BY <1>1, <1>2, <2>2, Stands
  <2>7. "brief" \in StepOf[pc'[f]] /\ pc'[f] \notin {"idle", "next"}  BY <2>1
  <2> HIDE DEF Types, Go, Move, StepOf
  <2> QED  BY <1>1, <2>1, <2>3, <2>5, <2>6, <2>7, Goes
<1>8. CASE Advance(f)
  <2>1. /\ pc[f] = "advance" /\ BriefLinked /\ loc[f].keyword = keyword.id
        /\ loc[f].map = brief.map /\ pc'[f] = "linkPage" /\ loc' = loc
        /\ UNCHANGED <<maps, paged, taken, brief, article>>
    BY <1>2, <1>8 DEF Advance, Found, AfterAdvance, pieces
  <2>2. keyword'.id = keyword.id /\ keyword'.status = BriefReady  BY <1>8, <2>1 DEF Advance, Target
  <2>3. Kept(f)  BY <2>1, KeptBy
  <2>4. BriefLinked'  BY <1>1, <2>1, <2>2 DEF BriefLinked, MapIfAny
  <2>5. Found(f)'  BY <2>1, <2>2, <2>4 DEF Found
  <2>6. Promoted(Before["brief"])'
    BY <1>1, <1>3, <2>1, <2>2, StepsInOrder DEF Promoted, KeywordThere, MapThere
  <2>7. "brief" \in StepOf[pc'[f]] /\ pc'[f] \notin {"idle", "next"}  BY <2>1
  <2> HIDE DEF Types, Go, Move, StepOf
  <2> QED  BY <1>1, <2>1, <2>3, <2>5, <2>6, <2>7, Goes
<1>9. CASE LinkPage(f)
  <2>1. /\ pc[f] = "linkPage" /\ pc'[f] = "next" /\ BriefLinked /\ loc[f].map = brief.map
        /\ brief.keyword = 0 \/ keyword.status >= BriefReady
        /\ UNCHANGED <<keyword, maps, paged, taken>>
        /\ loc' = [loc EXCEPT ![f] = Clear(loc[f])]
    BY <1>2, <1>9 DEF LinkPage, Found
  <2>2. "pageTarget" \in loc[f].given <=> "pageTarget" \in given  BY <1>2
  <2>3. /\ brief'.there /\ brief'.keyword = brief.keyword /\ brief'.map = brief.map
        /\ "pageTarget" \in given /\ brief.map \in paged
             => brief'.page = brief.map \/ brief.map \in taken
    BY <1>9, <2>1, <2>2 DEF LinkPage, BriefLinked
  <2>4. BriefThere'  BY <1>1, <2>1, <2>3 DEF BriefThere, BriefLinked, MapIfAny
  <2>5. Promoted(Before["brief"] \cup {"brief"})'
    BY <1>1, <1>3, <2>1, <2>4, StepsInOrder DEF Promoted, KeywordThere, MapThere
  <2> HIDE DEF Types
  <2> QED  BY <1>1, <2>1, <2>5, Ends
<1> QED  BY <1>4, <1>5, <1>6, <1>7, <1>8, <1>9

LEMMA ArticleLone ==
  ASSUME Types, NEW f \in Fibers, Single, Lone(f), loc[f].step = "article",
         \/ FindBrief(f) \/ SaveArticle(f) \/ SaveRefused(f) \/ ReadStatus(f) \/ Advance(f)
  PROVE  pc'[f] # "idle" /\ Lone(f)'
<1> USE DEF Go, Move, StepOf
<1>1. pc[f] # "next" /\ given' = given
  BY DEF FindBrief, SaveArticle, SaveRefused, ReadStatus, Advance, runRows
<1>2. Promoted(Before["article"]) /\ Found(f) /\ "article" \in StepOf[pc[f]]  BY <1>1, Known
<1>3. KeywordThere /\ MapThere /\ BriefThere  BY <1>2, StepsInOrder DEF Promoted
<1>4. CASE FindBrief(f)
  <2>1. pc'[f] = "saveArticle" /\ UNCHANGED <<keyword, maps, paged, taken, brief, article>>
    BY <1>4 DEF FindBrief, pieces
  <2>2. loc' = [loc EXCEPT ![f].keyword = brief.keyword, ![f].map = brief.map]
    BY <1>4 DEF FindBrief
  <2>3. Kept(f)  BY <2>2, KeptBy
  <2>4. Found(f)'  BY <2>1, <2>2 DEF Found
  <2>5. Promoted(Before["article"])'  BY <1>1, <1>2, <2>1, Stands
  <2>6. "article" \in StepOf[pc'[f]] /\ pc'[f] \notin {"idle", "next"}  BY <2>1
  <2> HIDE DEF Types, Go, Move, StepOf
  <2> QED  BY <1>1, <2>3, <2>4, <2>5, <2>6, Goes
<1>5. CASE SaveArticle(f)
  <2>1. pc[f] = "saveArticle" /\ loc[f].keyword = brief.keyword /\ loc[f].map = brief.map
    BY <1>2, <1>5 DEF SaveArticle, Found
  <2>2. /\ UNCHANGED <<keyword, maps, paged, taken, brief>>
        /\ article' = [article EXCEPT !.there = TRUE, !.keyword = loc[f].keyword, !.map = loc[f].map]
    BY <1>5 DEF SaveArticle
  <2>3. article'.there /\ article'.keyword = brief.keyword /\ article'.map = brief.map
    BY <2>1, <2>2
  <2>4. Promoted(Before["article"])'
    BY <1>1, <1>3, <2>2, StepsInOrder DEF Promoted, KeywordThere, MapThere, BriefThere
  <2>5. CASE brief.keyword # 0
    <3>1. loc[f].keyword = keyword.id  BY <1>3, <2>1, <2>5 DEF BriefThere
    <3>2. pc'[f] = "readStatus" /\ loc' = loc  BY <1>5, <2>1, <2>5 DEF SaveArticle, AfterPiece
    <3>3. Kept(f)  BY <3>2, KeptBy
    <3>4. Found(f)'  BY <2>2, <2>3, <3>1, <3>2 DEF Found
    <3>5. "article" \in StepOf[pc'[f]] /\ pc'[f] \notin {"idle", "next"}  BY <3>2
    <3> HIDE DEF Types, Go, Move, StepOf
    <3> QED  BY <1>1, <2>4, <3>3, <3>4, <3>5, Goes
  <2>6. CASE brief.keyword = 0
    <3>1. pc'[f] = "next" /\ loc' = [loc EXCEPT ![f] = Clear(loc[f])]
      BY <1>5, <2>1, <2>6 DEF SaveArticle, AfterPiece
    <3>2. ArticleThere'  BY <2>2, <2>3, <2>6 DEF ArticleThere
    <3>3. Promoted(Before["article"] \cup {"article"})'
      BY <2>4, <3>2, StepsInOrder DEF Promoted
    <3> HIDE DEF Types, Go, Move, StepOf
    <3> QED  BY <1>1, <3>1, <3>3, Ends
  <2> QED  BY <2>5, <2>6
<1>6. CASE SaveRefused(f)
  <2>1. pc[f] = "saveBrief" \/ pc[f] = "saveArticle"  BY <1>6 DEF SaveRefused
  <2>2. pc[f] = "saveArticle"  BY <1>2, <2>1
  <2>3. loc[f].keyword = brief.keyword /\ loc[f].map = brief.map  BY <1>2, <2>2 DEF Found
  <2>4. loc[f].keyword \in {0, keyword.id} /\ loc[f].map \in {0} \cup maps
    BY <1>3, <2>3 DEF BriefThere
  <2> QED  BY <1>6, <2>4 DEF SaveRefused, Linkable
<1>7. CASE ReadStatus(f)
  <2>1. /\ pc[f] = "readStatus" /\ loc[f].keyword = keyword.id
        /\ article.there /\ article.keyword = brief.keyword /\ article.map = brief.map
        /\ UNCHANGED <<keyword, maps, paged, taken, brief, article>>
    BY <1>2, <1>7 DEF ReadStatus, Found, pieces
  <2>2. Promoted(Before["article"])'  BY <1>1, <1>2, <2>1, Stands
  <2>3. CASE keyword.status < Written
    <3>1. pc'[f] = "advance" /\ loc' = loc  BY <1>7, <2>1, <2>3 DEF ReadStatus, Target
    <3>2. Kept(f)  BY <3>1, KeptBy
    <3>3. Found(f)'  BY <2>1, <3>1 DEF Found
    <3>4. "article" \in StepOf[pc'[f]] /\ pc'[f] \notin {"idle", "next"}  BY <3>1
    <3> HIDE DEF Types, Go, Move, StepOf
    <3> QED  BY <1>1, <2>2, <3>2, <3>3, <3>4, Goes
  <2>4. CASE ~(keyword.status < Written)
    <3>1. pc'[f] = "next" /\ loc' = [loc EXCEPT ![f] = Clear(loc[f])]
      BY <1>7, <2>1, <2>4 DEF ReadStatus, Target, AfterAdvance
    <3>2. keyword.status >= Written  BY <2>4
    <3>3. ArticleThere'  BY <2>1, <3>2 DEF ArticleThere
    <3>4. Promoted(Before["article"] \cup {"article"})'
      BY <2>2, <3>3, StepsInOrder DEF Promoted
    <3> HIDE DEF Types, Go, Move, StepOf
    <3> QED  BY <1>1, <3>1, <3>4, Ends
  <2> QED  BY <2>3, <2>4
<1>8. CASE Advance(f)
  <2>1. /\ pc[f] = "advance" /\ loc[f].keyword = keyword.id
        /\ article.there /\ article.keyword = brief.keyword /\ article.map = brief.map
        /\ pc'[f] = "next" /\ loc' = [loc EXCEPT ![f] = Clear(loc[f])]
        /\ UNCHANGED <<maps, paged, taken, brief, article>>
    BY <1>2, <1>8 DEF Advance, Found, AfterAdvance, pieces
  <2>2. keyword'.id = keyword.id /\ keyword'.status = Written  BY <1>8, <2>1 DEF Advance, Target
  <2>3. ArticleThere'  BY <2>1, <2>2 DEF ArticleThere
  <2>4. BriefThere'  BY <1>1, <1>3, <2>1, <2>2 DEF BriefThere
  <2>5. Promoted(Before["article"] \cup {"article"})'
    BY <1>1, <1>3, <2>1, <2>2, <2>3, <2>4, StepsInOrder DEF Promoted, KeywordThere, MapThere
  <2> HIDE DEF Types, Go, Move, StepOf
  <2> QED  BY <1>1, <2>1, <2>5, Ends
<1> QED  BY <1>4, <1>5, <1>6, <1>7, <1>8

LEMMA ImagesLone ==
  ASSUME Types, NEW f \in Fibers, Lone(f),
         FindArticle(f) \/ SaveImages(f) \/ ReadImages(f) \/ Strip(f)
  PROVE  pc'[f] # "idle" /\ Lone(f)'
<1> USE DEF Go, Move, StepOf
<1>1. pc[f] \in {"findArticle", "saveImages", "readImages", "strip"}
      /\ UNCHANGED <<given, keyword, maps, paged, taken, brief, article>>
  BY DEF FindArticle, SaveImages, ReadImages, Strip, pieces, runRows
<1>2. Promoted(Before["images"]) /\ loc[f].step = "images"  BY <1>1, Known
<1>3. Promoted(Before["images"])'  BY <1>1, <1>2, Stands
<1>4. Promoted(Before["images"] \cup {"images"})'  BY <1>3 DEF Promoted
<1>5. CASE pc'[f] = "next"
  <2>1. loc' = [loc EXCEPT ![f] = Clear(loc[f])]
    BY <1>5 DEF FindArticle, SaveImages, ReadImages, Strip
  <2> HIDE DEF Types, Go, Move, StepOf
  <2> QED  BY <1>1, <1>2, <1>4, <1>5, <2>1, Ends
<1>6. CASE pc'[f] # "next"
  <2>1. pc'[f] \in {"saveImages", "readImages", "strip"}
    BY <1>6 DEF FindArticle, SaveImages, ReadImages, Strip
  <2>2. loc' = loc \/ loc' = [loc EXCEPT ![f].images = artifact.of]
    BY <1>6 DEF FindArticle, SaveImages, ReadImages, Strip
  <2>3. Kept(f)  BY <2>2, KeptBy
  <2>4. Found(f)'  BY <2>1 DEF Found
  <2>5. "images" \in StepOf[pc'[f]]  BY <2>1
  <2> HIDE DEF Types, Go, Move, StepOf
  <2> QED  BY <1>1, <1>2, <1>3, <1>6, <2>1, <2>3, <2>4, <2>5, Goes
<1> QED  BY <1>5, <1>6

LEMMA BackfillLone ==
  ASSUME Types, NEW f \in Fibers, Backfill(f)
  PROVE  pc'[f] # "idle" /\ Lone(f)'
<1>1. pc'[f] = "next" /\ loc'[f].todo = approved /\ loc'[f].backfill = approved
  BY DEF Backfill, Fresh
<1>2. Done(f)' = {}  BY <1>1 DEF Done
<1>3. Closed(Done(f))' /\ Promoted(Done(f))'  BY <1>2 DEF Closed, Promoted
<1>4. Closed(loc[f].backfill)'  BY <1>1 DEF Closed
<1> QED  BY <1>1, <1>3, <1>4 DEF Lone

LEMMA LoneStep == Types /\ LoneInv /\ [Next]_vars => LoneInv'
<1> SUFFICES ASSUME Types, LoneInv, [Next]_vars, NEW f \in Fibers, alone' = f
             PROVE  (pc'[f] # "idle" /\ (Single => Lone(f))')
  BY DEF LoneInv
<1> USE DEF Go, Move
<1>1. ASSUME NEW g \in Fibers, Approve(g) \/ Finish(g) \/ Throw(g)  PROVE FALSE
  <2>1. CASE Approve(g)
    <3>1. g = f /\ alone = f /\ pc[f] = "idle"  BY <2>1 DEF Approve
    <3> QED  BY <3>1 DEF LoneInv
  <2> QED  BY <1>1, <2>1 DEF Finish, Throw
<1>2. ASSUME NEW g \in Fibers, Backfill(g)  PROVE pc'[f] # "idle" /\ Lone(f)'
  <2>1. g = f  BY <1>2 DEF Backfill
  <2> QED  BY <1>2, <2>1, BackfillLone
<1>3. ASSUME NEW g \in Fibers,
             \/ NextStep(g) \/ UpsertKeywords(g) \/ SkipMap(g) \/ FindMap(g) \/ CreateMap(g)
             \/ UpdateMap(g) \/ SyncPages(g) \/ FindLinks(g) \/ SaveBrief(g) \/ FindBrief(g)
             \/ SaveArticle(g) \/ SaveRefused(g) \/ ReadStatus(g) \/ Advance(g) \/ LinkPage(g)
             \/ FindArticle(g) \/ SaveImages(g) \/ ReadImages(g) \/ Strip(g)
      PROVE  pc'[f] # "idle" /\ (Single' => Lone(f)')
  <2>1. g = f /\ alone = f
    BY <1>3 DEF NextStep, Load, UpsertKeywords, SkipMap, FindMap, CreateMap, UpdateMap, SyncPages,
                FindLinks, SaveBrief, FindBrief, SaveArticle, SaveRefused, ReadStatus, Advance,
                LinkPage, FindArticle, SaveImages, ReadImages, Strip
  <2>2. pc'[f] # "idle" /\ maps \subseteq maps'
    <3>1. NextStep(f) => Entry[FirstOf(loc[f].todo, Order)] # "idle"
      BY FirstIsNext DEF NextStep, Load, Entry
    <3>2. CASE NextStep(f)  BY <3>1, <3>2 DEF NextStep, Load
    <3>3. CASE ~NextStep(f)
      BY <1>3, <2>1, <3>3
         DEF UpsertKeywords, SkipMap, FindMap, CreateMap, UpdateMap, SyncPages, FindLinks, SaveBrief,
             FindBrief, SaveArticle, SaveRefused, ReadStatus, Advance, LinkPage, FindArticle,
             SaveImages, ReadImages, Strip, AfterPiece, AfterAdvance
    <3> QED  BY <3>2, <3>3
  <2>3. ASSUME Single'  PROVE Lone(f)'
    <3>1. Single  BY <2>2, <2>3 DEF Single
    <3>2. Lone(f)  BY <2>1, <3>1 DEF LoneInv
    <3>3. SaveRefused(f) \/ ReadStatus(f) \/ Advance(f) => loc[f].step \in {"brief", "article"}
      BY <3>2, Known DEF SaveRefused, ReadStatus, Advance, StepOf
    <3>4. FindLinks(f) \/ SaveBrief(f) \/ LinkPage(f) => loc[f].step = "brief"
      <4>1. FindLinks(f) \/ SaveBrief(f) \/ LinkPage(f)
              => pc[f] \in {"findLinks", "saveBrief", "linkPage"}
        BY DEF FindLinks, SaveBrief, LinkPage
      <4> HIDE DEF Types, Go, Move
      <4> QED  BY <3>2, <4>1, Known DEF StepOf
    <3>5. FindBrief(f) \/ SaveArticle(f) => loc[f].step = "article"
      BY <3>2, Known DEF FindBrief, SaveArticle, StepOf
    <3> HIDE DEF Types, Go, Move
    <3> QED  BY <1>3, <2>1, <2>3, <3>1, <3>2, <3>3, <3>4, <3>5, NextStepLone, KeywordsAndMapLone,
                BriefLone, ArticleLone, ImagesLone
  <2> QED  BY <2>2, <2>3
<1>4. ASSUME Rerun \/ SetStatus \/ RemoveKeyword \/ RemoveMap \/ RemovePiece \/ GenerateBrief \/ Crash
      PROVE  FALSE
  BY <1>4 DEF Rerun, SetStatus, RemoveKeyword, RemoveMap, RemovePiece, GenerateBrief, Crash, Outside
<1>5. ASSUME UNCHANGED vars  PROVE (pc'[f] # "idle" /\ (Single => Lone(f))')
  BY <1>5 DEF LoneInv, Lone, Done, Found, BriefLinked, Closed, Promoted, KeywordThere, MapThere,
              BriefThere, ArticleThere, Single, Wanted, MapIfAny, vars, runRows, pieces,
              fibers
<1> QED  BY <1>1, <1>2, <1>3, <1>4, <1>5 DEF Next

(* A backfill that nothing interferes with leaves the rows of the approved *)
(* steps there and linked, whatever was lost before it.                    *)
THEOREM BackfillCompletes == Spec => []BackfillRepairs
<1>1. Init => Types /\ LoneInv  BY InitTypes DEF Init, LoneInv
<1>2. Types /\ LoneInv /\ [Next]_vars => Types' /\ LoneInv'  BY StepTypes, LoneStep
<1>3. Types /\ LoneInv => BackfillRepairs
  <2> SUFFICES ASSUME Types, LoneInv, NEW f \in Fibers, alone = f, pc[f] = "next",
                      loc[f].todo = {}, Cardinality(maps) <= 1
               PROVE  Promoted(loc[f].backfill)
    BY DEF BackfillRepairs
  <2>1. Promoted(Done(f))  BY Count DEF LoneInv, Lone
  <2>2. Done(f) = loc[f].backfill  BY DEF Done
  <2> QED  BY <2>1, <2>2
<1> QED  BY <1>1, <1>2, <1>3, PTL DEF Spec

=============================================================================
