---------------------------- MODULE Materializer ----------------------------
(***************************************************************************)
(* WorkflowMaterializerService: the approved artifacts of one run become   *)
(* rows of the project: a keyword, the run's topical map and its page, the *)
(* brief, the article, its images.  A fiber is an approval, which          *)
(* materializes its step after the commit, or a backfill of the run.       *)
(* No statement is in a transaction with another.                          *)
(***************************************************************************)
EXTENDS Integers, Sequences, FiniteSets

CONSTANTS
  Fibers,
  Nobody,     \* not a fiber
  MaxRows,    \* bound on the maps and the keywords ever inserted
  MaxUpsets   \* bound on backfills, edits, reruns, faults and missing parts

\* MATERIALIZABLE_STEPS in STEP_ORDER, which is the order of their dependencies too.
Order == <<"keywords", "map", "brief", "article", "images">>

\* What the materializers look for in an artifact, and do nothing without: a keyword, a pillar, a
\* page under a pillar; in a brief, a target keyword which is a keyword of the project, and which
\* is the keyword or the title of a page.
PartsOf == [keywords |-> {"keyword"}, map |-> {"pillar", "page"},
            brief |-> {"target", "pageTarget"}, article |-> {}, images |-> {}]
Parts   == UNION {PartsOf[s] : s \in DOMAIN PartsOf}

\* STATUS_ORDER of a keyword's statuses: a user's 'approved' does here what 'discovered' does, and
\* 'published' what 'written' does.
Discovered == 0
BriefReady == 1
Written    == 2
Statuses   == Discovered..Written

Places == {"idle", "next", "upsertKeywords", "findMap", "saveMap", "sync", "findLinks", "saveBrief",
           "readStatus", "advance", "linkPage", "findBrief", "saveArticle", "findArticle",
           "saveImages", "readImages", "strip"}

ASSUME MaterializerAssumption == Nobody \notin Fibers

VARIABLES
  approved,  \* workflow_steps with status 'approved'
  version,   \* of the latest artifact of the images step
  artifact,  \* that artifact: the version its data are of, whether they hold the images
  given,     \* the parts that the artifacts have, as they were last approved
  keyword,   \* keywords: the row's id (0: none) and its status
  maps,      \* topical_maps of the run
  rich,      \* those whose pillars hold a page
  paged,     \* the maps whose page is in topical_map_pages
  taken,     \* the pages that have a brief generated on demand
  brief,     \* content_pieces of the run's brief: keyword, map, page (a map's, 0: none)
  article,   \* and of its article: keyword, map
  saved,     \* the version of the images in content_images, 0 without any
  pc, loc,   \* per fiber: the statement it is about to execute, its locals
  alone,     \* history: the fiber that has done all that was done since its backfill began
  overlap,   \* history: two materializations of the map ran at once
  rows, upsets   \* counters, for fresh ids and for the bound

runRows == <<approved, version, artifact, given>>
pieces  == <<brief, article, saved>>
fibers  == <<pc, loc, alone>>
vars    == <<runRows, keyword, maps, rich, paged, taken, pieces, fibers, overlap, rows, upsets>>

NoPiece == [there |-> FALSE, keyword |-> 0, map |-> 0, page |-> 0]
Fresh   == [todo |-> {}, step |-> "keywords", given |-> {}, keyword |-> 0, map |-> 0,
            images |-> 0, backfill |-> {}]

Init ==
  /\ approved = {} /\ version = 1 /\ given = Parts
  /\ artifact = [of |-> 1, full |-> TRUE]
  /\ keyword = [id |-> 0, status |-> Discovered] /\ maps = {} /\ rich = {}
  /\ paged = {} /\ taken = {}
  /\ brief = NoPiece /\ article = NoPiece /\ saved = 0
  /\ pc = [f \in Fibers |-> "idle"] /\ loc = [f \in Fibers |-> Fresh]
  /\ alone = Nobody /\ overlap = FALSE /\ rows = 0 /\ upsets = 0

\* The next statement of a fiber; who else moves is not alone any more.
Move(f, from, to) ==
  /\ pc[f] = from /\ pc' = [pc EXCEPT ![f] = to]
  /\ alone' = IF alone = f THEN f ELSE Nobody

\* The locals of a step end with it.
Clear(l) == [Fresh EXCEPT !.todo = l.todo, !.backfill = l.backfill]

Go(f, from, to) ==
  /\ Move(f, from, to)
  /\ loc' = IF to = "next" THEN [loc EXCEPT ![f] = Clear(loc[f])] ELSE loc

Upset == upsets < MaxUpsets /\ upsets' = upsets + 1

-----------------------------------------------------------------------------
(* materialize, of one step or of those of a backfill.                     *)

Entry == [keywords |-> "upsertKeywords", map |-> "findMap", brief |-> "findLinks",
          article |-> "findBrief", images |-> "findArticle"]

\* The controller's approve, of the first step that is not approved, whatever its artifact lacks.
Approve(f) == \E n \in DOMAIN Order :
  /\ Order[n] \notin approved /\ \A k \in 1..(n - 1) : Order[k] \in approved
  /\ Move(f, "idle", "next") /\ approved' = approved \cup {Order[n]}
  /\ loc' = [loc EXCEPT ![f] = [Fresh EXCEPT !.todo = {Order[n]}]]
  /\ \E lacking \in SUBSET PartsOf[Order[n]] :
       /\ given' = (given \cup PartsOf[Order[n]]) \ lacking
       /\ upsets' = upsets + Cardinality(lacking) /\ upsets' <= MaxUpsets
  /\ UNCHANGED <<version, artifact, keyword, maps, rich, paged, taken, pieces, overlap, rows>>

\* backfillProject, of the steps that are approved by now.
Backfill(f) ==
  /\ approved # {} /\ Upset /\ pc[f] = "idle" /\ pc' = [pc EXCEPT ![f] = "next"]
  /\ loc' = [loc EXCEPT ![f] = [Fresh EXCEPT !.todo = approved, !.backfill = approved]]
  /\ alone' = IF \A g \in Fibers \ {f} : pc[g] = "idle" THEN f ELSE Nobody
  /\ UNCHANGED <<runRows, keyword, maps, rich, paged, taken, pieces, overlap, rows>>

FirstOf(todo, order) == order[CHOOSE n \in DOMAIN order :
  order[n] \in todo /\ \A k \in 1..(n - 1) : order[k] \notin todo]

\* The run and the latest artifact are loaded; the rest of the artifacts are as they were approved.
Load(f, s) ==
  /\ loc[f].todo # {} /\ Move(f, "next", Entry[s])
  /\ loc' = [loc EXCEPT ![f].todo = @ \ {s}, ![f].step = s,
                        ![f].given = given \cap PartsOf[s],
                        ![f].images = IF s = "images" /\ artifact.full THEN artifact.of ELSE 0]
  /\ UNCHANGED <<runRows, keyword, maps, rich, paged, taken, pieces, overlap, rows, upsets>>

\* Mutant: the article before the brief.
NextStepUnordered(f) ==
  Load(f, FirstOf(loc[f].todo, <<"keywords", "map", "article", "brief", "images">>))

NextStep(f) == Load(f, FirstOf(loc[f].todo, Order))

Finish(f) ==
  /\ loc[f].todo = {} /\ pc[f] = "next" /\ pc' = [pc EXCEPT ![f] = "idle"]
  /\ loc' = [loc EXCEPT ![f] = Fresh] /\ alone' = Nobody
  /\ UNCHANGED <<runRows, keyword, maps, rich, paged, taken, pieces, overlap, rows, upsets>>

\* KeywordsService.bulkUpsert: a row that is there keeps its status.  Without keywords: a warning.
UpsertKeywords(f) ==
  /\ Go(f, "upsertKeywords", "next")
  /\ IF "keyword" \in loc[f].given /\ keyword.id = 0
     THEN rows < MaxRows /\ rows' = rows + 1 /\ keyword' = [id |-> rows + 1, status |-> Discovered]
     ELSE UNCHANGED <<rows, keyword>>
  /\ UNCHANGED <<runRows, maps, rich, paged, taken, pieces, overlap, upsets>>

\* Without pillars: a warning.
SkipMap(f) ==
  /\ "pillar" \notin loc[f].given /\ Go(f, "findMap", "next")
  /\ UNCHANGED <<runRows, keyword, maps, rich, paged, taken, pieces, overlap, rows, upsets>>

FindMap(f) == \E m \in (IF maps = {} THEN {0} ELSE maps) :
  /\ "pillar" \in loc[f].given
  /\ Move(f, "findMap", "saveMap") /\ loc' = [loc EXCEPT ![f].map = m]
  /\ UNCHANGED <<runRows, keyword, maps, rich, paged, taken, pieces, overlap, rows, upsets>>

\* The pillars of map m are now those of f's artifact.
Enriched(f, m) == IF "page" \in loc[f].given THEN rich \cup {m} ELSE rich \ {m}

\* Mutant: a map is created though one was found.
CreateMapAlways(f) ==
  /\ rows < MaxRows /\ Move(f, "saveMap", "sync") /\ loc' = [loc EXCEPT ![f].map = rows + 1]
  /\ maps' = maps \cup {rows + 1} /\ rows' = rows + 1
  /\ overlap' = (overlap \/ \E g \in Fibers \ {f} : pc[g] = "saveMap" /\ loc[g].map = 0)
  /\ rich' = Enriched(f, rows + 1)
  /\ UNCHANGED <<runRows, keyword, paged, taken, pieces, upsets>>

CreateMap(f) ==
  /\ loc[f].map = 0 /\ rows < MaxRows
  /\ Move(f, "saveMap", "sync") /\ loc' = [loc EXCEPT ![f].map = rows + 1]
  /\ maps' = maps \cup {rows + 1} /\ rows' = rows + 1
  /\ overlap' = (overlap \/ \E g \in Fibers \ {f} : pc[g] = "saveMap" /\ loc[g].map = 0)
  /\ rich' = Enriched(f, rows + 1)
  /\ UNCHANGED <<runRows, keyword, paged, taken, pieces, upsets>>

\* TopicalMapsService.update throws for a map deleted meanwhile.
UpdateMap(f) ==
  /\ loc[f].map # 0 /\ Go(f, "saveMap", IF loc[f].map \in maps THEN "sync" ELSE "next")
  /\ rich' = (IF loc[f].map \in maps THEN Enriched(f, loc[f].map) ELSE rich)
  /\ UNCHANGED <<runRows, keyword, maps, paged, taken, pieces, overlap, rows, upsets>>

\* syncFromMap; its error is logged.  Pages that are there stay.
SyncPages(f) ==
  /\ Go(f, "sync", "next") /\ paged' = paged \cup ({loc[f].map} \cap rich)
  /\ UNCHANGED <<runRows, keyword, maps, rich, taken, pieces, overlap, rows, upsets>>

\* resolveKeywordId, which warns of a target that it does not find, and resolveTopicalMapId.
FindLinks(f) == \E m \in (IF maps = {} THEN {0} ELSE maps) :
  /\ Move(f, "findLinks", "saveBrief")
  /\ loc' = [loc EXCEPT ![f].map = m,
                        ![f].keyword = IF "target" \in loc[f].given THEN keyword.id ELSE 0]
  /\ UNCHANGED <<runRows, keyword, maps, rich, paged, taken, pieces, overlap, rows, upsets>>

Linkable(l) == l.keyword \in {0, keyword.id} /\ l.map \in {0} \cup maps

AfterPiece(l) == IF l.keyword # 0 THEN "readStatus" ELSE IF l.step = "brief" THEN "linkPage" ELSE "next"

SaveBrief(f) == LET l == loc[f] IN
  /\ Linkable(l) /\ Go(f, "saveBrief", AfterPiece(l))
  /\ brief' = [brief EXCEPT !.there = TRUE, !.keyword = l.keyword, !.map = l.map]
  /\ UNCHANGED <<runRows, keyword, maps, rich, paged, taken, article, saved, overlap, rows, upsets>>

FindBrief(f) ==
  /\ Move(f, "findBrief", "saveArticle")
  /\ loc' = [loc EXCEPT ![f].keyword = brief.keyword, ![f].map = brief.map]
  /\ UNCHANGED <<runRows, keyword, maps, rich, paged, taken, pieces, overlap, rows, upsets>>

SaveArticle(f) == LET l == loc[f] IN
  /\ Linkable(l) /\ Go(f, "saveArticle", AfterPiece(l))
  /\ article' = [article EXCEPT !.there = TRUE, !.keyword = l.keyword, !.map = l.map]
  /\ UNCHANGED <<runRows, keyword, maps, rich, paged, taken, brief, saved, overlap, rows, upsets>>

\* A keyword or map deleted meanwhile: the foreign key makes the upsert throw.
SaveRefused(f) == \E from \in {"saveBrief", "saveArticle"} :
  /\ ~Linkable(loc[f]) /\ Go(f, from, "next")
  /\ UNCHANGED <<runRows, keyword, maps, rich, paged, taken, pieces, overlap, rows, upsets>>

\* advanceKeywordStatus: it reads,
Target(l)       == IF l.step = "brief" THEN BriefReady ELSE Written
AfterAdvance(l) == IF l.step = "brief" THEN "linkPage" ELSE "next"

ReadStatus(f) == LET advances == keyword.id = loc[f].keyword /\ keyword.status < Target(loc[f]) IN
  /\ Go(f, "readStatus", IF advances THEN "advance" ELSE AfterAdvance(loc[f]))
  /\ UNCHANGED <<runRows, keyword, maps, rich, paged, taken, pieces, overlap, rows, upsets>>

\* and writes, whatever the status is by then.
Advance(f) ==
  /\ Go(f, "advance", AfterAdvance(loc[f]))
  /\ keyword' = IF keyword.id = loc[f].keyword
                THEN [keyword EXCEPT !.status = Target(loc[f])] ELSE keyword
  /\ UNCHANGED <<runRows, maps, rich, paged, taken, pieces, overlap, rows, upsets>>

\* The page is found, or not, and linked; the index on page and type refuses one that has a brief.
LinkPage(f) ==
  /\ Go(f, "linkPage", "next")
  /\ brief' = (IF "pageTarget" \in loc[f].given /\ loc[f].map \in paged \ taken /\ brief.there
               THEN [brief EXCEPT !.page = loc[f].map] ELSE brief)
  /\ UNCHANGED <<runRows, keyword, maps, rich, paged, taken, article, saved, overlap, rows, upsets>>

\* materializeContentImages returns without the article, and without an error.
FindArticle(f) ==
  /\ Go(f, "findArticle", IF article.there THEN "saveImages" ELSE "readImages")
  /\ UNCHANGED <<runRows, keyword, maps, rich, paged, taken, pieces, overlap, rows, upsets>>

\* The article may be deleted by now; an image without data is left out.
SaveImages(f) ==
  /\ Go(f, "saveImages", IF article.there \/ loc[f].images = 0 THEN "readImages" ELSE "next")
  /\ saved' = (IF article.there /\ loc[f].images # 0 THEN loc[f].images ELSE saved)
  /\ UNCHANGED <<runRows, keyword, maps, rich, paged, taken, brief, article, overlap, rows, upsets>>

\* stripContentImagesArtifact reads the latest version and writes what is left of it to all.
ReadImages(f) ==
  /\ Move(f, "readImages", "strip") /\ loc' = [loc EXCEPT ![f].images = artifact.of]
  /\ UNCHANGED <<runRows, keyword, maps, rich, paged, taken, pieces, overlap, rows, upsets>>

Strip(f) ==
  /\ Go(f, "strip", "next") /\ artifact' = [of |-> loc[f].images, full |-> FALSE]
  /\ UNCHANGED <<approved, version, given, keyword, maps, rich, paged, taken, pieces>>
  /\ UNCHANGED <<overlap, rows, upsets>>

\* materialize catches what a statement throws.
Throw(f) ==
  /\ pc[f] \notin {"idle", "next"} /\ Upset
  /\ pc' = [pc EXCEPT ![f] = "next"] /\ loc' = [loc EXCEPT ![f] = Clear(loc[f])] /\ alone' = Nobody
  /\ UNCHANGED <<runRows, keyword, maps, rich, paged, taken, pieces, overlap, rows>>

-----------------------------------------------------------------------------
(* Reruns, users, the restart of the server.                               *)

Outside == Upset /\ alone' = Nobody /\ UNCHANGED <<pc, loc, overlap, rows>>

\* A rerun takes the approvals of its step and of those after it; new images are a new version.
Rerun == \E n \in DOMAIN Order :
  /\ Order[n] \in approved /\ Outside
  /\ approved' = {Order[k] : k \in 1..(n - 1)} \cap approved
  /\ version' = version + 1 /\ artifact' = [of |-> version + 1, full |-> TRUE]
  /\ UNCHANGED <<given, keyword, maps, rich, paged, taken, pieces>>

SetStatus == \E s \in Statuses :
  /\ keyword.id # 0 /\ Outside /\ keyword' = [keyword EXCEPT !.status = s]
  /\ UNCHANGED <<runRows, maps, rich, paged, taken, pieces>>

Unless(gone, piece, field) == IF piece[field] = gone THEN [piece EXCEPT ![field] = 0] ELSE piece

RemoveKeyword ==
  /\ keyword.id # 0 /\ Outside /\ keyword' = [id |-> 0, status |-> Discovered]
  /\ brief' = Unless(keyword.id, brief, "keyword") /\ article' = Unless(keyword.id, article, "keyword")
  /\ UNCHANGED <<runRows, maps, rich, paged, taken, saved>>

RemoveMap == \E m \in maps :
  /\ Outside /\ maps' = maps \ {m} /\ rich' = rich \ {m} /\ paged' = paged \ {m} /\ taken' = taken \ {m}
  /\ brief' = Unless(m, Unless(m, brief, "map"), "page") /\ article' = Unless(m, article, "map")
  /\ UNCHANGED <<runRows, keyword, saved>>

RemovePiece ==
  /\ Outside
  /\ \/ brief.there /\ brief' = NoPiece /\ UNCHANGED <<article, saved>>
     \/ article.there /\ article' = NoPiece /\ saved' = 0 /\ UNCHANGED brief
  /\ UNCHANGED <<runRows, keyword, maps, rich, paged, taken>>

\* generateBriefForPage, for a page that has no brief.
GenerateBrief == \E m \in paged \ (taken \cup {brief.page}) :
  /\ Outside /\ taken' = taken \cup {m}
  /\ UNCHANGED <<runRows, keyword, maps, rich, paged, pieces>>

Crash ==
  /\ Upset /\ alone' = Nobody
  /\ pc' = [f \in Fibers |-> "idle"] /\ loc' = [f \in Fibers |-> Fresh]
  /\ UNCHANGED <<runRows, keyword, maps, rich, paged, taken, pieces, overlap, rows>>

Next ==
  \/ \E f \in Fibers :
       \/ Approve(f) \/ Backfill(f) \/ NextStep(f) \/ Finish(f) \/ Throw(f)
       \/ UpsertKeywords(f) \/ SkipMap(f) \/ FindMap(f) \/ CreateMap(f) \/ UpdateMap(f)
       \/ SyncPages(f)
       \/ FindLinks(f) \/ SaveBrief(f) \/ FindBrief(f) \/ SaveArticle(f) \/ SaveRefused(f)
       \/ ReadStatus(f) \/ Advance(f) \/ LinkPage(f)
       \/ FindArticle(f) \/ SaveImages(f) \/ ReadImages(f) \/ Strip(f)
  \/ Rerun \/ SetStatus \/ RemoveKeyword \/ RemoveMap \/ RemovePiece \/ GenerateBrief \/ Crash

Spec == Init /\ [][Next]_vars

-----------------------------------------------------------------------------
(* Two maps of a run come only from materializations that overlapped.      *)
OneMap == overlap \/ Cardinality(maps) <= 1

\* The rows of each step, linked to the others as far as its artifact tells to what.
KeywordThere == "keyword" \in given => keyword.id # 0
MapThere     == "pillar" \in given => maps # {} /\ ("page" \in given => maps \subseteq paged)
BriefThere   ==
  /\ brief.there /\ brief.keyword = (IF "target" \in given THEN keyword.id ELSE 0)
  /\ brief.keyword # 0 => keyword.status >= BriefReady
  /\ brief.map \in (IF maps = {} THEN {0} ELSE maps)
  /\ "pageTarget" \in given /\ brief.map \in paged => brief.page = brief.map \/ brief.map \in taken
ArticleThere ==
  /\ article.there /\ article.keyword = brief.keyword /\ article.map = brief.map
  /\ article.keyword # 0 => keyword.status >= Written

Promoted(S) ==
  /\ "keywords" \in S => KeywordThere
  /\ "map" \in S => MapThere
  /\ "brief" \in S => BriefThere
  /\ "article" \in S => ArticleThere

(* "If materialization fails, the step remains approved; retry via         *)
(* backfill": whatever failed, was lost or was deleted before, a backfill  *)
(* that nothing interferes with leaves the rows of all approved steps      *)
(* there and linked, as far as the artifacts have the keywords and pages   *)
(* to link; the images apart, which may be gone (ImagesSafe).              *)
BackfillRepairs == \A f \in Fibers :
  alone = f /\ pc[f] = "next" /\ loc[f].todo = {} /\ Cardinality(maps) <= 1
    => Promoted(loc[f].backfill)

(* "Strip base64 blobs from the artifact AFTER images are safely in        *)
(* content_images table."                                                  *)
ImagesSafe == artifact.full \/ saved = artifact.of

=============================================================================
