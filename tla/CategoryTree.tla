------------------------------ MODULE CategoryTree ------------------------------
(***************************************************************************)
(* The categories products are browsed by: the taxonomy file applied on    *)
(* every deploy, one write per await, categories added by moderators,      *)
(* products filed by shoppers and the walk that collects what lies under   *)
(* a category, level by level, beside them.                                *)
(***************************************************************************)
EXTENDS Naturals, Sequences

CONSTANTS
    Slugs,          \* categories
    Top,            \* the parent of a department
    Goods,          \* products
    Clerks,         \* requests that add a category or file a product
    Taxonomies,     \* contents data/taxonomy.json has over the deploys
    MaxDeploys      \* bound on the times it is applied

\* A category of the file, with the categories it replaces.
Entry == [slug : Slugs, parent : Slugs \cup {Top}, replaces : SUBSET Slugs]

\* loadTaxonomy takes a file whose slugs are distinct and whose parents come
\* before their children, and no other.
LoadTaxonomy(data) ==
    \A i \in 1 .. Len(data) :
        /\ \A j \in 1 .. (i - 1) : data[j].slug # data[i].slug
        /\ data[i].parent = Top \/ \E j \in 1 .. (i - 1) : data[j].slug = data[i].parent

ASSUME TreeAssumption ==
    /\ Top \notin Slugs
    /\ Taxonomies \subseteq Seq(Entry)
    /\ MaxDeploys \in Nat

VARIABLES
    category,       \* for each slug, its row in categories
    filed,          \* for each product, its category
    sync,           \* the file as it is being applied, or as it was last
    clerk,          \* requests on their way
    walk,           \* findSubtreeIds
    meddled,        \* somebody wrote a category or a product since the sync began
    deploys         \* times the file may still be applied

treeVars == <<category, filed, sync, clerk, walk, meddled, deploys>>

Category == [state : {"NONE", "ACTIVE", "RETIRED"}, parent : Slugs \cup {Top}]
NoCategory == [state |-> "NONE", parent |-> Top]
Idling == [pc |-> "new"]

TreeTypeOK ==
    /\ category \in [Slugs -> Category]
    /\ filed \in [Goods -> Slugs]
    /\ sync.pc \in {"off", "upsert", "products", "retire", "rest", "done"}
    /\ sync.data \in Taxonomies /\ sync.at \in Nat /\ sync.ids \subseteq Slugs
    /\ \A k \in Clerks : clerk[k].pc \in {"new", "parent", "create", "file"}
    /\ walk.pc \in {"new", "walking", "done"}
    /\ walk.collected \subseteq Slugs /\ walk.frontier \subseteq Slugs
    /\ meddled \in BOOLEAN /\ deploys \in 0 .. MaxDeploys

Is(c) == category[c].state # "NONE"
Children(s) == {c \in Slugs : Is(c) /\ category[c].parent \in s}

\* No category lies beneath itself: of any categories one has a parent that
\* is none of them.
TreeHasNoCycles ==
    \A s \in SUBSET {c \in Slugs : Is(c)} : s # {} => \E c \in s : category[c].parent \notin s

TreeInit ==
    /\ category \in [Slugs -> Category]
    /\ \A c \in Slugs : /\ category[c].parent # Top => Is(c) /\ Is(category[c].parent)
    /\ TreeHasNoCycles
    /\ filed \in [Goods -> {c \in Slugs : Is(c)}]
    /\ \E data \in Taxonomies :
         sync = [pc |-> "off", data |-> data, at |-> 1, ids |-> {}, todo |-> {}, old |-> Top]
    /\ clerk = [k \in Clerks |-> Idling]
    /\ walk = [pc |-> "new", root |-> Top, collected |-> {}, frontier |-> {},
               under |-> {}, shaken |-> FALSE]
    /\ meddled = FALSE /\ deploys = MaxDeploys

\* What the walk has not seen moves as the parent of a category changes.
Shakes(c, parent) ==
    walk' = IF Is(c) /\ category[c].parent # parent THEN [walk EXCEPT !.shaken = TRUE] ELSE walk

-----------------------------------------------------------------------------
(***************************************************************************)
(* syncTaxonomy.  A deploy may be cut off, and the next starts over.       *)
(***************************************************************************)
Deploy(data) ==
    /\ deploys > 0 /\ LoadTaxonomy(data)
    /\ deploys' = deploys - 1
    /\ sync' = [pc |-> IF data = <<>> THEN "rest" ELSE "upsert", data |-> data, at |-> 1,
                ids |-> {}, todo |-> {}, old |-> Top]
    /\ meddled' = FALSE
    /\ UNCHANGED <<category, filed, clerk, walk>>

\* On to the next category the line replaces, the next line or the end.
After(s, todo) ==
    IF todo # {} THEN [s EXCEPT !.pc = "products", !.todo = todo]
    ELSE [s EXCEPT !.pc = IF s.at < Len(s.data) THEN "upsert" ELSE "rest", !.todo = {}, !.at = @ + 1]

Upsert ==
    /\ sync.pc = "upsert"
    /\ LET line == sync.data[sync.at] IN
         /\ category' = [category EXCEPT ![line.slug] = [state |-> "ACTIVE", parent |-> line.parent]]
         /\ Shakes(line.slug, line.parent)
         /\ sync' = After([sync EXCEPT !.ids = @ \cup {line.slug}], line.replaces)
    /\ UNCHANGED <<filed, clerk, meddled, deploys>>

\* Its products move to the line that replaces it, and then it is retired.
HandOver(gone) ==
    /\ sync.pc = "products" /\ gone \in sync.todo
    /\ LET slug == sync.data[sync.at].slug IN
       IF Is(gone) /\ gone # slug
       THEN /\ filed' = [g \in Goods |-> IF filed[g] = gone THEN slug ELSE filed[g]]
            /\ sync' = [sync EXCEPT !.pc = "retire", !.old = gone]
       ELSE /\ sync' = After(sync, sync.todo \ {gone})
            /\ UNCHANGED filed
    /\ UNCHANGED <<category, clerk, walk, meddled, deploys>>

Retire ==
    /\ sync.pc = "retire"
    /\ category' = [category EXCEPT ![sync.old].state = "RETIRED"]
    /\ sync' = After(sync, sync.todo \ {sync.old})
    /\ UNCHANGED <<filed, clerk, walk, meddled, deploys>>

\* "Anything no longer in the file is retired, never deleted".
RetireTheRest ==
    /\ sync.pc = "rest"
    /\ category' = [c \in Slugs |-> IF c \notin sync.ids /\ Is(c)
                                    THEN [category[c] EXCEPT !.state = "RETIRED"] ELSE category[c]]
    /\ sync' = [sync EXCEPT !.pc = "done"]
    /\ UNCHANGED <<filed, clerk, walk, meddled, deploys>>

-----------------------------------------------------------------------------
(***************************************************************************)
(* CreateCatalogReferenceUseCase.createCategory, and the category of a     *)
(* product as it is added or corrected.                                    *)
(***************************************************************************)
Steps(k, what) == clerk' = [clerk EXCEPT ![k] = what]

CreateCategory(k, slug, parent) ==
    /\ clerk[k].pc = "new" /\ ~Is(slug)
    /\ Steps(k, [pc |-> IF parent = Top THEN "create" ELSE "parent", slug |-> slug, parent |-> parent])
    /\ UNCHANGED <<category, filed, sync, walk, meddled, deploys>>

FindParent(k) ==
    /\ clerk[k].pc = "parent"
    /\ IF Is(clerk[k].parent) THEN Steps(k, [clerk[k] EXCEPT !.pc = "create"]) ELSE Steps(k, Idling)
    /\ UNCHANGED <<category, filed, sync, walk, meddled, deploys>>

\* The slug is unique: a category made meanwhile refuses this one.
InsertCategory(k) ==
    /\ clerk[k].pc = "create"
    /\ IF Is(clerk[k].slug) THEN UNCHANGED <<category, meddled>>
       ELSE /\ category' = [category EXCEPT ![clerk[k].slug] =
                               [state |-> "ACTIVE", parent |-> clerk[k].parent]]
            /\ meddled' = TRUE
    /\ Steps(k, Idling)
    /\ UNCHANGED <<filed, sync, walk, deploys>>

\* A retired category is found as any other.
FindCategory(k, g, c) ==
    /\ clerk[k].pc = "new" /\ Is(c) /\ filed[g] # c
    /\ Steps(k, [pc |-> "file", good |-> g, slug |-> c])
    /\ UNCHANGED <<category, filed, sync, walk, meddled, deploys>>

FileProduct(k) ==
    /\ clerk[k].pc = "file"
    /\ filed' = [filed EXCEPT ![clerk[k].good] = clerk[k].slug]
    /\ meddled' = TRUE
    /\ Steps(k, Idling)
    /\ UNCHANGED <<category, sync, walk, deploys>>

-----------------------------------------------------------------------------
(***************************************************************************)
(* SearchProductsUseCase and PrismaCategoryRepository.findSubtreeIds.      *)
(***************************************************************************)
\* Closed under being a parent: whoever lies under the root is in each of them
\* that holds the root.
Within(c) == {s \in SUBSET Slugs : c \in s /\ Children(s) \subseteq s}

SearchProducts(c) ==
    /\ walk.pc = "new" /\ Is(c)
    /\ walk' = [pc |-> "walking", root |-> c, collected |-> {c}, frontier |-> {c},
                under |-> {d \in Slugs : \A s \in Within(c) : d \in s}, shaken |-> FALSE]
    /\ UNCHANGED <<category, filed, sync, clerk, meddled, deploys>>

FindLevel ==
    /\ walk.pc = "walking"
    /\ LET level == Children(walk.frontier) \ walk.collected IN
       walk' = [walk EXCEPT !.frontier = level, !.collected = @ \cup level,
                            !.pc = IF level = {} THEN "done" ELSE "walking"]
    /\ UNCHANGED <<category, filed, sync, clerk, meddled, deploys>>

-----------------------------------------------------------------------------
Syncs ==
    \/ \E data \in Taxonomies : Deploy(data)
    \/ Upsert \/ Retire \/ RetireTheRest
    \/ \E gone \in Slugs : HandOver(gone)

Writes(k) ==
    \/ \E slug \in Slugs, parent \in Slugs \cup {Top} : CreateCategory(k, slug, parent)
    \/ \E g \in Goods, c \in Slugs : FindCategory(k, g, c)
    \/ FindParent(k) \/ InsertCategory(k) \/ FileProduct(k)

TreeNext ==
    \/ Syncs
    \/ \E k \in Clerks : Writes(k)
    \/ \E c \in Slugs : SearchProducts(c)
    \/ FindLevel

TreeSpec == TreeInit /\ [][TreeNext]_treeVars

-----------------------------------------------------------------------------
(***************************************************************************)
(* Properties.                                                             *)
(***************************************************************************)
\* Slugs of the entries from i on.
SlugsFrom(data, i) == {data[j].slug : j \in i .. Len(data)}
Replaced(data) == {c \in Slugs : \E i \in 1 .. Len(data) :
                       c \in data[i].replaces \ {data[i].slug} /\ c \notin SlugsFrom(data, i + 1)}

\* Once the file is applied, and nobody wrote beside it, its categories are
\* offered where it puts them and no others are, and what it replaces is empty.
FileIsApplied ==
    sync.pc = "done" /\ ~meddled =>
        /\ \A i \in 1 .. Len(sync.data) :
             category[sync.data[i].slug].parent = sync.data[i].parent
        /\ {c \in Slugs : category[c].state = "ACTIVE"} = SlugsFrom(sync.data, 1) \ Replaced(sync.data)
        /\ \A g \in Goods : filed[g] \notin Replaced(sync.data)

\* What a browser of a category gets: all that lay under it as the walk began,
\* and nothing that does not now, unless a category was moved meanwhile.
SubtreeIsWhole ==
    walk.pc = "done" /\ ~walk.shaken =>
        /\ walk.under \subseteq walk.collected
        /\ \A s \in Within(walk.root) : walk.collected \subseteq s
=============================================================================
