--------------------------------- MODULE Caches ---------------------------------
(***************************************************************************)
(* The caches of the public site: a whole page (internal/web/page_cache.go,*)
(* cache_invalidator.go) that is rendered from the database and from the   *)
(* menu, itself cached (internal/content/menus), both kept by the memory   *)
(* cache of internal/platform/cache.                                       *)
(*                                                                         *)
(* Pages are cleared by a listener inside the publishing transaction, so   *)
(* before its commit; menus after the write, which is committed by then.   *)
(* Fills run at any time between.  One page and one menu stand for all     *)
(* keys: a clearing drops every key of its kind.  What is cached is the    *)
(* version of the content it was made from, and when that was read.        *)
(***************************************************************************)
EXTENDS Naturals

CONSTANTS Reader,      \* goroutines serving a public request
          Editor,      \* goroutines serving an editor's request, and the worker
          PageTTL, MenuTTL,
          LoadTime,    \* the longest a public request takes, from its start to its end
          MaxWrites,   \* bound of the model: versions of the content
          MaxMenus,    \* bound of the model: versions of the menu
          MaxClears    \* bound of the model: clearings of the page cache

ASSUME CachesAssumption ==
    /\ PageTTL \in Nat \ {0} /\ MenuTTL \in Nat \ {0} /\ LoadTime \in Nat
    /\ MaxWrites \in Nat /\ MaxMenus \in Nat /\ MaxClears \in Nat

Version == 0 .. MaxWrites
None == [none |-> TRUE]
Idle == [op |-> "idle"]

\* Times are kept as ages and as what is left of a lifetime, so there is no clock.
VARIABLES
    content,    \* the version of the published content in the database
    menu,       \* the version of the menu in the database
    pageCache,  \* the entry "page:...", or None
    menuCache,  \* the entry "menu:...", or None
    reader,     \* reader[r]: what a public request has loaded so far
    editor,     \* editor[e]: where a write has got to
    clears,     \* clearings of the page cache so far (history)
    publications,  \* what was published: version and number of its clearing (history)
    settled     \* the last version of the menu whose clearing is done (history)

vars == <<content, menu, pageCache, menuCache, reader, editor, clears, publications,
          settled>>
database == <<content, menu>>
caches == <<pageCache, menuCache>>
history == <<clears, publications, settled>>

Init == /\ content = 0 /\ menu = 0
        /\ pageCache = None /\ menuCache = None
        /\ reader = [r \in Reader |-> Idle]
        /\ editor = [e \in Editor |-> Idle]
        /\ clears = 0
        /\ publications = {}
        /\ settled = 0

-------------------------------------------------------------------------------
(* Time.                                                                    *)

Ages == {"spent", "contentAge", "menuAge"}

\* A record one instant later: whatever it knows the age of is older.
Older(rec) == [f \in DOMAIN rec |-> IF f \in Ages THEN rec[f] + 1 ELSE rec[f]]

\* Mutant: an entry is good for one instant after its lifetime.
LastsLonger(entry) ==
    IF entry = None \/ entry.left = 0 THEN None
    ELSE [Older(entry) EXCEPT !.left = @ - 1]

\* What a Get finds one instant later: an entry is gone at the end of its lifetime.
Lasts(entry) ==
    IF entry = None \/ entry.left = 1 THEN None
    ELSE [Older(entry) EXCEPT !.left = @ - 1]

\* No request outlasts LoadTime.
Tick == /\ \A r \in Reader : reader[r] # Idle => reader[r].spent < LoadTime
        /\ pageCache' = Lasts(pageCache)
        /\ menuCache' = Lasts(menuCache)
        /\ reader' = [r \in Reader |-> Older(reader[r])]
        /\ UNCHANGED <<database, editor, history>>

-------------------------------------------------------------------------------
(* Public requests.                                                         *)

At(r, op) == reader[r].op = op
Reads(r, to) == reader' = [reader EXCEPT ![r] = to]

\* A miss of the page cache, or a request that bypasses it.
Arrive(r, bypass) ==
    /\ At(r, "idle")
    /\ bypass \/ pageCache = None
    /\ Reads(r, [op |-> "load", spent |-> 0, bypass |-> bypass])
    /\ UNCHANGED <<database, caches, editor, history>>

\* The handler reads the content.
Load(r) ==
    /\ At(r, "load")
    /\ Reads(r, [op |-> "resolve", spent |-> reader[r].spent, bypass |-> reader[r].bypass,
                 content |-> content, contentAge |-> 0])
    /\ UNCHANGED <<database, caches, editor, history>>

\* What the request holds once it has that version of the menu, of that age.
WithMenu(q, op, version, age) ==
    [op |-> op, spent |-> q.spent, bypass |-> q.bypass, content |-> q.content,
     contentAge |-> q.contentAge, menu |-> version, menuAge |-> age, overlapped |-> FALSE]

\* The layout asks for the menu: from the cache, or from the database.  The latter is
\* stored in the cache afterwards, but for the empty menu shown when none is assigned
\* or the read fails.
Resolve(r) ==
    /\ At(r, "resolve")
    /\ \/ /\ menuCache # None
          /\ Reads(r, WithMenu(reader[r], "store", menuCache.menu, menuCache.menuAge))
       \/ /\ menuCache = None
          /\ \E op \in {"keep", "store"} : Reads(r, WithMenu(reader[r], op, menu, 0))
    /\ UNCHANGED <<database, caches, editor, history>>

StoreMenu(r) ==
    /\ At(r, "keep")
    /\ menuCache' = [menu |-> reader[r].menu, menuAge |-> reader[r].menuAge,
                     left |-> MenuTTL, overlapped |-> reader[r].overlapped]
    /\ Reads(r, WithMenu(reader[r], "store", reader[r].menu, reader[r].menuAge))
    /\ UNCHANGED <<database, pageCache, editor, history>>

\* A complete page is stored, unless the request bypasses the cache or the response is
\* not storable.
Respond(r) ==
    /\ At(r, "store")
    /\ \/ /\ ~reader[r].bypass
          /\ pageCache' = [content |-> reader[r].content, contentAge |-> reader[r].contentAge,
                           menuAge |-> reader[r].menuAge, left |-> PageTTL, clears |-> clears]
       \/ UNCHANGED pageCache
    /\ Reads(r, Idle)
    /\ UNCHANGED <<database, menuCache, editor, history>>

-------------------------------------------------------------------------------
(* Writes.                                                                  *)

Writes(e, to) == editor' = [editor EXCEPT ![e] = to]

\* What is left of the page cache when its prefix is deleted.
PagesCleared == None

\* Publish: the listener clears the pages in the transaction; an error is swallowed.
ClearPages(e) ==
    /\ editor[e] = Idle
    /\ \/ /\ pageCache' = PagesCleared
          /\ clears' = clears + 1
          /\ Writes(e, [op |-> "publish", cleared |-> clears + 1])
       \/ /\ Writes(e, [op |-> "publish", cleared |-> 0])
          /\ UNCHANGED <<pageCache, clears>>
    /\ content < MaxWrites /\ clears < MaxClears
    /\ UNCHANGED <<database, menuCache, reader, publications, settled>>

\* The publishing transaction commits or rolls back.
EndPublish(e) ==
    /\ editor[e].op = "publish"
    /\ \/ /\ content < MaxWrites
          /\ content' = content + 1
          /\ publications' = publications \cup {<<content + 1, editor[e].cleared>>}
       \/ UNCHANGED <<content, publications>>
    /\ Writes(e, Idle)
    /\ UNCHANGED <<menu, pageCache, menuCache, reader, clears, settled>>

\* Edits, unpublications, the trash, and whatever the worker publishes clear nothing.
SilentWrite ==
    /\ content < MaxWrites
    /\ content' = content + 1
    /\ UNCHANGED <<menu, pageCache, menuCache, reader, editor, history>>

\* Every change of a menu is one statement and then a clearing.
WriteMenu(e) ==
    /\ editor[e] = Idle
    /\ menu < MaxMenus
    /\ menu' = menu + 1
    /\ Writes(e, [op |-> "menu", version |-> menu + 1])
    /\ UNCHANGED <<content, pageCache, menuCache, reader, history>>

\* Mutant: a change of the menu clears the pages instead.
MenusKept == menuCache

\* What is left of the menu cache when its prefix is deleted.
MenusCleared == None

\* Fills under way learn of the clearing (history only); an error is swallowed.
ClearMenus(e) ==
    /\ editor[e].op = "menu"
    /\ \/ /\ menuCache' = MenusCleared
          /\ settled' = IF editor[e].version > settled THEN editor[e].version ELSE settled
          /\ reader' = [r \in Reader |-> IF At(r, "keep")
                                         THEN [reader[r] EXCEPT !.overlapped = TRUE]
                                         ELSE reader[r]]
       \/ UNCHANGED <<menuCache, settled, reader>>
    /\ Writes(e, Idle)
    /\ UNCHANGED <<database, pageCache, clears, publications>>

-------------------------------------------------------------------------------
Next ==
    \/ Tick
    \/ \E r \in Reader :
          \/ \E bypass \in BOOLEAN : Arrive(r, bypass)
          \/ Load(r) \/ Resolve(r) \/ StoreMenu(r) \/ Respond(r)
    \/ \E e \in Editor : ClearPages(e) \/ EndPublish(e) \/ WriteMenu(e) \/ ClearMenus(e)
    \/ SilentWrite

Spec == Init /\ [][Next]_vars

-------------------------------------------------------------------------------
(* Properties.                                                              *)

TypeOK ==
    /\ content \in Version /\ menu \in 0 .. MaxMenus
    /\ pageCache = None \/ pageCache.left \in 1 .. PageTTL
    /\ menuCache = None \/ menuCache.left \in 1 .. MenuTTL
    /\ \A r \in Reader : reader[r].op \in {"idle", "load", "resolve", "keep", "store"}
    /\ \A e \in Editor : editor[e].op \in {"idle", "publish", "menu"}
    /\ clears \in 0 .. MaxClears /\ settled \in 0 .. MaxMenus

\* How old what a visitor is served can be: the content of a cached page, its time to
\* live and the time its request took; its menu, which may have come from a cached one
\* itself, the times to live and the times of the requests of both.
StalenessBounded ==
    pageCache # None =>
        /\ pageCache.contentAge < LoadTime + PageTTL
        /\ pageCache.menuAge < LoadTime + MenuTTL + LoadTime + PageTTL

\* Clearings are not undone, whatever fails or happens at the same time: a page made from
\* content older than a publication was stored after that publication's clearing, and a
\* menu older than a change whose clearing is done was being filled at a clearing.
OutdatedOnlyByOverlap ==
    /\ pageCache # None =>
          \A p \in publications : pageCache.content < p[1] => pageCache.clears >= p[2]
    /\ menuCache # None /\ menuCache.menu < settled => menuCache.overlapped
===============================================================================
