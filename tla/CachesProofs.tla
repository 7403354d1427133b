------------------------------ MODULE CachesProofs ------------------------------
(***************************************************************************)
(* For any lifetimes, requests and editors: how old what a visitor is      *)
(* served can be, and that only a fill under way outlives a clearing.  The *)
(* invariant bounds the ages of what requests hold by the time they have   *)
(* taken, and the ages of cached entries by what is left of their lives.   *)
(***************************************************************************)
EXTENDS Caches, TLAPS

Loading == [op : {"load"}, spent : Nat, bypass : BOOLEAN]
Resolving == [op : {"resolve"}, spent : Nat, bypass : BOOLEAN, content : Nat, contentAge : Nat]
Responding == [op : {"keep", "store"}, spent : Nat, bypass : BOOLEAN, content : Nat,
               contentAge : Nat, menu : Nat, menuAge : Nat, overlapped : BOOLEAN]
ReaderState == {Idle} \cup Loading \cup Resolving \cup Responding
EditorState == {Idle} \cup [op : {"publish"}, cleared : Nat] \cup [op : {"menu"}, version : Nat]
CachedPage == [content : Nat, contentAge : Nat, menuAge : Nat, left : Nat, clears : Nat]
CachedMenu == [menu : Nat, menuAge : Nat, left : Nat, overlapped : BOOLEAN]

TypeInv ==
    /\ content \in Version /\ menu \in 0 .. MaxMenus
    /\ pageCache \in CachedPage \cup {None}
    /\ menuCache \in CachedMenu \cup {None}
    /\ reader \in [Reader -> ReaderState]
    /\ editor \in [Editor -> EditorState]
    /\ clears \in 0 .. MaxClears /\ settled \in 0 .. MaxMenus
    /\ publications \subseteq Nat \X Nat

\* What a request holds was read in its course, but for a menu from the cache.
Timely(q) ==
    /\ q # Idle => q.spent <= LoadTime
    /\ q \in Resolving \cup Responding => q.contentAge <= q.spent
    /\ q \in Responding =>
          /\ q.menuAge < q.spent + LoadTime + MenuTTL
          /\ q.op = "keep" => q.menuAge <= q.spent

\* The longer an entry has to live, the younger it is.
PageTimely ==
    pageCache # None =>
        /\ pageCache.left \in 1 .. PageTTL
        /\ pageCache.contentAge + pageCache.left <= LoadTime + PageTTL
        /\ pageCache.menuAge + pageCache.left < LoadTime + MenuTTL + LoadTime + PageTTL
MenuTimely ==
    menuCache # None =>
        /\ menuCache.left \in 1 .. MenuTTL
        /\ menuCache.menuAge + menuCache.left <= LoadTime + MenuTTL

\* What is cached, or about to be, is outdated only if it was under way at a clearing.
PageCurrent == pageCache # None => pageCache.clears = clears
MenuCurrent == /\ menuCache # None /\ menuCache.menu < settled => menuCache.overlapped
               /\ \A r \in Reader : At(r, "keep") /\ reader[r].menu < settled =>
                                       reader[r].overlapped
Ordered == /\ settled <= menu
           /\ \A e \in Editor : editor[e].op = "menu" => editor[e].version <= menu
           /\ \A e \in Editor : editor[e].op = "publish" => editor[e].cleared <= clears
           /\ \A p \in publications : p[2] <= clears

Inv == /\ TypeInv /\ (\A r \in Reader : Timely(reader[r])) /\ PageTimely /\ MenuTimely
       /\ PageCurrent /\ MenuCurrent /\ Ordered

\* Entries are entries, and the states of a request are told apart by their op.
LEMMA Distinct ==
    /\ None \notin CachedPage /\ None \notin CachedMenu
    /\ Idle.op = "idle" /\ Idle \notin Loading \cup Resolving \cup Responding
    /\ \A q \in Loading : q.op = "load" /\ q # Idle /\ q \notin Resolving \cup Responding
    /\ \A q \in Resolving : q.op = "resolve" /\ q # Idle /\ q \notin Responding
    /\ \A q \in Responding : q.op \in {"keep", "store"} /\ q # Idle /\ q \notin Resolving
<1>1. None \notin CachedPage /\ None \notin CachedMenu
  BY DEF None, CachedPage, CachedMenu
<1>2. Idle.op = "idle" /\ Idle \notin Loading \cup Resolving \cup Responding
  BY DEF Idle, Loading, Resolving, Responding
<1>3. \A q \in Loading : q.op = "load" /\ q # Idle /\ q \notin Resolving \cup Responding
  BY DEF Idle, Loading, Resolving, Responding
<1>4. \A q \in Resolving : q.op = "resolve" /\ q # Idle /\ q \notin Responding
  BY DEF Idle, Resolving, Responding
<1>5. \A q \in Responding : q.op \in {"keep", "store"} /\ q # Idle /\ q \notin Resolving
  BY DEF Idle, Resolving, Responding
<1> QED BY <1>1, <1>2, <1>3, <1>4, <1>5

LEMMA InitInv == Init => Inv
<1> SUFFICES ASSUME Init PROVE Inv
  OBVIOUS
<1>1. TypeInv
  BY CachesAssumption DEF Init, TypeInv, Version, ReaderState, EditorState
<1>2. \A r \in Reader : Timely(reader[r])
  BY Distinct DEF Init, Timely
<1>3. Ordered
  BY Distinct DEF Init, Ordered
<1> QED BY <1>1, <1>2, <1>3, Distinct
        DEF Init, Inv, PageTimely, MenuTimely, PageCurrent, MenuCurrent, At

-------------------------------------------------------------------------------
\* Time.

LEMMA OlderReader ==
  ASSUME NEW q \in ReaderState, Timely(q), q # Idle => q.spent < LoadTime
  PROVE  /\ Older(q) \in ReaderState /\ Timely(Older(q)) /\ Older(q).op = q.op
         /\ q.op = "keep" => Older(q).menu = q.menu /\ Older(q).overlapped = q.overlapped
<1>1. CASE q = Idle
  <2>1. Older(q) = Idle
    BY <1>1 DEF Older, Idle, Ages
  <2> QED BY <1>1, <2>1, Distinct DEF ReaderState, Timely
<1>2. CASE q \in Loading
  <2>1. Older(q) = [op |-> q.op, spent |-> q.spent + 1, bypass |-> q.bypass]
    BY <1>2 DEF Older, Ages, Loading
  <2>2. Older(q) \in Loading /\ Older(q).op = q.op /\ Older(q).spent = q.spent + 1
    BY <1>2, <2>1 DEF Loading
  <2>3. q.spent < LoadTime /\ q.spent \in Nat
    BY <1>2, Distinct DEF Loading
  <2> HIDE DEF Older
  <2> QED BY <1>2, <2>2, <2>3, Distinct, CachesAssumption DEF ReaderState, Timely
<1>3. CASE q \in Resolving
  <2>1. Older(q) = [op |-> q.op, spent |-> q.spent + 1, bypass |-> q.bypass,
                    content |-> q.content, contentAge |-> q.contentAge + 1]
    BY <1>3 DEF Older, Ages, Resolving
  <2>2. /\ Older(q) \in Resolving /\ Older(q).op = q.op /\ Older(q).spent = q.spent + 1
        /\ Older(q).contentAge = q.contentAge + 1
    BY <1>3, <2>1 DEF Resolving
  <2>3. q.spent < LoadTime /\ q.spent \in Nat /\ q.contentAge \in Nat /\ q.contentAge <= q.spent
    BY <1>3, Distinct DEF Resolving, Timely
  <2> QED BY <1>3, <2>2, <2>3, Distinct, CachesAssumption DEF ReaderState, Timely
<1>4. CASE q \in Responding
  <2>1. Older(q) = [op |-> q.op, spent |-> q.spent + 1, bypass |-> q.bypass,
                    content |-> q.content, contentAge |-> q.contentAge + 1,
                    menu |-> q.menu, menuAge |-> q.menuAge + 1, overlapped |-> q.overlapped]
    BY <1>4 DEF Older, Ages, Responding
  <2>2. /\ Older(q) \in Responding /\ Older(q).op = q.op /\ Older(q).spent = q.spent + 1
        /\ Older(q).contentAge = q.contentAge + 1 /\ Older(q).menuAge = q.menuAge + 1
        /\ Older(q).menu = q.menu /\ Older(q).overlapped = q.overlapped
    BY <1>4, <2>1 DEF Responding
  <2>3. /\ q.spent < LoadTime /\ q.spent \in Nat /\ q.contentAge \in Nat
        /\ q.contentAge <= q.spent /\ q.menuAge \in Nat
        /\ q.menuAge < q.spent + LoadTime + MenuTTL
        /\ q.op = "keep" => q.menuAge <= q.spent
    BY <1>4, Distinct DEF Responding, Timely
  <2> QED BY <1>4, <2>2, <2>3, Distinct, CachesAssumption DEF ReaderState, Timely
<1> QED BY <1>1, <1>2, <1>3, <1>4 DEF ReaderState

LEMMA OlderPage ==
  ASSUME NEW page \in CachedPage, page.left # 1, page.left # 0
  PROVE  /\ Lasts(page) \in CachedPage
         /\ Lasts(page).contentAge = page.contentAge + 1
         /\ Lasts(page).menuAge = page.menuAge + 1 /\ Lasts(page).left = page.left - 1
         /\ Lasts(page).clears = page.clears /\ Lasts(page).content = page.content
<1>1. Older(page) = [content |-> page.content, contentAge |-> page.contentAge + 1,
                     menuAge |-> page.menuAge + 1, left |-> page.left, clears |-> page.clears]
  BY DEF Older, Ages, CachedPage
<1>2. page # None
  BY Distinct
<1>3. Lasts(page) = [content |-> page.content, contentAge |-> page.contentAge + 1,
                     menuAge |-> page.menuAge + 1, left |-> page.left - 1,
                     clears |-> page.clears]
  BY <1>1, <1>2 DEF Lasts
<1>4. page.left - 1 \in Nat
  BY DEF CachedPage
<1> QED BY <1>3, <1>4 DEF CachedPage

LEMMA OlderMenu ==
  ASSUME NEW entry \in CachedMenu, entry.left # 1, entry.left # 0
  PROVE  /\ Lasts(entry) \in CachedMenu
         /\ Lasts(entry).menuAge = entry.menuAge + 1 /\ Lasts(entry).left = entry.left - 1
         /\ Lasts(entry).menu = entry.menu /\ Lasts(entry).overlapped = entry.overlapped
<1>1. Older(entry) = [menu |-> entry.menu, menuAge |-> entry.menuAge + 1,
                      left |-> entry.left, overlapped |-> entry.overlapped]
  BY DEF Older, Ages, CachedMenu
<1>2. entry # None
  BY Distinct
<1>3. Lasts(entry) = [menu |-> entry.menu, menuAge |-> entry.menuAge + 1,
                      left |-> entry.left - 1, overlapped |-> entry.overlapped]
  BY <1>1, <1>2 DEF Lasts
<1>4. entry.left - 1 \in Nat
  BY DEF CachedMenu
<1> QED BY <1>3, <1>4 DEF CachedMenu

LEMMA TickStep ==
  ASSUME Inv, Tick
  PROVE  Inv'
<1>1. \A r \in Reader :
         /\ reader'[r] \in ReaderState /\ Timely(reader'[r]) /\ reader'[r].op = reader[r].op
         /\ reader[r].op = "keep" => /\ reader'[r].menu = reader[r].menu
                                     /\ reader'[r].overlapped = reader[r].overlapped
  BY OlderReader DEF Tick, Inv, TypeInv
<1>2. /\ UNCHANGED <<content, menu, editor, clears, publications, settled>>
      /\ reader' \in [Reader -> ReaderState]
  BY <1>1 DEF Tick, database, history
<1>3. /\ pageCache' \in CachedPage \cup {None} /\ PageTimely' /\ PageCurrent'
  <2>1. CASE pageCache = None \/ pageCache.left = 1
    <3>1. pageCache' = None
      BY <2>1 DEF Tick, Lasts
    <3> QED BY <3>1 DEF PageTimely, PageCurrent
  <2>2. CASE pageCache # None /\ pageCache.left # 1
    <3>1. pageCache \in CachedPage /\ pageCache.left \in 1 .. PageTTL
      BY <2>2 DEF Inv, TypeInv, PageTimely
    <3>2. /\ pageCache' \in CachedPage
          /\ pageCache'.contentAge = pageCache.contentAge + 1
          /\ pageCache'.menuAge = pageCache.menuAge + 1
          /\ pageCache'.left = pageCache.left - 1 /\ pageCache'.clears = pageCache.clears
      BY <2>2, <3>1, CachesAssumption, OlderPage DEF Tick
    <3>3. PageTimely'
      BY <2>2, <3>1, <3>2, CachesAssumption DEF Inv, PageTimely, CachedPage
    <3> QED BY <1>2, <2>2, <3>2, <3>3 DEF Inv, PageCurrent
  <2> QED BY <2>1, <2>2
<1>4. /\ menuCache' \in CachedMenu \cup {None} /\ MenuTimely'
      /\ menuCache' # None /\ menuCache'.menu < settled => menuCache'.overlapped
  <2>1. CASE menuCache = None \/ menuCache.left = 1
    <3>1. menuCache' = None
      BY <2>1 DEF Tick, Lasts
    <3> QED BY <3>1 DEF MenuTimely
  <2>2. CASE menuCache # None /\ menuCache.left # 1
    <3>1. menuCache \in CachedMenu /\ menuCache.left \in 1 .. MenuTTL
      BY <2>2 DEF Inv, TypeInv, MenuTimely
    <3>2. /\ menuCache' \in CachedMenu
          /\ menuCache'.menuAge = menuCache.menuAge + 1
          /\ menuCache'.left = menuCache.left - 1
          /\ menuCache'.menu = menuCache.menu
          /\ menuCache'.overlapped = menuCache.overlapped
      BY <2>2, <3>1, CachesAssumption, OlderMenu DEF Tick
    <3>3. MenuTimely'
      BY <2>2, <3>1, <3>2, CachesAssumption DEF Inv, MenuTimely, CachedMenu
    <3> QED BY <2>2, <3>2, <3>3 DEF Inv, MenuCurrent
  <2> QED BY <2>1, <2>2
<1>5. MenuCurrent'
  BY <1>1, <1>2, <1>4 DEF Inv, MenuCurrent, At
<1>6. TypeInv' /\ Ordered'
  BY <1>2, <1>3, <1>4 DEF Inv, TypeInv, Ordered
<1>7. \A r \in Reader : Timely(reader[r])'
  BY <1>1 DEF Timely
<1> QED BY <1>3, <1>4, <1>5, <1>6, <1>7 DEF Inv

-------------------------------------------------------------------------------
\* Public requests.

\* A request goes on; what it holds is timely, and what it is about to keep is current.
LEMMA ReaderStep ==
  ASSUME Inv, NEW r \in Reader, NEW q \in ReaderState, Timely(q), Reads(r, q),
         q.op = "keep" => (q.menu < settled => q.overlapped),
         UNCHANGED <<content, menu, editor, clears, publications, settled>>,
         pageCache' \in CachedPage \cup {None}, PageTimely', PageCurrent',
         menuCache' \in CachedMenu \cup {None}, MenuTimely',
         menuCache' # None /\ menuCache'.menu < settled => menuCache'.overlapped
  PROVE  Inv'
<1>1. /\ reader'[r] = q /\ reader' \in [Reader -> ReaderState]
      /\ \A s \in Reader : s # r => reader'[s] = reader[s]
  BY DEF Reads, Inv, TypeInv
<1>2. TypeInv' /\ Ordered'
  BY <1>1 DEF Inv, TypeInv, Ordered
<1>3. \A s \in Reader : Timely(reader[s])'
  BY <1>1 DEF Inv, Timely
<1>4. MenuCurrent'
  BY <1>1 DEF Inv, MenuCurrent, At
<1> QED BY <1>2, <1>3, <1>4 DEF Inv

\* The caches stay as they are.
LEMMA SameCaches ==
  ASSUME Inv, UNCHANGED <<pageCache, menuCache, clears>>
  PROVE  /\ pageCache' \in CachedPage \cup {None} /\ PageTimely' /\ PageCurrent'
         /\ menuCache' \in CachedMenu \cup {None} /\ MenuTimely'
         /\ menuCache' # None /\ menuCache'.menu < settled => menuCache'.overlapped
BY DEF Inv, TypeInv, PageTimely, PageCurrent, MenuTimely, MenuCurrent

LEMMA ArriveStep ==
  ASSUME Inv, NEW r \in Reader, NEW bypass \in BOOLEAN, Arrive(r, bypass)
  PROVE  Inv'
<1> DEFINE q == [op |-> "load", spent |-> 0, bypass |-> bypass]
<1>1. q \in Loading /\ q.spent = 0
  BY DEF Loading
<1>2. Reads(r, q) /\ UNCHANGED <<database, caches, editor, history>>
  BY DEF Arrive
<1> HIDE DEF q
<1>3. q \in ReaderState /\ Timely(q) /\ q.op = "load"
  BY <1>1, Distinct, CachesAssumption DEF ReaderState, Timely
<1> QED BY <1>2, <1>3, SameCaches, ReaderStep DEF database, caches, history

LEMMA LoadStep ==
  ASSUME Inv, NEW r \in Reader, Load(r)
  PROVE  Inv'
<1> DEFINE q == [op |-> "resolve", spent |-> reader[r].spent, bypass |-> reader[r].bypass,
                 content |-> content, contentAge |-> 0]
<1>1. reader[r] \in Loading /\ Timely(reader[r])
  BY Distinct DEF Load, At, Inv, TypeInv, ReaderState
<1>2. q \in Resolving /\ q.spent = reader[r].spent /\ q.contentAge = 0
  BY <1>1 DEF Loading, Resolving, Inv, TypeInv, Version
<1>3. Reads(r, q) /\ UNCHANGED <<database, caches, editor, history>>
  BY DEF Load
<1> HIDE DEF q
<1>4. reader[r].spent <= LoadTime /\ reader[r].spent \in Nat
  BY <1>1, Distinct DEF Loading, Timely
<1>5. q \in ReaderState /\ Timely(q) /\ q.op = "resolve"
  BY <1>2, <1>4, Distinct DEF ReaderState, Timely
<1> QED BY <1>3, <1>5, SameCaches, ReaderStep DEF database, caches, history

LEMMA WithMenuTyped ==
  ASSUME NEW q \in Resolving \cup Responding, Timely(q), NEW op \in {"keep", "store"},
         NEW version \in Nat, NEW age \in Nat, age < q.spent + LoadTime + MenuTTL,
         op = "keep" => age <= q.spent
  PROVE  LET w == WithMenu(q, op, version, age) IN
         w \in ReaderState /\ Timely(w) /\ w.op = op /\ w.menu = version
<1> DEFINE w == WithMenu(q, op, version, age)
<1>1. /\ q.spent \in Nat /\ q.bypass \in BOOLEAN /\ q.content \in Nat /\ q.contentAge \in Nat
      /\ q.contentAge <= q.spent /\ q.spent <= LoadTime
  BY Distinct DEF Resolving, Responding, Timely
<1>2. /\ w \in Responding /\ w.op = op /\ w.menu = version /\ w.menuAge = age
      /\ w.spent = q.spent /\ w.contentAge = q.contentAge
  BY <1>1 DEF WithMenu, Responding
<1> HIDE DEF w
<1>3. w \in ReaderState /\ Timely(w)
  BY <1>1, <1>2, Distinct DEF ReaderState, Timely
<1> QED BY <1>2, <1>3 DEF w

LEMMA ResolveStep ==
  ASSUME Inv, NEW r \in Reader, Resolve(r)
  PROVE  Inv'
<1>1. reader[r] \in Resolving /\ Timely(reader[r]) /\ reader[r].spent \in Nat
  BY Distinct DEF Resolve, At, Inv, TypeInv, ReaderState, Resolving
<1>2. CASE /\ menuCache # None
           /\ Reads(r, WithMenu(reader[r], "store", menuCache.menu, menuCache.menuAge))
  <2> DEFINE q == WithMenu(reader[r], "store", menuCache.menu, menuCache.menuAge)
  <2>1. /\ menuCache.menu \in Nat /\ menuCache.menuAge \in Nat
        /\ menuCache.menuAge < reader[r].spent + LoadTime + MenuTTL
    BY <1>1, <1>2, CachesAssumption DEF Inv, TypeInv, CachedMenu, MenuTimely
  <2>2. q \in ReaderState /\ Timely(q) /\ q.op = "store"
    BY <1>1, <2>1, WithMenuTyped
  <2>3. Reads(r, q)
    BY <1>2
  <2> HIDE DEF q
  <2> QED BY <2>2, <2>3, SameCaches, ReaderStep DEF Resolve, database, caches, history
<1>3. ASSUME NEW op \in {"keep", "store"}, Reads(r, WithMenu(reader[r], op, menu, 0))
      PROVE  Inv'
  <2> DEFINE q == WithMenu(reader[r], op, menu, 0)
  <2>1. menu \in Nat /\ 0 < reader[r].spent + LoadTime + MenuTTL
    BY <1>1, CachesAssumption DEF Inv, TypeInv
  <2>2. q \in ReaderState /\ Timely(q) /\ q.op = op /\ q.menu = menu
    BY <1>1, <2>1, WithMenuTyped
  <2>3. Reads(r, q)
    BY <1>3
  <2>4. ~(menu < settled)
    BY DEF Inv, TypeInv, Ordered
  <2> HIDE DEF q
  <2> QED BY <2>2, <2>3, <2>4, SameCaches, ReaderStep DEF Resolve, database, caches, history
<1> QED BY <1>2, <1>3 DEF Resolve

LEMMA StoreMenuStep ==
  ASSUME Inv, NEW r \in Reader, StoreMenu(r)
  PROVE  Inv'
<1> DEFINE q == WithMenu(reader[r], "store", reader[r].menu, reader[r].menuAge)
           entry == [menu |-> reader[r].menu, menuAge |-> reader[r].menuAge,
                     left |-> MenuTTL, overlapped |-> reader[r].overlapped]
<1>1. /\ reader[r] \in Responding /\ Timely(reader[r]) /\ At(r, "keep")
      /\ reader[r].spent \in Nat /\ reader[r].menu \in Nat /\ reader[r].menuAge \in Nat
      /\ reader[r].overlapped \in BOOLEAN
  BY Distinct DEF StoreMenu, At, Inv, TypeInv, ReaderState, Responding
<1>2. /\ reader[r].menuAge <= reader[r].spent /\ reader[r].spent <= LoadTime
      /\ reader[r].menuAge < reader[r].spent + LoadTime + MenuTTL
  BY <1>1, Distinct DEF Timely, At
<1>3. q \in ReaderState /\ Timely(q) /\ q.op = "store"
  BY <1>1, <1>2, WithMenuTyped
<1>4. /\ entry \in CachedMenu /\ entry.menu = reader[r].menu /\ entry.left = MenuTTL
      /\ entry.menuAge = reader[r].menuAge /\ entry.overlapped = reader[r].overlapped
  BY <1>1, CachesAssumption DEF CachedMenu
<1>5. /\ menuCache' = entry /\ Reads(r, q)
      /\ UNCHANGED <<content, menu, pageCache, editor, clears, publications, settled>>
  BY DEF StoreMenu, database, history
<1> HIDE DEF q, entry
<1>6. /\ pageCache' \in CachedPage \cup {None} /\ PageTimely' /\ PageCurrent'
  BY <1>5 DEF Inv, TypeInv, PageTimely, PageCurrent
<1>7. MenuTimely'
  BY <1>1, <1>2, <1>4, <1>5, CachesAssumption DEF MenuTimely
<1>8. menuCache'.menu < settled => menuCache'.overlapped
  BY <1>1, <1>4, <1>5 DEF Inv, MenuCurrent
<1> QED BY <1>3, <1>4, <1>5, <1>6, <1>7, <1>8, ReaderStep

LEMMA RespondStep ==
  ASSUME Inv, NEW r \in Reader, Respond(r)
  PROVE  Inv'
<1>1. /\ reader[r] \in Responding /\ Timely(reader[r])
      /\ reader[r].spent \in Nat /\ reader[r].content \in Nat
      /\ reader[r].contentAge \in Nat /\ reader[r].menuAge \in Nat
  BY Distinct DEF Respond, At, Inv, TypeInv, ReaderState, Responding
<1>2. Idle \in ReaderState /\ Timely(Idle) /\ Idle.op # "keep"
  BY Distinct DEF ReaderState, Timely
<1>3. Reads(r, Idle) /\ UNCHANGED <<content, menu, menuCache, editor, clears, publications, settled>>
  BY DEF Respond, database, history
<1>4. /\ menuCache' \in CachedMenu \cup {None} /\ MenuTimely'
      /\ menuCache' # None /\ menuCache'.menu < settled => menuCache'.overlapped
  BY <1>3 DEF Inv, TypeInv, MenuTimely, MenuCurrent
<1>5. CASE UNCHANGED pageCache
  BY <1>2, <1>3, <1>5, SameCaches, ReaderStep
<1>6. CASE pageCache' = [content |-> reader[r].content, contentAge |-> reader[r].contentAge,
                         menuAge |-> reader[r].menuAge, left |-> PageTTL, clears |-> clears]
  <2> DEFINE page == [content |-> reader[r].content, contentAge |-> reader[r].contentAge,
                      menuAge |-> reader[r].menuAge, left |-> PageTTL, clears |-> clears]
  <2>1. clears \in Nat /\ PageTTL \in Nat
    BY CachesAssumption DEF Inv, TypeInv
  <2>2. /\ page \in CachedPage /\ page.left = PageTTL /\ page.clears = clears
        /\ page.contentAge = reader[r].contentAge /\ page.menuAge = reader[r].menuAge
    BY <1>1, <2>1 DEF CachedPage
  <2>3. pageCache' = page
    BY <1>6
  <2> HIDE DEF page
  <2>4. /\ reader[r].contentAge <= LoadTime
        /\ reader[r].menuAge < LoadTime + LoadTime + MenuTTL
    BY <1>1, Distinct, CachesAssumption DEF Timely
  <2>5. PageTimely' /\ PageCurrent'
    BY <1>1, <1>3, <2>2, <2>3, <2>4, CachesAssumption DEF PageTimely, PageCurrent
  <2> QED BY <1>2, <1>3, <1>4, <2>2, <2>3, <2>5, ReaderStep
<1> QED BY <1>5, <1>6 DEF Respond

-------------------------------------------------------------------------------
\* Writes.

LEMMA ClearPagesStep ==
  ASSUME Inv, NEW e \in Editor, ClearPages(e)
  PROVE  Inv'
<1>1. PICK n \in {0, clears + 1} :
         /\ Writes(e, [op |-> "publish", cleared |-> n])
         /\ \/ pageCache' = None /\ clears' = clears + 1
            \/ n = 0 /\ UNCHANGED <<pageCache, clears>>
  BY DEF ClearPages, PagesCleared
<1>2. /\ UNCHANGED <<content, menu, menuCache, reader, publications, settled>>
      /\ clears < MaxClears /\ clears \in Nat
  BY DEF ClearPages, database, Inv, TypeInv
<1>3. n \in Nat /\ n <= clears' /\ clears <= clears' /\ clears' \in 0 .. MaxClears
  BY <1>1, <1>2, CachesAssumption DEF Inv, TypeInv
<1> DEFINE q == [op |-> "publish", cleared |-> n]
<1>4. q \in EditorState /\ q.op = "publish" /\ q.cleared = n
  BY <1>3 DEF EditorState
<1>5. editor' = [editor EXCEPT ![e] = q]
  BY <1>1 DEF Writes
<1> HIDE DEF q
<1>6. /\ editor'[e] = q
      /\ \A f \in Editor : f # e => editor'[f] = editor[f]
  BY <1>5 DEF Inv, TypeInv
<1>7. TypeInv'
  BY <1>1, <1>2, <1>3, <1>4, <1>5 DEF Inv, TypeInv
<1>8. PageTimely' /\ PageCurrent'
  BY <1>1 DEF Inv, PageTimely, PageCurrent
<1>9. Ordered'
  <2>1. \A f \in Editor : editor'[f].op = "publish" => editor'[f].cleared <= clears'
    <3> SUFFICES ASSUME NEW f \in Editor, editor'[f].op = "publish"
                 PROVE  editor'[f].cleared <= clears'
      OBVIOUS
    <3>1. CASE f = e
      BY <1>3, <1>4, <1>6, <3>1
    <3>2. CASE f # e
      <4>1. editor[f].cleared \in Nat /\ editor[f].cleared <= clears
        BY <1>6, <3>2 DEF Inv, TypeInv, Ordered, EditorState, Idle
      <4> QED BY <1>2, <1>3, <1>6, <3>2, <4>1
    <3> QED BY <3>1, <3>2
  <2>2. \A p \in publications : p[2] <= clears'
    BY <1>2, <1>3 DEF Inv, TypeInv, Ordered
  <2> QED BY <1>2, <1>4, <1>6, <2>1, <2>2 DEF Inv, Ordered
<1>10. /\ \A r \in Reader : Timely(reader[r])'
       /\ MenuTimely' /\ MenuCurrent'
  BY <1>2 DEF Inv, Timely, MenuTimely, MenuCurrent, At
<1> QED BY <1>7, <1>8, <1>9, <1>10 DEF Inv

\* What a step that touches neither cache nor clearing keeps.
LEMMA QuietStep ==
  ASSUME Inv, UNCHANGED <<pageCache, menuCache, reader, clears, settled>>
  PROVE  /\ \A r \in Reader : Timely(reader[r])'
         /\ PageTimely' /\ MenuTimely' /\ PageCurrent' /\ MenuCurrent'
BY DEF Inv, Timely, PageTimely, MenuTimely, PageCurrent, MenuCurrent, At

LEMMA EndPublishStep ==
  ASSUME Inv, NEW e \in Editor, EndPublish(e)
  PROVE  Inv'
<1>1. /\ UNCHANGED <<menu, pageCache, menuCache, reader, clears, settled>>
      /\ editor' = [editor EXCEPT ![e] = Idle] /\ editor[e].op = "publish"
  BY DEF EndPublish, Writes
<1>2. editor[e].cleared \in Nat /\ editor[e].cleared <= clears
  BY <1>1 DEF Inv, TypeInv, Ordered, EditorState, Idle
<1>3. /\ content' \in Version /\ publications' \subseteq Nat \X Nat
      /\ \A p \in publications' : p[2] <= clears
  <2>1. CASE UNCHANGED <<content, publications>>
    BY <2>1 DEF Inv, TypeInv, Ordered
  <2>2. CASE /\ content < MaxWrites /\ content' = content + 1
             /\ publications' = publications \cup {<<content + 1, editor[e].cleared>>}
    <3>1. content \in Nat /\ content + 1 \in Version
      BY <2>2, CachesAssumption DEF Inv, TypeInv, Version
    <3> QED BY <1>2, <2>2, <3>1 DEF Inv, TypeInv, Ordered
  <2> QED BY <2>1, <2>2 DEF EndPublish
<1>4. Idle \in EditorState
  BY DEF EditorState
<1>5. TypeInv'
  BY <1>1, <1>3, <1>4 DEF Inv, TypeInv
<1>6. Ordered'
  BY <1>1, <1>3, Distinct DEF Inv, TypeInv, Ordered
<1> QED BY <1>1, <1>5, <1>6, QuietStep DEF Inv

LEMMA SilentWriteStep ==
  ASSUME Inv, SilentWrite
  PROVE  Inv'
<1>1. content' \in Version
  BY CachesAssumption DEF SilentWrite, Inv, TypeInv, Version
<1>2. UNCHANGED <<menu, pageCache, menuCache, reader, editor, clears, publications, settled>>
  BY DEF SilentWrite, history
<1>3. TypeInv' /\ Ordered'
  BY <1>1, <1>2 DEF Inv, TypeInv, Ordered
<1> QED BY <1>2, <1>3, QuietStep DEF Inv

LEMMA WriteMenuStep ==
  ASSUME Inv, NEW e \in Editor, WriteMenu(e)
  PROVE  Inv'
<1> DEFINE q == [op |-> "menu", version |-> menu + 1]
<1>1. /\ menu \in Nat /\ menu' = menu + 1 /\ menu' \in 0 .. MaxMenus
      /\ editor' = [editor EXCEPT ![e] = q]
      /\ UNCHANGED <<content, pageCache, menuCache, reader, clears, publications, settled>>
  BY CachesAssumption DEF WriteMenu, Writes, history, Inv, TypeInv
<1>2. q \in EditorState /\ q.op = "menu" /\ q.version = menu + 1
  BY <1>1 DEF EditorState
<1> HIDE DEF q
<1>3. /\ editor'[e] = q
      /\ \A f \in Editor : f # e => editor'[f] = editor[f]
  BY <1>1 DEF Inv, TypeInv
<1>4. TypeInv'
  BY <1>1, <1>2 DEF Inv, TypeInv
<1>5. Ordered'
  <2>1. \A f \in Editor : editor'[f].op = "menu" => editor'[f].version <= menu'
    <3> SUFFICES ASSUME NEW f \in Editor, editor'[f].op = "menu"
                 PROVE  editor'[f].version <= menu'
      OBVIOUS
    <3>1. CASE f = e
      BY <1>1, <1>2, <1>3, <3>1
    <3>2. CASE f # e
      <4>1. editor[f].version \in Nat /\ editor[f].version <= menu
        BY <1>3, <3>2 DEF Inv, TypeInv, Ordered, EditorState, Idle
      <4> QED BY <1>1, <1>3, <3>2, <4>1
    <3> QED BY <3>1, <3>2
  <2>2. settled' <= menu'
    BY <1>1 DEF Inv, TypeInv, Ordered
  <2> QED BY <1>1, <1>2, <1>3, <2>1, <2>2 DEF Inv, Ordered
<1> QED BY <1>1, <1>4, <1>5, QuietStep DEF Inv

LEMMA ClearMenusStep ==
  ASSUME Inv, NEW e \in Editor, ClearMenus(e)
  PROVE  Inv'
<1>1. /\ UNCHANGED <<content, menu, pageCache, clears, publications>>
      /\ editor' = [editor EXCEPT ![e] = Idle] /\ editor[e].op = "menu"
  BY DEF ClearMenus, Writes, database
<1>2. editor[e].version \in Nat /\ editor[e].version <= menu
  BY <1>1 DEF Inv, TypeInv, Ordered, EditorState, Idle
<1>3. settled' \in 0 .. MaxMenus /\ settled' <= menu
  <2>1. settled' = settled \/ settled' = editor[e].version
    BY DEF ClearMenus
  <2>2. /\ settled \in 0 .. MaxMenus /\ settled <= menu /\ menu \in 0 .. MaxMenus
        /\ MaxMenus \in Nat
    BY CachesAssumption DEF Inv, TypeInv, Ordered
  <2> QED BY <1>2, <2>1, <2>2
<1>4. Idle \in EditorState /\ editor' \in [Editor -> EditorState]
  BY <1>1 DEF EditorState, Inv, TypeInv
<1>5. PageTimely' /\ PageCurrent'
  BY <1>1 DEF Inv, PageTimely, PageCurrent
<1>6. Ordered'
  BY <1>1, <1>3, Distinct DEF Inv, TypeInv, Ordered
<1>7. CASE UNCHANGED <<menuCache, settled, reader>>
  <2>1. TypeInv'
    BY <1>1, <1>4, <1>7 DEF Inv, TypeInv
  <2>2. /\ \A r \in Reader : Timely(reader[r])'
        /\ MenuTimely' /\ MenuCurrent'
    BY <1>7 DEF Inv, Timely, MenuTimely, MenuCurrent, At
  <2> QED BY <1>5, <1>6, <2>1, <2>2 DEF Inv
<1>8. CASE /\ menuCache' = MenusCleared
           /\ reader' = [r \in Reader |-> IF At(r, "keep")
                                          THEN [reader[r] EXCEPT !.overlapped = TRUE]
                                          ELSE reader[r]]
  <2>1. menuCache' = None
    BY <1>8 DEF MenusCleared
  <2>2. ASSUME NEW r \in Reader
        PROVE  /\ reader'[r] \in ReaderState /\ Timely(reader'[r])
               /\ reader'[r].op = "keep" => reader'[r].overlapped
    <3>1. CASE At(r, "keep")
      <4>1. reader[r] \in Responding /\ Timely(reader[r]) /\ reader[r].op = "keep"
        BY <3>1, Distinct DEF At, Inv, TypeInv, ReaderState
      <4>2. reader'[r] = [reader[r] EXCEPT !.overlapped = TRUE]
        BY <1>8, <3>1
      <4>3. /\ reader'[r] \in Responding /\ reader'[r].overlapped
            /\ reader'[r].op = reader[r].op /\ reader'[r].spent = reader[r].spent
            /\ reader'[r].contentAge = reader[r].contentAge
            /\ reader'[r].menuAge = reader[r].menuAge
        BY <4>1, <4>2 DEF Responding
      <4> QED BY <4>1, <4>3, Distinct DEF ReaderState, Timely
    <3>2. CASE ~At(r, "keep")
      BY <1>8, <3>2 DEF At, Inv, TypeInv
    <3> QED BY <3>1, <3>2
  <2>3. reader' \in [Reader -> ReaderState]
    BY <1>8, <2>2
  <2>4. TypeInv'
    BY <1>1, <1>3, <1>4, <2>1, <2>3 DEF Inv, TypeInv
  <2>5. MenuTimely' /\ MenuCurrent'
    BY <2>1, <2>2 DEF MenuTimely, MenuCurrent, At
  <2>6. \A r \in Reader : Timely(reader[r])'
    BY <2>2 DEF Timely
  <2> QED BY <1>5, <1>6, <2>4, <2>5, <2>6 DEF Inv
<1> QED BY <1>7, <1>8 DEF ClearMenus

LEMMA NextStep == Inv /\ [Next]_vars => Inv'
<1> SUFFICES ASSUME Inv, [Next]_vars PROVE Inv'
  OBVIOUS
<1>1. CASE UNCHANGED vars
  BY <1>1, QuietStep DEF vars, Inv, TypeInv, Ordered
<1> QED BY <1>1, TickStep, ArriveStep, LoadStep, ResolveStep, StoreMenuStep, RespondStep,
           ClearPagesStep, EndPublishStep, WriteMenuStep, ClearMenusStep, SilentWriteStep
        DEF Next

-------------------------------------------------------------------------------
\* The invariant holds of every reachable state.
THEOREM InvAlways == Spec => []Inv
BY InitInv, NextStep, PTL DEF Spec

\* The variables keep their types.
THEOREM TypeCorrect == Spec => []TypeOK
<1>1. Inv => TypeOK
  <2> SUFFICES ASSUME Inv PROVE TypeOK
    OBVIOUS
  <2>1. \A r \in Reader : reader[r].op \in {"idle", "load", "resolve", "keep", "store"}
    BY Distinct DEF Inv, TypeInv, ReaderState
  <2>2. \A e \in Editor : editor[e].op \in {"idle", "publish", "menu"}
    BY Distinct DEF Inv, TypeInv, EditorState
  <2> QED BY <2>1, <2>2 DEF Inv, TypeInv, PageTimely, MenuTimely, TypeOK
<1> QED BY <1>1, InvAlways, PTL

\* What a visitor is served is no older than the lifetimes and the loading times add up to.
THEOREM StalenessIsBounded == Spec => []StalenessBounded
<1>1. Inv => StalenessBounded
  <2> SUFFICES ASSUME Inv, pageCache # None
               PROVE  /\ pageCache.contentAge < LoadTime + PageTTL
                      /\ pageCache.menuAge < LoadTime + MenuTTL + LoadTime + PageTTL
    BY DEF StalenessBounded
  <2> QED BY CachesAssumption DEF Inv, TypeInv, CachedPage, PageTimely
<1> QED BY <1>1, InvAlways, PTL

\* Clearings are not undone, but by fills that were under way.
THEOREM ClearingsLast == Spec => []OutdatedOnlyByOverlap
<1>1. Inv => OutdatedOnlyByOverlap
  <2> SUFFICES ASSUME Inv PROVE OutdatedOnlyByOverlap
    OBVIOUS
  <2>1. ASSUME pageCache # None, NEW p \in publications
        PROVE  pageCache.clears >= p[2]
    <3>1. pageCache.clears = clears /\ clears \in Nat
      BY <2>1 DEF Inv, PageCurrent, TypeInv
    <3>2. p[2] \in Nat /\ p[2] <= clears
      BY DEF Inv, Ordered, TypeInv
    <3> QED BY <3>1, <3>2
  <2>2. menuCache # None /\ menuCache.menu < settled => menuCache.overlapped
    BY DEF Inv, MenuCurrent
  <2> QED BY <2>1, <2>2 DEF OutdatedOnlyByOverlap
<1> QED BY <1>1, InvAlways, PTL
===============================================================================
