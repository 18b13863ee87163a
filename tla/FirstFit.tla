------------------------------ MODULE FirstFit ------------------------------
(***************************************************************************)
(* The first-fit allocator of physical pages (lab8).                       *)
(*   kern/mm/default_pmm.c  default_init_memmap, default_alloc_pages,      *)
(*                          default_free_pages                             *)
(*   kern/mm/pmm.c          page_init, alloc_pages, free_pages             *)
(*   libs/list.h            the doubly linked list under the free list     *)
(* alloc_pages and free_pages turn interrupts off, so each is one step.    *)
(* The list is modelled by its pointers, because what the two pointers of  *)
(* an entry say need not agree.  A caller may give back any run of pages   *)
(* it holds, as default_check does.                                        *)
(***************************************************************************)
EXTENDS Integers, FiniteSets, FiniteSetsExt

CONSTANT NPAGE    \* the number of pages that are free after page_init

ASSUME FirstFitAssumption == NPAGE \in Nat \ {0}

Page == 0 .. NPAGE - 1
free_list == -1            \* the list header
Entry == Page \cup {free_list}

VARIABLES
    mem,       \* next, prev: page_link of each entry; property: p->property;
               \* PG_property: the pages with that flag
    nr_free,
    owned      \* the pages handed out and not given back

pmm_vars == <<mem, nr_free, owned>>

Run(base, n) == base .. base + n - 1

----------------------------------------------------------------------------
(* list.h                                                                  *)

\* __list_add: the entries may coincide, the last assignment wins.
__list_add(m, elm, prev, next) ==
    [m EXCEPT !.next = [@ EXCEPT ![prev] = elm, ![elm] = next],
              !.prev = [@ EXCEPT ![next] = elm, ![elm] = prev]]

list_add(m, listelm, elm) == __list_add(m, elm, listelm, m.next[listelm])

list_add_before(m, listelm, elm) == __list_add(m, elm, m.prev[listelm], listelm)

list_del(m, elm) ==
    [m EXCEPT !.next[m.prev[elm]] = m.next[elm],
              !.prev[m.next[elm]] = m.prev[elm]]

\* The entries a walk along next meets, from the header on.
Walk(m) == LET at[k \in 0 .. NPAGE + 1] == IF k = 0 THEN free_list ELSE m.next[at[k - 1]]
           IN  at

\* The walk comes back to the header (NPAGE + 1 steps see every entry).
WalkEnds(m) == \E k \in 1 .. NPAGE + 1 : Walk(m)[k] = free_list

\* How many pages it meets before it does.
Length(m) == Min({k \in 1 .. NPAGE + 1 : Walk(m)[k] = free_list}) - 1

\* The pages in the list.
Listed(m) == {Walk(m)[k] : k \in 1 .. Length(m)}

\* The first page in the list, in its order, that is in S.
FirstIn(m, S) == Walk(m)[Min({k \in 1 .. Length(m) : Walk(m)[k] \in S})]

----------------------------------------------------------------------------
(* The allocator.                                                          *)

\* default_init, and default_init_memmap with all pages.
page_init ==
    /\ mem = [next |-> [e \in Entry |-> IF e = free_list THEN 0 ELSE free_list],
              prev |-> [e \in Entry |-> IF e = free_list THEN 0 ELSE free_list],
              property |-> [p \in Page |-> IF p = 0 THEN NPAGE ELSE 0],
              PG_property |-> {0}]
    /\ nr_free = NPAGE
    /\ owned = {}

\* Mutant: the rest of a block is one page short.
RestShort(m, page, n) == m.property[page] - n - 1

\* What is left of a block when n pages are taken off its front.
Rest(m, page, n) == m.property[page] - n

(***************************************************************************)
(* default_alloc_pages: the first block that is large enough gives its     *)
(* first n pages, and the rest of it takes its place in the list.  When    *)
(* there is none the call returns NULL and changes nothing.                *)
(***************************************************************************)
default_alloc_pages(n) ==
    LET fits == {p \in Listed(mem) : mem.property[p] >= n}
        page == FirstIn(mem, fits)
        cut  == [list_del(mem, page) EXCEPT !.PG_property = @ \ {page}]
        p    == page + n
    IN  /\ WalkEnds(mem)
        /\ n <= nr_free
        /\ fits # {}
        /\ mem' = IF mem.property[page] > n
                  THEN list_add([cut EXCEPT !.property[p] = Rest(mem, page, n),
                                            !.PG_property = @ \cup {p}],
                                mem.prev[page], p)
                  ELSE cut
        /\ nr_free' = nr_free - n
        /\ owned' = owned \cup Run(page, n)

(***************************************************************************)
(* The insertion loop of default_free_pages: before the first page above   *)
(* base.  When there is none, base goes behind the last page; the loop     *)
(* goes on, meets base itself as the last page and adds it behind itself.  *)
(***************************************************************************)
Inserted(m, base) ==
    LET above == {p \in Listed(m) : base < p}
        last  == Walk(m)[Length(m)]
    IN  IF Listed(m) = {} THEN list_add(m, free_list, base)
        ELSE IF above # {} THEN list_add_before(m, FirstIn(m, above), base)
        ELSE list_add(list_add(m, last, base), base, base)

\* p becomes a part of the block at base in front of it.
Joined(m, base, p) ==
    list_del([m EXCEPT !.property[base] = @ + m.property[p],
                       !.PG_property = @ \ {p}], p)

\* Two blocks of the list that touch.
Touch(m, p, q) == free_list \notin {p, q} /\ p + m.property[p] = q

\* Mutant: only the block above is looked at.
CoalescedAbove(m, base) ==
    IF Touch(m, base, m.next[base]) THEN Joined(m, base, m.next[base]) ELSE m

\* The end of default_free_pages: join base to the block below it, then to
\* the block above.
Coalesced(m, base) ==
    LET below == m.prev[base]
        low   == IF Touch(m, below, base) THEN below ELSE base
        m1    == IF low # base THEN Joined(m, low, base) ELSE m
    IN  IF Touch(m1, low, m1.next[low]) THEN Joined(m1, low, m1.next[low]) ELSE m1

\* default_free_pages; where its assertion fails, for a page that heads a free
\* block, the kernel stops.
default_free_pages(base, n) ==
    /\ WalkEnds(mem)
    /\ Run(base, n) \cap mem.PG_property = {}
    /\ mem' = Coalesced(Inserted([mem EXCEPT !.property[base] = n,
                                             !.PG_property = @ \cup {base}],
                                 base), base)
    /\ nr_free' = nr_free + n
    /\ owned' = owned \ Run(base, n)

alloc_pages == \E n \in 1 .. NPAGE : default_alloc_pages(n)

free_pages == \E base \in Page : \E n \in 1 .. NPAGE - base :
                  /\ Run(base, n) \subseteq owned
                  /\ default_free_pages(base, n)

PmmNext == alloc_pages \/ free_pages

PmmSpec == page_init /\ [][PmmNext]_pmm_vars

(***************************************************************************)
(* Memory that is never exhausted: the highest page stays free.  A block   *)
(* is cut from its front, so the highest page is the last to be taken.     *)
(***************************************************************************)
AmpleNext == (alloc_pages /\ NPAGE - 1 \notin owned') \/ free_pages

AmpleSpec == page_init /\ [][AmpleNext]_pmm_vars

----------------------------------------------------------------------------

\* The pages of the block at p.
PagesOf(p) == Run(p, mem.property[p])

(***************************************************************************)
(* The free list holds exactly the pages that are not handed out, each in  *)
(* one block: the walk ends, the flag PG_property marks the heads of the   *)
(* blocks, the blocks are disjoint, and nr_free counts their pages.  No    *)
(* page is handed out twice or lost, whatever was split and joined before. *)
(***************************************************************************)
BlocksExact ==
    /\ WalkEnds(mem)
    /\ Listed(mem) = mem.PG_property
    /\ UNION {PagesOf(p) : p \in Listed(mem)} = Page \ owned
    /\ \A p, q \in Listed(mem) : p # q => PagesOf(p) \cap PagesOf(q) = {}
    /\ nr_free = Cardinality(Page \ owned)

(***************************************************************************)
(* Each block of the list is a maximal run of free pages and the list      *)
(* ascends, so a request fails only when no run of that length is free.    *)
(***************************************************************************)
MaximalBlocks ==
    /\ \A p \in Listed(mem) : {p - 1, p + mem.property[p]} \cap (Page \ owned) = {}
    /\ \A k \in 1 .. Length(mem) - 1 : Walk(mem)[k] < Walk(mem)[k + 1]

(***************************************************************************)
(* The first assertions of default_check: every page in the list has the   *)
(* flag PG_property, and the sizes of the blocks add up to nr_free.        *)
(***************************************************************************)
default_check ==
    /\ WalkEnds(mem)
    /\ Listed(mem) \subseteq mem.PG_property
    /\ MapThenSumSet(LAMBDA p : mem.property[p], Listed(mem)) = nr_free
=============================================================================
