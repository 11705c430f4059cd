------------------------------ MODULE BuildList ------------------------------
(***************************************************************************)
(* Somebody looks through the list of builds (internal/web/ui/build_list.go*)
(* and templates/page_build_list.tmpl) while webhooks add to it.  A page is*)
(* a window on the builds in descending order of their ids, so each new    *)
(* build moves all others on by one place; and it is made of two queries,  *)
(* one for the builds and one for their number, with time between them.    *)
(***************************************************************************)
EXTENDS BuildCreation

CONSTANTS
    PageSize,    \* buildListPageSize
    Word,        \* how many values a uint has
    TypedPages   \* the page numbers that are typed into the address

ASSUME ListAssumption ==
    /\ PageSize \in Nat \ {0}
    /\ Word \in Nat \ {0} /\ Word % 2 = 0
    /\ 2 * PageSize <= Word      \* 8 and 2^64 in the code
    /\ TypedPages \subseteq 0..(Word - 1)

VARIABLE view

listVars == <<creationVars, view>>

NoPage == Word   \* a nil *uint

(***************************************************************************)
(* What the browser asked for, how far the handler is, what it has found,  *)
(* and the builds that were there when the viewer started on page 0 and    *)
(* that no page has shown since.                                           *)
(***************************************************************************)
ListInit ==
    view = [at |-> "blank", page |-> 0, followed |-> FALSE,
            cards |-> {}, next |-> NoPage, missed |-> {}]

Ask(page, followed, missed) ==
    /\ view.at # "listed"
    /\ view' = [at |-> "asked", page |-> page, followed |-> followed,
                cards |-> {}, next |-> NoPage, missed |-> missed]
    /\ UNCHANGED creationVars

Open(page) == Ask(page, FALSE, IF page = 0 THEN DOMAIN rows ELSE {})

FollowNext ==
    /\ view.at = "shown" /\ view.next # NoPage
    /\ Ask(view.next, TRUE, view.missed)

FollowPrevious ==
    /\ view.at = "shown" /\ view.page > 0
    /\ Ask(view.page - 1, FALSE, {})

(***************************************************************************)
(* update-poller asks for the page again every second.                     *)
(***************************************************************************)
PollList == view.at = "shown" /\ Ask(view.page, view.followed, view.missed)

Offset(page) == (page * PageSize) % Word

Window(page) ==
    {i \in DOMAIN rows :
        Len(rows) - i \in Offset(page)..(Offset(page) + PageSize - 1)}

(***************************************************************************)
(* A mutant: a link to the page after the last.                            *)
(***************************************************************************)
NextPageTooFar(page) ==
    IF ((page + 1) * PageSize) % Word <= Len(rows)
    THEN (page + 1) % Word ELSE NoPage

NextPage(page) ==
    IF ((page + 1) * PageSize) % Word < Len(rows)
    THEN (page + 1) % Word ELSE NoPage

(***************************************************************************)
(* A mutant: the builds are counted before they are listed.                *)
(***************************************************************************)
CountThenList ==
    /\ \/ /\ view.at = "asked"
          /\ view' = [view EXCEPT !.at = "counted", !.next = NextPage(view.page)]
       \/ /\ view.at = "counted"
          /\ view' = [view EXCEPT !.at = "shown", !.cards = Window(view.page),
                                  !.missed = @ \ Window(view.page)]
    /\ UNCHANGED creationVars

(***************************************************************************)
(* A mutant: OFFSET takes any uint.                                        *)
(***************************************************************************)
ListBuildsAnywhere ==
    /\ view.at = "asked"
    /\ view' = [view EXCEPT !.at = "listed", !.cards = Window(view.page)]
    /\ UNCHANGED creationVars

(***************************************************************************)
(* The parameter of OFFSET is a bigint: pgx refuses to encode a greater one*)
(* and the page is an error.                                               *)
(***************************************************************************)
ListBuilds ==
    /\ view.at = "asked"
    /\ view' = IF Offset(view.page) >= Word \div 2
               THEN [view EXCEPT !.at = "error"]
               ELSE [view EXCEPT !.at = "listed", !.cards = Window(view.page)]
    /\ UNCHANGED creationVars

CountBuilds ==
    /\ view.at = "listed"
    /\ view' = [view EXCEPT !.at = "shown", !.next = NextPage(view.page),
                            !.missed = @ \ view.cards]
    /\ UNCHANGED creationVars

ListStep ==
    \/ \E page \in TypedPages : Open(page)
    \/ FollowNext
    \/ FollowPrevious
    \/ PollList
    \/ ListBuilds
    \/ CountBuilds

Next ==
    \/ CreationNext /\ UNCHANGED view
    \/ ListStep

Init == CreationInit /\ ListInit

Spec == Init /\ [][Next]_listVars

FairSpec == Spec /\ CreationFairness

-----------------------------------------------------------------------------
(***************************************************************************)
(* Who starts on page 0 and follows the links until there is none has seen *)
(* every build that was there at the start, whatever was created meanwhile:*)
(* builds only move to later pages, and are counted after they are listed. *)
(***************************************************************************)
WalkSeesAll == view.at = "shown" /\ view.next = NoPage => view.missed = {}

(***************************************************************************)
(* The link to the next page does not lead to an empty one.                *)
(***************************************************************************)
NextHasBuilds == view.at = "shown" /\ view.followed => view.cards # {}

(***************************************************************************)
(* The links lead on: the page a link "next" goes to begins where this one *)
(* ends.  Any page number may be typed, and its offset wraps at the end of *)
(* a word; but an offset near that end is an error, so that no shown page  *)
(* has a link that wraps round to the newest builds.                       *)
(***************************************************************************)
LinksLeadOn ==
    view.at = "shown" /\ view.next # NoPage
        => Offset(view.next) = Offset(view.page) + PageSize
=============================================================================
