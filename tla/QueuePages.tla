----------------------------- MODULE QueuePages -----------------------------
(***************************************************************************)
(* Fetching a download queue page by page: Client.Queue and Client.do of   *)
(* internal/arr/client.go.  The queue is a list on the server, which may   *)
(* change between two pages: a page is a range of positions, not of        *)
(* records.                                                                *)
(***************************************************************************)
EXTENDS Naturals, SequencesExt

CONSTANTS
    Records,        \* queue record ids
    PageSize,
    PageFaults      \* the failures that may happen: "page", "emptyBody"

ASSUME PagesAssumption ==
    /\ IsFiniteSet(Records) /\ PageSize \in Nat \ {0}
    /\ PageFaults \subseteq {"page", "emptyBody"}

VARIABLES
    live,           \* the server's queue, in its order
    fetch,          \* "paging", then "done" or "failed"
    page, all,      \* the next page to ask for, and the records so far
    stayed,         \* ghost: records in the queue ever since the fetch began
    shrunk, grown,  \* ghost: a record left, or came to, the queue meanwhile
    cut             \* ghost: a page came without a body

page_vars == <<live, fetch, page, all, stayed, shrunk, grown, cut>>

PagesInit ==
    /\ live \in {s \in SeqOf(Records, Cardinality(Records)) : IsInjective(s)}
    /\ fetch = "paging" /\ page = 1 /\ all = <<>>
    /\ stayed = Range(live) /\ shrunk = FALSE /\ grown = FALSE /\ cut = FALSE

FirstOnPageAgain ==   \* mutant: a page starts with the last record of the one before
    Max({1, (page - 1) * PageSize})
FirstOnPage == (page - 1) * PageSize + 1
OnPage == SubSeq(live, FirstOnPage, Min({page * PageSize, Len(live)}))

(* The last page is the one that completes the total that came with it, or *)
(* the first one without records.                                          *)
LastPageRounded(total, records) ==    \* mutant: counts pages, rounding down
    page >= total \div PageSize \/ records = <<>>
LastPage(total, records) == Len(all \o records) >= total \/ records = <<>>

Received(total, records) ==
    /\ fetch = "paging"
    /\ all' = all \o records
    /\ IF LastPage(total, records)
       THEN fetch' = "done" /\ page' = page
       ELSE fetch' = fetch /\ page' = page + 1

PageFetched ==
    /\ Received(Len(live), OnPage)
    /\ UNCHANGED <<live, stayed, shrunk, grown, cut>>

(* An empty body decodes to a page without records and a total of zero.    *)
PageEmptyBody ==
    /\ "emptyBody" \in PageFaults
    /\ Received(0, <<>>)
    /\ cut' = TRUE
    /\ UNCHANGED <<live, stayed, shrunk, grown>>

PageFails ==
    /\ "page" \in PageFaults
    /\ fetch = "paging"
    /\ fetch' = "failed" /\ all' = <<>>
    /\ UNCHANGED <<live, page, stayed, shrunk, grown, cut>>

(* External: downloads come and go while the pages are fetched.            *)
RecordArrives ==
    /\ fetch = "paging"
    /\ \E r \in Records \ Range(live), n \in 1..Len(live) + 1 : live' = InsertAt(live, n, r)
    /\ grown' = TRUE
    /\ UNCHANGED <<fetch, page, all, stayed, shrunk, cut>>

RecordLeaves ==
    /\ fetch = "paging"
    /\ \E n \in 1..Len(live) : /\ live' = RemoveAt(live, n)
                               /\ stayed' = stayed \ {live[n]}
    /\ shrunk' = TRUE
    /\ UNCHANGED <<fetch, page, all, grown, cut>>

Paging == PageFetched \/ PageEmptyBody \/ PageFails
PagesNext == Paging \/ RecordArrives \/ RecordLeaves

-----------------------------------------------------------------------------
(* Queue "fetches the entire download queue": exactly it, in its order,    *)
(* each record once, if it stood still.                                    *)
SteadyComplete == fetch = "done" /\ ~shrunk /\ ~grown /\ ~cut => all = live

(* A record that was in the queue all the time is listed, whatever else    *)
(* leaves or arrives meanwhile.                                            *)
StayedListed == fetch = "done" /\ ~cut => stayed \subseteq Range(all)
=============================================================================
