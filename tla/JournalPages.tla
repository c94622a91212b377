----------------------------- MODULE JournalPages -----------------------------
(***************************************************************************)
(* The ledger's transaction history: a client reads TransactionsView page by    *)
(* page, along the "next" cursors, while consumers keep committing entries.      *)
(* The order is by created_at alone, so the database may list entries of one     *)
(* stamp differently at every request.  The cursor itself is the REST            *)
(* framework's CursorPagination.                                             *)
(***************************************************************************)
EXTENDS Naturals, Sequences, FiniteSetsExt, Functions

CONSTANTS
    Tenants,
    Reader,         \* the tenant of the client's token
    Stamps,         \* values of created_at
    PageSize,       \* page_size
    NoPosition,     \* None, the cursor of a request without one
    MaxEntries      \* bound: entries of the journal

ASSUME PagesAssumption ==
    /\ Stamps \subseteq Nat
    /\ PageSize \in Nat \ {0}
    /\ NoPosition \notin Nat

VARIABLES
    entries,        \* journal_entry: [tenant, stamp], in the order of the commits
    cursor,         \* [position, offset] of the next request
    shown,          \* the entries (their numbers) shown so far, in order
    walk,           \* the client's walk: "fresh", "reading" or "ended"
    began,          \* history: the length of the journal at the first request
    split           \* history: a page ended between two entries of one stamp

historyVars == <<entries, cursor, shown, walk, began, split>>

HistoryInit ==
    /\ entries = << >>
    /\ cursor = [position |-> NoPosition, offset |-> 0]
    /\ shown = << >>
    /\ walk = "fresh"
    /\ began = 0
    /\ split = FALSE

StampOf(n) == entries[n].stamp

(* A consumer commits an entry.  created_at was set before the commit, on the    *)
(* consumer's clock, so it need not be the latest.                            *)
CommitEntry(tenant, stamp) ==
    /\ Len(entries) < MaxEntries
    /\ entries' = Append(entries, [tenant |-> tenant, stamp |-> stamp])
    /\ UNCHANGED <<cursor, shown, walk, began, split>>

(* The tenant's entries that come after the cursor's position.                *)
Matching == {n \in DOMAIN entries :
                /\ entries[n].tenant = Reader
                /\ cursor.position = NoPosition \/ StampOf(n) < cursor.position}

(* ORDER BY created_at DESC: newest first, equal stamps in any order.          *)
Listings(S) == {l \in Bijection(1..Cardinality(S), S) :
                  \A i, j \in DOMAIN l : i < j => StampOf(l[i]) >= StampOf(l[j])}

Page(l) == SubSeq(l, cursor.offset + 1, Min({cursor.offset + PageSize, Len(l)}))

(* One row more than the page is fetched to see whether there is a next one.    *)
HasNext(l) == Len(l) > cursor.offset + PageSize
Following(l) == StampOf(l[cursor.offset + PageSize + 1])

(* Mutants: LIMIT and OFFSET, a count of the entries read; a position alone.     *)
NextCursor_ByCount(l) == [cursor EXCEPT !.offset = @ + PageSize]
NextCursor_NoOffset(l) ==
    LET apart == {k \in 1..PageSize : StampOf(l[cursor.offset + k]) # Following(l)}
    IN  [position |-> IF apart = {} THEN cursor.position
                      ELSE StampOf(l[cursor.offset + Max(apart)]),
         offset |-> 0]

(* The position is the last stamp of the page that the next entry does not share, *)
(* the offset how many of the page come after it.                             *)
NextCursor(l) ==
    LET apart == {k \in 1..PageSize : StampOf(l[cursor.offset + k]) # Following(l)}
    IN  IF apart = {}
        THEN [cursor EXCEPT !.offset = @ + PageSize]
        ELSE [position |-> StampOf(l[cursor.offset + Max(apart)]),
              offset |-> PageSize - Max(apart)]

(* A request with the cursor in hand; the answer's cursor is that of the next.   *)
ReadPage(l) ==
    /\ shown' = shown \o Page(l)
    /\ IF HasNext(l) THEN cursor' = NextCursor(l) /\ walk' = "reading"
                     ELSE UNCHANGED cursor /\ walk' = "ended"
    /\ began' = IF walk = "fresh" THEN Len(entries) ELSE began
    /\ split' = \/ split
                \/ HasNext(l) /\ StampOf(l[cursor.offset + PageSize]) = Following(l)
    /\ UNCHANGED entries

HistoryNext == \/ \E t \in Tenants, s \in Stamps : CommitEntry(t, s)
               \/ walk # "ended" /\ \E l \in Listings(Matching) : ReadPage(l)

HistorySpec == HistoryInit /\ [][HistoryNext]_historyVars

----------------------------------------------------------------------------
(* What the client's tenant had when the walk began.                        *)
AtStart == {n \in 1..began : entries[n].tenant = Reader}

(* "Stable under inserts" (views.py:27-31): as long as no page has ended between   *)
(* two entries of one stamp, then whatever is committed between two requests, also *)
(* stamped before entries already shown, and in whatever order the database lists  *)
(* equal stamps: only the tenant's entries are shown, none twice, newest first,    *)
(* and a walk to the end has shown all that was there when it began.           *)
PagesStable ==
    ~split =>
        /\ \A i \in DOMAIN shown : entries[shown[i]].tenant = Reader
        /\ \A i, j \in DOMAIN shown :
              i < j => shown[i] # shown[j] /\ StampOf(shown[i]) >= StampOf(shown[j])
        /\ walk = "ended" => \A n \in AtStart : \E i \in DOMAIN shown : shown[i] = n

ArrivesAtHead ==
    \A m \in AtStart : \A n \in (began + 1)..Len(entries) :
        entries[n].tenant = Reader => StampOf(m) < StampOf(n)
Stamped(s) == {n \in AtStart : StampOf(n) = s}
ShownWith(s) == {i \in DOMAIN shown : StampOf(shown[i]) = s}

(* And a page that does end within a stamp costs no more than which of its entries  *)
(* are shown: with new entries only at the head and no more than a page of one     *)
(* stamp, every stamp is shown as often as it was there, in order.  (Which ones,    *)
(* the code leaves open: ordering by created_at alone, views.py:36.)            *)
TiesKeepCount ==
    walk # "fresh" /\ ArrivesAtHead /\ (\A s \in Stamps : Cardinality(Stamped(s)) <= PageSize) =>
        /\ \A i, j \in DOMAIN shown : i < j => StampOf(shown[i]) >= StampOf(shown[j])
        /\ \A s \in Stamps :
             /\ Cardinality(ShownWith(s)) <= Cardinality(Stamped(s))
             /\ walk = "ended" => Cardinality(ShownWith(s)) = Cardinality(Stamped(s))
=============================================================================
