------------------------------- MODULE Paging -------------------------------
(***************************************************************************)
(* Lists that are read page by page while rows come, change and go.  A     *)
(* page query fetches limit + 1 rows beyond the cursor's key; the extra    *)
(* row only tells that there is more, and the last row that is returned    *)
(* becomes the cursor.  Only the Desktop instance list counts rows from    *)
(* the top instead (OFFSET).  A row is its sort key, its id, and whether   *)
(* it passes the list's filter.                                            *)
(***************************************************************************)
EXTENDS Integers, FiniteSets

CONSTANTS Id,           \* row ids, numbers in the order of the uuids
          MaxTime,      \* times are 1..MaxTime
          PageLimit,    \* page sizes that are asked for
          CursorKey     \* keys of the ring that signs cursors

ASSUME PageParameters == Id \subseteq Int /\ IsFiniteSet(Id) /\ MaxTime \in Nat /\ PageLimit \subseteq Nat \ {0}

VARIABLES entry,        \* the rows
          walk,         \* a reader on the way through the list
          got,          \* how often a row was returned to it
          stirred,      \* rows that changed since it began
          cursorRing     \* the keys the servers still know

pageVars == <<entry, walk, got, stirred, cursorRing>>

NoEntry == [state |-> "none"]
Removed == [state |-> "removed"]
NoKey == "none"
First == [at |-> 0, id |-> 0]       \* no cursor yet
Last == [at |-> 0, id |-> -1]       \* no further page

Stored == {i \in Id : entry[i] \notin {NoEntry, Removed}}
Matching == {i \in Stored : entry[i].match}

\* PagePosition
Position(i) == [at |-> entry[i].at, id |-> i]

Newer(i, j) == entry[i].at > entry[j].at \/ (entry[i].at = entry[j].at /\ i > j)
Smallest(i, j) == i < j
Largest(i, j) == i > j

\* The first n rows in an order
Top(rows, Precedes(_, _), n) == {i \in rows : Cardinality({j \in rows : Precedes(j, i)}) < n}

\* retainUserPage and its likes: one row more than the page has was fetched, and
\* tells whether there is a next page, which begins after the last row kept.
retainPage(fetched, items, last) ==
    [items |-> items, next |-> IF fetched = items THEN Last ELSE Position(last)]

\* ORDER BY ... LIMIT limit + 1
fetchPage(rows, Precedes(_, _), limit) ==
    LET items == Top(rows, Precedes, limit)
    IN retainPage(Top(rows, Precedes, limit + 1), items,
                  CHOOSE i \in items : \A j \in items \ {i} : Precedes(j, i))

\* A mutant: only what is older than the cursor's time is still to come.
strictlyOlder(i, after) == after = First \/ entry[i].at < after.at

\* (key, id) < (after.key, after.id)
olderThan(i, after) ==
    after = First \/ entry[i].at < after.at \/ (entry[i].at = after.at /\ i < after.id)

newestFirst(rows, after, limit) == fetchPage({i \in rows : olderThan(i, after)}, Newer, limit)
byID(rows, after, limit) == fetchPage({i \in rows : after = First \/ i > after.id}, Smallest, limit)

-----------------------------------------------------------------------------
(* The lists *)

\* internal/admin/control_repository.go: users by creation with a status filter,
\* a user's devices by last_seen_at, which moves, their sessions by issue, and
\* the audit events of official agents
ListUsers(after, limit) == newestFirst(Matching, after, limit)
ListUserDevices(after, limit) == newestFirst(Stored, after, limit)
ListUserSessions(after, limit) == newestFirst(Stored, after, limit)
ListOfficialAuditEvents(after, limit) == newestFirst(Matching, after, limit)

\* internal/organization: an organization's audit events
ListAudit(after, limit) == newestFirst(Stored, after, limit)

\* internal/officialquality: the daily aggregates with enough subjects, and proposals
ListAggregates(after, limit) == newestFirst(Matching, after, limit)
ListProposals(after, limit) ==
    fetchPage({i \in Matching : after = First \/ i < after.id}, Largest, limit)

\* internal/agentcontrol/platform_repository.go, by id
ListPlatformDefinitions(after, limit) == byID(Stored, after, limit)
ListPlatformDrafts(after, limit) == byID(Stored, after, limit)
ListPlatformSubmissions(after, limit) == byID(Matching, after, limit)
ListPlatformVersions(after, limit) == byID(Stored, after, limit)
ListOfficialReleases(after, limit) == byID(Stored, after, limit)

\* internal/desktopcontrol: ORDER BY updated_at DESC, device_id LIMIT and OFFSET;
\* the cursor's id is the offset, and the total tells when to stop.
ListInstancesFrom(after, limit) ==
    LET Precedes(i, j) == entry[i].at > entry[j].at \/ (entry[i].at = entry[j].at /\ i < j)
        reached == after.id + limit
    IN [items |-> Top(Matching, Precedes, reached) \ Top(Matching, Precedes, after.id),
        next |-> IF reached < Cardinality(Matching) THEN [at |-> 0, id |-> reached] ELSE Last]

ByTime == {"users", "devices", "sessions", "official audit", "audit", "aggregates"}
ByID == {"proposals", "definitions", "drafts", "submissions", "versions", "releases"}
ByOffset == {"instances"}
Lists == ByTime \cup ByID \cup ByOffset
Moving == {"devices", "instances"}      \* lists whose sort key changes

Page(list, after, limit) ==
    CASE list = "users" -> ListUsers(after, limit)
      [] list = "devices" -> ListUserDevices(after, limit)
      [] list = "sessions" -> ListUserSessions(after, limit)
      [] list = "official audit" -> ListOfficialAuditEvents(after, limit)
      [] list = "audit" -> ListAudit(after, limit)
      [] list = "aggregates" -> ListAggregates(after, limit)
      [] list = "proposals" -> ListProposals(after, limit)
      [] list = "definitions" -> ListPlatformDefinitions(after, limit)
      [] list = "drafts" -> ListPlatformDrafts(after, limit)
      [] list = "submissions" -> ListPlatformSubmissions(after, limit)
      [] list = "versions" -> ListPlatformVersions(after, limit)
      [] list = "releases" -> ListOfficialReleases(after, limit)
      [] list = "instances" -> ListInstancesFrom(after, limit)

Filtered == {"users", "official audit", "aggregates", "proposals", "submissions", "instances"}
Listed(list) == IF list \in Filtered THEN Matching ELSE Stored

-----------------------------------------------------------------------------
(* A reader, and what happens meanwhile *)

\* EncodeCursor signs the position with the active key, for one list; DecodeCursor
\* needs that key.  The lists of other components sign nothing.
Signed == {"users", "devices", "sessions", "official audit"}
EncodeCursor(list, position, k) == [list |-> list, position |-> position, key |-> k]
DecodeCursor(list, cursor) ==
    /\ cursor.list = list
    /\ list \in Signed => cursor.key \in cursorRing \cup {NoKey}

\* The first request carries no cursor.
beginWalk(list, limit) ==
    /\ walk.phase = "idle"
    /\ walk' = [phase |-> "reading", limit |-> limit, from |-> Listed(list), left |-> FALSE,
                cursor |-> EncodeCursor(list, First, NoKey)]
    /\ UNCHANGED <<entry, got, stirred, cursorRing>>

\* decodePageRequest, the query, and toControlPage
readPage(k) ==
    LET list == walk.cursor.list
        page == Page(list, walk.cursor.position, walk.limit)
    IN /\ walk.phase = "reading" /\ DecodeCursor(list, walk.cursor) /\ k \in cursorRing
       /\ got' = [i \in Id |-> IF i \in page.items THEN got[i] + 1 ELSE got[i]]
       /\ walk' = [walk EXCEPT !.cursor = EncodeCursor(list, page.next, k),
                               !.phase = IF page.next = Last THEN "done" ELSE "reading"]
       /\ UNCHANGED <<entry, stirred, cursorRing>>

\* ErrInvalidCursor: the reader starts again.
cursorRefused ==
    /\ walk.phase = "reading" /\ ~DecodeCursor(walk.cursor.list, walk.cursor)
    /\ walk' = [walk EXCEPT !.phase = "refused"]
    /\ UNCHANGED <<entry, got, stirred, cursorRing>>

change(i, row) ==
    /\ entry' = [entry EXCEPT ![i] = row]
    /\ stirred' = stirred \cup {i}
    /\ walk' = [walk EXCEPT !.left = @ \/ (i \in Matching /\ (row = Removed \/ ~row.match))]
    /\ UNCHANGED <<got, cursorRing>>

\* A row is committed, perhaps later than rows that carry a later time.
insertEntry(i) == \E at \in 1..MaxTime : entry[i] = NoEntry /\ change(i, [state |-> "row", at |-> at, match |-> TRUE])
refilter(i) == walk.cursor.list \in Filtered /\ i \in Stored /\ change(i, [entry[i] EXCEPT !.match = ~@])
touch(i) ==
    /\ walk.cursor.list \in Moving /\ i \in Stored
    /\ \E at \in (entry[i].at + 1)..MaxTime : change(i, [entry[i] EXCEPT !.at = at])
remove(i) == i \in Stored /\ change(i, Removed)

retireCursorKey(k) ==
    /\ k \in cursorRing /\ cursorRing # {k}
    /\ cursorRing' = cursorRing \ {k}
    /\ UNCHANGED <<entry, walk, got, stirred>>

PgInit ==
    /\ entry \in [Id -> {NoEntry} \cup [state : {"row"}, at : 1..MaxTime, match : {TRUE}]]
    /\ walk = [phase |-> "idle"]
    /\ got = [i \in Id |-> 0]
    /\ stirred = {}
    /\ cursorRing = CursorKey

PgNext ==
    \/ \E list \in Lists, limit \in PageLimit : beginWalk(list, limit)
    \/ \E k \in CursorKey : readPage(k) \/ retireCursorKey(k)
    \/ cursorRefused
    \/ \E i \in Id : walk.phase = "reading" /\ (insertEntry(i) \/ refilter(i) \/ touch(i) \/ remove(i))

PgSpec == PgInit /\ [][PgNext]_pageVars

-----------------------------------------------------------------------------
Walking == walk.phase \in {"reading", "done"}
Pages(list) == Walking /\ walk.cursor.list \in list

\* A reader who went through all pages was given every row that was there from
\* beginning to end, matched the filter and kept its key, whatever was inserted,
\* changed, touched and removed around it; with OFFSET only if no row left the
\* list meanwhile (ListUsers and the other lists, control_repository.go:66).
NothingIsMissed ==
    walk.phase = "done" =>
        \A i \in walk.from \ stirred :
            walk.cursor.list \notin ByOffset \/ ~walk.left => got[i] >= 1

\* No row is given to a reader twice unless its own key changed; with OFFSET
\* only as long as nothing came, went or moved (retainUserPage and its likes).
NothingIsRepeated ==
    /\ Pages(ByTime \cup ByID) => \A i \in Id \ stirred : got[i] <= 1
    /\ Pages(ByID \cup (ByTime \ Moving)) => \A i \in Id : got[i] <= 1
    /\ Pages(ByOffset) /\ stirred = {} => \A i \in Id : got[i] <= 1

\* A reader who follows the cursors to the end has the whole list, once: nothing
\* is missed and nothing is repeated but for rows that themselves changed
\* (retainUserPage and its likes, EncodeCursor and DecodeCursor).
PagesAreComplete == NothingIsMissed /\ NothingIsRepeated
=============================================================================
