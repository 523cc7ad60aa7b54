----------------------------- MODULE AdminLists -----------------------------
(***************************************************************************)
(* The paged collections of the administration API of api-user: users,     *)
(* audit entries and e-mail templates, which MongoDB pages, and the        *)
(* parameters, roles and permissions, which are sliced from an array       *)
(* (user.repository.ts, audit-log.repository.ts,                           *)
(* email-template.repository.ts, parameter.service.ts, rbac-pagination.ts, *)
(* paginated-response.dto.ts), with the CSV export and the metrics of the  *)
(* users.                                                                  *)
(*                                                                         *)
(* A walker, the administration console, asks for page 1, 2, ... up to the *)
(* totalPages of the last answer, while others write.  Each page is two    *)
(* queries that run at the same time, the documents and their number; the  *)
(* sort has no tie-breaker, so documents with equal keys may come in       *)
(* another order in every query.  A write is one step here; UserLifecycle, *)
(* EmailPipeline and RequestPipeline model what leads to it.               *)
(***************************************************************************)
EXTENDS Integers, FiniteSets, Sequences

CONSTANTS
    Lists,          \* the collections to consider
    Names,          \* what a search tells apart, in the order of the sort
    Searches,       \* the names to search for
    Limits,         \* the page sizes to consider, of 1..100
    Days,           \* METRICS_WINDOW_DAYS, in ticks
    MaxDocs,        \* bound on the documents ever created
    InitialDocs,    \* bound on those there at the start
    MaxTime,        \* bound on the clock
    MaxWrites,      \* bound on the writes
    Nothing         \* a query that has not answered, no file

Paged == {"users", "audit", "templates"}
Sliced == {"parameters", "roles"}

ASSUME ConstantsAssumption ==
    /\ Lists \subseteq Paged \cup Sliced
    /\ Names \subseteq Nat /\ Searches \subseteq Names
    /\ Limits \subseteq 1..100
    /\ {Days, MaxDocs, InitialDocs, MaxTime, MaxWrites} \subseteq Nat
    /\ Days > 0 /\ MaxTime >= 2 * Days
    /\ MaxDocs > 0 /\ InitialDocs <= MaxDocs

VARIABLES
    list,           \* the collection
    docs,           \* its documents, in the order of their creation
    now,
    walk,           \* the walker
    writes

\* History of the walk: how often each document was returned, those that
\* matched at its start, and what has happened to the matches since.  And the
\* metrics of a month ago.
VARIABLES times, initial, moves, report

past == <<times, initial, moves>>
vars == <<list, docs, now, walk, writes, past, report>>

-----------------------------------------------------------------------------
(* Queries and their answers                                               *)

Document == [name : Names, active : BOOLEAN, created : 0..MaxTime,
             state : {"live", "deleted", "gone"}]

\* What each list can be asked for; active is "any" when the filter is absent.
UserQueries ==
    [sortBy : {"name", "createdAt"}, order : {"asc", "desc"},
     active : {"any", "yes", "no"}, search : Searches \cup {Nothing},
     limit : Limits]

AuditQueries ==
    [sortBy : {"createdAt"}, order : {"desc"}, active : {"any"},
     search : Searches \cup {Nothing}, limit : Limits]

\* The controller takes false for absent.
TemplateQueries ==
    [sortBy : {"createdAt"}, order : {"desc"}, active : {"any", "yes"},
     search : {Nothing}, limit : Limits]

CollectionQueries ==
    [sortBy : {"position"}, order : {"asc"}, active : {"any"},
     search : {Nothing}, limit : Limits]

Queries ==
    CASE list = "users" -> UserQueries
      [] list = "audit" -> AuditQueries
      [] list = "templates" -> TemplateQueries
      [] OTHER -> CollectionQueries

\* buildListFilter: soft-deleted users are left out unless isActive is given.
Matches(q, d) ==
    /\ d.state # "gone"
    /\ q.active = "any" => d.state = "live"
    /\ q.active # "any" => d.active = (q.active = "yes")
    /\ q.search \in {Nothing, d.name}

Matching(q) == {i \in DOMAIN docs : Matches(q, docs[i])}

Key(q, i) ==
    CASE q.sortBy = "name" -> docs[i].name
      [] q.sortBy = "createdAt" -> docs[i].created
      [] OTHER -> i

Precedes(q, i, j) ==
    IF q.order = "asc" THEN Key(q, i) < Key(q, j) ELSE Key(q, i) > Key(q, j)

Tied(q) == \E i, j \in Matching(q) : i # j /\ Key(q, i) = Key(q, j)

Least(m, n) == IF m <= n THEN m ELSE n

\* Mutant of Skip: pages are taken for single documents.
SkipSingly(q, page) == page - 1

Skip(q, page) == (page - 1) * q.limit

\* sort, skip and limit: some documents are skipped and the next ones returned,
\* in one of the orders the sort allows.
Pages(q, page) ==
    LET all == Matching(q)
        skipped == Least(Skip(q, page), Cardinality(all))
        size == Least(q.limit, Cardinality(all) - skipped)
        First(S, T) == \A i \in S, j \in T \ S : ~Precedes(q, j, i)
    IN  {data \in SUBSET all :
            /\ Cardinality(data) = size
            /\ \E before \in SUBSET (all \ data) :
                 /\ Cardinality(before) = skipped
                 /\ First(before, all) /\ First(data, all \ before)}

\* Mutant of TotalPages: a last page that is not full is not counted.
TotalPagesDown(total, q) == total \div q.limit

\* PaginatedResponseDTO.of
TotalPages(total, q) == (total + q.limit - 1) \div q.limit

-----------------------------------------------------------------------------
(* The walker                                                              *)

NoReport == [at |-> 0, recent |-> 0, same |-> FALSE, agrees |-> TRUE]

Unasked == [pc |-> "idle", query |-> Nothing, page |-> 0,
            data |-> Nothing, total |-> Nothing]

\* The initial documents are what earlier writes left: a walk may come first.
Ask(q) ==
    /\ walk.pc = "idle" /\ writes = 0 /\ ~report.same
    /\ walk' = [Unasked EXCEPT !.pc = "asking", !.query = q, !.page = 1]
    /\ times' = [i \in 1..MaxDocs |-> 0]
    /\ initial' = Matching(q)
    /\ moves' = IF Tied(q) THEN {"tied"} ELSE {}
    /\ UNCHANGED <<list, docs, now, writes, report>>

\* The two queries of findPaginated, in either order.
Find ==
    /\ walk.pc = "asking" /\ list \in Paged
    /\ walk.data = Nothing
    /\ \E data \in Pages(walk.query, walk.page) :
         walk' = [walk EXCEPT !.data = data]
    /\ UNCHANGED <<list, docs, now, writes, past, report>>

CountDocuments ==
    /\ walk.pc = "asking" /\ list \in Paged
    /\ walk.total = Nothing
    /\ walk' = [walk EXCEPT !.total = Cardinality(Matching(walk.query))]
    /\ UNCHANGED <<list, docs, now, writes, past, report>>

\* The slice of an array, and its length.  The arrays of roles and permissions
\* come from the cache, whose staleness AccessCache models.
Slice ==
    /\ walk.pc = "asking" /\ list \in Sliced
    /\ walk.data = Nothing
    /\ \E data \in Pages(walk.query, walk.page) :
         walk' = [walk EXCEPT !.data = data,
                              !.total = Cardinality(Matching(walk.query))]
    /\ UNCHANGED <<list, docs, now, writes, past, report>>

\* Mutant of Answer: one page too many is asked for.
AnswerThenOneMore ==
    /\ walk.pc = "asking"
    /\ walk.data # Nothing /\ walk.total # Nothing
    /\ times' = [i \in DOMAIN times |->
                   IF i \in walk.data THEN times[i] + 1 ELSE times[i]]
    /\ IF walk.page <= TotalPages(walk.total, walk.query)
       THEN walk' = [walk EXCEPT !.page = @ + 1,
                                 !.data = Nothing, !.total = Nothing]
       ELSE walk' = [walk EXCEPT !.pc = "done"]
    /\ UNCHANGED <<list, docs, now, writes, initial, moves, report>>

\* The answer, and the walker's next page.
Answer ==
    /\ walk.pc = "asking"
    /\ walk.data # Nothing /\ walk.total # Nothing
    /\ times' = [i \in DOMAIN times |->
                   IF i \in walk.data THEN times[i] + 1 ELSE times[i]]
    /\ IF walk.page < TotalPages(walk.total, walk.query)
       THEN walk' = [walk EXCEPT !.page = @ + 1,
                                 !.data = Nothing, !.total = Nothing]
       ELSE walk' = [walk EXCEPT !.pc = "done"]
    /\ UNCHANGED <<list, docs, now, writes, initial, moves, report>>

\* findAllFiltered, the rows of the CSV export.
Exported(q) == Matching(q)

-----------------------------------------------------------------------------
(* The metrics of the users                                                *)

Kept == {i \in DOMAIN docs : docs[i].state = "live"}

CreatedIn(from, to) ==
    {i \in Kept : docs[i].created >= from /\ docs[i].created < to}

\* Mutant of Metrics: the windows share a day.
MetricsOverlapping ==
    [total |-> Cardinality(Kept),
     active |-> Cardinality({i \in Kept : docs[i].active}),
     recent |-> Cardinality(CreatedIn(now - Days, now)),
     previous |-> Cardinality(CreatedIn(now - 2 * Days, now - Days + 1))]

\* aggregateMetrics
Metrics ==
    [total |-> Cardinality(Kept),
     active |-> Cardinality({i \in Kept : docs[i].active}),
     recent |-> Cardinality(CreatedIn(now - Days, now)),
     previous |-> Cardinality(CreatedIn(now - 2 * Days, now - Days))]

\* Before any walk a report is remembered until one is taken Days later; it is
\* the same as long as no user it counts as new is deleted.
GetMetrics ==
    /\ list = "users" /\ walk.pc = "idle"
    /\ report.same => now >= report.at + Days
    /\ report' = [at |-> now, recent |-> Metrics.recent, same |-> TRUE,
                  agrees |-> report.same /\ now = report.at + Days
                               => Metrics.previous = report.recent]
    /\ UNCHANGED <<list, docs, now, walk, writes, past>>

-----------------------------------------------------------------------------
(* Writes and time                                                         *)

\* The documents change to new, and with them the matches of the walk.
Change(new) ==
    LET q == walk.query
        Was(i) == i \in DOMAIN docs /\ Matches(q, docs[i])
        Is(i) == Matches(q, new[i])
        SortKey(d) == IF q.sortBy = "name" THEN d.name ELSE d.created
    IN  /\ writes < MaxWrites /\ walk.pc # "done"
        /\ writes' = writes + 1
        /\ docs' = new
        /\ moves' =
             IF walk.pc = "idle" THEN moves
             ELSE moves
                  \cup {m \in {"created"} :
                          \E i \in DOMAIN new \ DOMAIN docs : Is(i)}
                  \cup {m \in {"entered"} :
                          \E i \in DOMAIN docs : ~Was(i) /\ Is(i)}
                  \cup {m \in {"left"} :
                          \E i \in DOMAIN docs : Was(i) /\ ~Is(i)}
                  \cup {m \in {"moved"} : \E i \in DOMAIN docs :
                          Is(i) /\ SortKey(new[i]) # SortKey(docs[i])}
                  \cup {m \in {"tied"} : \E i, j \in DOMAIN new :
                          i # j /\ Is(i) /\ Is(j)
                            /\ SortKey(new[i]) = SortKey(new[j])}
        /\ UNCHANGED <<list, now, walk, times, initial>>

Create(name, active) ==
    /\ list \in Paged /\ Len(docs) < MaxDocs
    /\ list # "users" => active
    /\ Change(Append(docs, [name |-> name, active |-> active, created |-> now,
                            state |-> "live"]))
    /\ UNCHANGED report

\* Administrators toggle users, or edit isActive of a template; a verification
\* link or a toggle that read before activates even a deleted user.
SetActive(i, active) ==
    /\ list \in {"users", "templates"} /\ docs[i].state # "gone"
    /\ docs[i].active # active
    /\ Change([docs EXCEPT ![i].active = active])
    /\ UNCHANGED report

Rename(i, name) ==
    /\ list = "users"
    /\ docs[i].name # name
    /\ Change([docs EXCEPT ![i].name = name])
    /\ UNCHANGED report

SoftDelete(i) ==
    /\ list = "users" /\ docs[i].state = "live"
    /\ Change([docs EXCEPT ![i].state = "deleted", ![i].active = FALSE])
    /\ report' = [report EXCEPT !.same = @ /\ ~(docs[i].created < report.at
                                   /\ docs[i].created >= report.at - Days)]

\* deleteBySlug, and the TTL index of the audit entries, oldest first.
Remove(i) ==
    /\ \/ list = "templates"
       \/ list = "audit" /\ \A j \in 1..(i - 1) : docs[j].state = "gone"
    /\ docs[i].state # "gone"
    /\ Change([docs EXCEPT ![i].state = "gone"])
    /\ UNCHANGED report

\* A tick is long, 30 days when Days is 1: none passes during a walk.
Tick ==
    /\ now < MaxTime
    /\ walk.pc = "idle"
    /\ now' = now + 1
    /\ UNCHANGED <<list, docs, walk, writes, past, report>>

Init ==
    /\ list \in Lists
    /\ now = MaxTime - Days
    /\ docs \in UNION {[1..n -> {d \in Document : d.created < now}] :
                         n \in 0..InitialDocs}
    /\ \A i \in DOMAIN docs :
         /\ docs[i].state = "deleted" => list = "users" /\ ~docs[i].active
         /\ docs[i].state = "gone" => docs[i].active /\ list # "users"
         /\ ~docs[i].active => list \in {"users", "templates"}
    /\ \A i \in DOMAIN docs : \A j \in 1..i : docs[j].created <= docs[i].created
    /\ walk = Unasked
    /\ writes = 0
    /\ times = [i \in 1..MaxDocs |-> 0]
    /\ initial = {} /\ moves = {}
    /\ report = NoReport

Next ==
    \/ \E q \in Queries : Ask(q)
    \/ Find \/ CountDocuments \/ Slice \/ Answer
    \/ GetMetrics
    \/ \E name \in Names, active \in BOOLEAN : Create(name, active)
    \/ \E i \in DOMAIN docs :
        \/ \E active \in BOOLEAN : SetActive(i, active)
        \/ \E name \in Names : Rename(i, name)
        \/ SoftDelete(i)
        \/ Remove(i)
    \/ Tick

Spec == Init /\ [][Next]_vars

-----------------------------------------------------------------------------
(* Properties                                                              *)

Moves == {"created", "entered", "left", "moved", "tied"}

TypeOK ==
    /\ list \in Lists
    /\ docs \in Seq(Document) /\ Len(docs) <= MaxDocs
    /\ now \in 0..MaxTime /\ writes \in 0..MaxWrites
    /\ walk.pc \in {"idle", "asking", "done"}
    /\ walk.pc # "idle" =>
         /\ walk.query \in Queries /\ walk.page \in 1..MaxDocs
         /\ walk.page > 1 => Skip(walk.query, walk.page) < MaxDocs
    /\ walk.data = Nothing \/ walk.data \subseteq DOMAIN docs
    /\ walk.total = Nothing \/ walk.total \in 0..MaxDocs
    /\ times \in [1..MaxDocs -> 0..MaxDocs]
    /\ moves \subseteq Moves

Returned == {i \in DOMAIN times : times[i] > 0}

\* A walk during which nothing happens to its matches, with no two of equal
\* keys, returns each of them exactly once, under a total that counts them, and
\* the CSV export of the same filters has the same users ("the CSV export must
\* return every user matching the list filters", the buildListFilter of both
\* "can never drift apart").
UndisturbedWalkExact ==
    walk.pc = "done" /\ moves = {} =>
        /\ \A i \in DOMAIN times : times[i] = IF i \in initial THEN 1 ELSE 0
        /\ walk.total = Cardinality(initial)
        /\ list = "users" => Exported(walk.query) = Returned

\* A disturbed walk.  Documents that leave the matches move the others to earlier
\* pages: some may be skipped, and none is returned twice.  New documents in
\* ascending order of creation go to the end: every document that matched at the
\* start is returned exactly once, although the number of documents and the page
\* are read at two moments (Promise.all in findPaginated).
DisturbedWalkBounded ==
    /\ moves \subseteq {"left"} => \A i \in DOMAIN times : times[i] <= 1
    /\ /\ walk.pc = "done" /\ moves \subseteq {"created"}
       /\ walk.query.sortBy = "createdAt" /\ walk.query.order = "asc"
       => \A i \in initial : times[i] = 1

\* The metrics count the users that the unfiltered list and the list of the
\* active ones return, deleted ones left out ("same rule as the list"); and the
\* new users of the last 30 days are, 30 days later, those of the 30 before: no
\* user is in both windows or in none.
MetricsAgree ==
    /\ /\ walk.pc = "done" /\ moves = {}
       /\ list = "users" /\ walk.query.search = Nothing
       => /\ walk.query.active = "any" => Metrics.total = Cardinality(Returned)
          /\ walk.query.active = "yes" =>
               Metrics.active =
                 Cardinality({i \in Returned : docs[i].state = "live"})
    /\ report.agrees

-----------------------------------------------------------------------------
(* Inductive strengthenings, proved in AdminListsProofs                    *)

WalkType ==
    walk \in [pc : {"idle", "asking", "done"}, query : Queries \cup {Nothing},
              page : Nat, data : (SUBSET (1..MaxDocs)) \cup {Nothing},
              total : (0..MaxDocs) \cup {Nothing}]

\* The first page that has not been answered.
NextPage == IF walk.pc = "done" THEN walk.page + 1 ELSE walk.page

TypeInv ==
    /\ TypeOK
    /\ WalkType
    /\ report \in [at : Nat, recent : Nat, same : BOOLEAN, agrees : BOOLEAN]
    /\ \A i \in DOMAIN docs : docs[i].created <= now
    /\ walk.pc # "idle" => /\ \A i \in 1..MaxDocs : times[i] <= NextPage - 1
                           /\ initial \subseteq DOMAIN docs

\* The place of document i among the matches of q, and whether that is on page.
Rank(q, i) == Cardinality({j \in Matching(q) : Precedes(q, j, i)})

OnPage(q, page, i) == /\ Skip(q, page) <= Rank(q, i)
                      /\ Rank(q, i) < Skip(q, page + 1)

\* The walks of which completeness is promised.
Steady ==
    \/ moves = {}
    \/ /\ moves \subseteq {"created"}
       /\ walk.query.sortBy = "createdAt" /\ walk.query.order = "asc"

\* The documents of the start keep their places, so that those on the pages
\* answered so far, and no others, have been returned.
SteadyInv ==
    \A q \in {walk.query} :
        walk.pc # "idle" /\ Steady =>
          /\ ~Tied(q)
          /\ initial \subseteq Matching(q)
          /\ \A i \in initial, j \in Matching(q) \ initial : Precedes(q, i, j)
          /\ \A i \in initial :
               times[i] = IF Rank(q, i) < Skip(q, NextPage) THEN 1 ELSE 0
          /\ walk.data # Nothing =>
               \A i \in initial : i \in walk.data <=> OnPage(q, walk.page, i)
          /\ walk.total # Nothing => Cardinality(initial) <= walk.total
          /\ walk.pc = "done" => /\ walk.total # Nothing
                                 /\ walk.total <= Skip(q, NextPage)

\* Without any new match either, nothing else has been returned.
StillInv ==
    walk.pc # "idle" /\ moves = {} =>
      /\ \A q \in {walk.query} : initial = Matching(q)
      /\ \A i \in (1..MaxDocs) \ initial : times[i] = 0
      /\ walk.data # Nothing => walk.data \subseteq initial
      /\ walk.total # Nothing => walk.total = Cardinality(initial)

\* Matches that leave move the others to earlier places: what has been returned
\* is never found on a later page.
LeavingInv ==
    moves \subseteq {"left"} =>
      /\ \A i \in 1..MaxDocs : times[i] <= 1
      /\ \A q \in {walk.query} : walk.pc # "idle" =>
           /\ ~Tied(q)
           /\ \A i \in Matching(q) :
                times[i] > 0 => Rank(q, i) < Skip(q, NextPage)
           /\ walk.pc = "asking" /\ walk.data # Nothing =>
                \A i \in walk.data :
                  /\ times[i] = 0
                  /\ i \in Matching(q) => Rank(q, i) < Skip(q, walk.page + 1)

\* A remembered report counts the users that are still there.
ReportInv ==
    /\ report.agrees
    /\ report.same =>
         /\ list = "users"
         /\ report.at <= now
         /\ \A at \in {report.at} :
              report.recent = Cardinality(CreatedIn(at - Days, at))
=============================================================================
