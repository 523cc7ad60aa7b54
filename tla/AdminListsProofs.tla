------------------------- MODULE AdminListsProofs -------------------------
(***************************************************************************)
(* Proofs about AdminLists, for every collection and every number of       *)
(* documents, every page size and every window of the metrics.             *)
(***************************************************************************)
EXTENDS AdminLists, FiniteSetTheorems, TLAPS

LEMMA Bounds ==
    /\ Days \in Nat /\ Days > 0
    /\ MaxDocs \in Nat /\ MaxDocs > 0
    /\ InitialDocs \in Nat /\ InitialDocs <= MaxDocs
    /\ MaxTime \in Nat /\ MaxTime >= 2 * Days
    /\ MaxWrites \in Nat
    /\ \A n \in Names : n \in Nat
    /\ \A t \in 0..MaxTime : t \in Nat
BY ConstantsAssumption

(***************************************************************************)
(* Pages.  In an order without ties the documents of a page are those      *)
(* whose place among the matches lies between its bounds, whatever the     *)
(* database returns.                                                       *)
(***************************************************************************)
LEMMA LimitType == \A q \in Queries : q.limit \in 1..100
BY ConstantsAssumption
   DEF Queries, UserQueries, AuditQueries, TemplateQueries, CollectionQueries

LEMMA SkipNext ==
    ASSUME NEW q, q.limit \in 1..100, NEW page \in Nat
    PROVE  /\ q.limit \in Nat
           /\ Skip(q, page) \in Int
           /\ page > 0 => Skip(q, page) \in Nat
           /\ Skip(q, page + 1) = Skip(q, page) + q.limit
           /\ Skip(q, page + 1) = page * q.limit
           /\ Skip(q, 1) = 0
<1> DEFINE n == q.limit
<1>1. n \in Nat
  OBVIOUS
<1> HIDE DEF n
<1>2. /\ (page - 1) * n \in Int
      /\ page > 0 => (page - 1) * n \in Nat
      /\ (page + 1 - 1) * n = (page - 1) * n + n
      /\ (page + 1 - 1) * n = page * n
      /\ (1 - 1) * n = 0
  BY <1>1
<1> QED
  BY <1>1, <1>2 DEF Skip, n

\* There is a next page exactly when this one leaves something.
LEMMA LastPage ==
    ASSUME NEW q, q.limit \in 1..100, NEW page \in Nat, NEW total \in Nat
    PROVE  /\ page < TotalPages(total, q) <=> Skip(q, page + 1) < total
           /\ TotalPages(total, q) <= total
<1> DEFINE n == q.limit
           k == (total + n - 1) \div n
<1>1. n \in Nat /\ n > 0
  OBVIOUS
<1> HIDE DEF n
<1>2. page < k <=> page * n < total
  BY <1>1
<1>3. k <= total
  BY <1>1
<1> QED
  BY <1>2, <1>3, SkipNext DEF TotalPages, n

LEMMA KeyType ==
    ASSUME docs \in Seq(Document), NEW q, NEW i \in Matching(q)
    PROVE  Key(q, i) \in Nat
<1>1. i \in Nat /\ docs[i] \in Document
  BY DEF Matching
<1>2. docs[i].name \in Names /\ docs[i].created \in 0..MaxTime
  BY <1>1 DEF Document
<1>3. docs[i].name \in Nat /\ docs[i].created \in Nat
  BY <1>2, Bounds
<1> QED
  BY <1>1, <1>3 DEF Key

\* The matches are finitely many.
LEMMA MatchesFinite ==
    ASSUME docs \in Seq(Document), NEW q
    PROVE  /\ IsFiniteSet(Matching(q))
           /\ Cardinality(Matching(q)) \in 0..Len(docs)
<1>1. Len(docs) \in Nat /\ DOMAIN docs = 1..Len(docs)
  OBVIOUS
<1>2. IsFiniteSet(1..Len(docs)) /\ Cardinality(1..Len(docs)) = Len(docs)
  BY <1>1, FS_Interval
<1>3. Matching(q) \subseteq 1..Len(docs)
  BY <1>1 DEF Matching
<1>4. /\ IsFiniteSet(Matching(q))
      /\ Cardinality(Matching(q)) <= Len(docs)
  BY <1>2, <1>3, FS_Subset
<1>5. Cardinality(Matching(q)) \in Nat
  BY <1>4, FS_CardinalityType
<1> QED
  BY <1>1, <1>4, <1>5

LEMMA RankType ==
    ASSUME docs \in Seq(Document), NEW q, NEW i
    PROVE  /\ IsFiniteSet({j \in Matching(q) : Precedes(q, j, i)})
           /\ Rank(q, i) \in Nat
<1>1. IsFiniteSet({j \in Matching(q) : Precedes(q, j, i)})
  BY MatchesFinite, FS_Subset
<1> QED
  BY <1>1, FS_CardinalityType DEF Rank

\* Without ties the sort is a strict order of the matches.
LEMMA Order ==
    ASSUME docs \in Seq(Document), NEW q
    PROVE  /\ \A i \in Matching(q) : ~Precedes(q, i, i)
           /\ \A i, j \in Matching(q) : Precedes(q, i, j) => ~Precedes(q, j, i)
           /\ ~Tied(q) => \A i, j \in Matching(q) :
                            i = j \/ Precedes(q, i, j) \/ Precedes(q, j, i)
<1>1. \A i \in Matching(q) : Key(q, i) \in Nat
  BY KeyType
<1>2. ~Tied(q) => \A i, j \in Matching(q) : i = j \/ Key(q, i) # Key(q, j)
  BY DEF Tied
<1>3. ASSUME NEW i \in Matching(q), NEW j \in Matching(q)
      PROVE  /\ ~Precedes(q, i, i)
             /\ Precedes(q, i, j) => ~Precedes(q, j, i)
             /\ ~Tied(q) => i = j \/ Precedes(q, i, j) \/ Precedes(q, j, i)
  <2>1. Key(q, i) \in Nat /\ Key(q, j) \in Nat
    BY <1>1
  <2> QED
    BY <1>2, <2>1 DEF Precedes
<1> QED
  BY <1>3

\* What every answer of find is made of.
PageOf(data, before, q, page) ==
    LET all == Matching(q)
        skipped == Least(Skip(q, page), Cardinality(all))
        size == Least(q.limit, Cardinality(all) - skipped)
    IN  /\ data \subseteq all /\ before \subseteq all \ data
        /\ Cardinality(before) = skipped
        /\ Cardinality(data) = size
        /\ \A i \in before, j \in all \ before : ~Precedes(q, j, i)
        /\ \A i \in data, j \in (all \ before) \ data : ~Precedes(q, j, i)

LEMMA PagesAre ==
    ASSUME NEW q, NEW page, NEW data \in Pages(q, page)
    PROVE  \E before : PageOf(data, before, q, page)
BY DEF Pages, PageOf

LEMMA PageByRank ==
    ASSUME docs \in Seq(Document), NEW q, q.limit \in 1..100, ~Tied(q),
           NEW page \in Nat, page > 0, NEW data \in Pages(q, page)
    PROVE  /\ data \subseteq Matching(q)
           /\ \A i \in Matching(q) : i \in data <=> OnPage(q, page, i)
<1> DEFINE all == Matching(q)
           Before(i) == {j \in all : Precedes(q, j, i)}
           n == Cardinality(all)
           skip == Skip(q, page)
           lim == q.limit
<1>1. PICK before : PageOf(data, before, q, page)
  BY PagesAre
<1> DEFINE b == Cardinality(before)
           d == Cardinality(data)
<1>2. /\ data \subseteq all /\ before \subseteq all \ data
      /\ b = Least(skip, n)
      /\ d = Least(lim, n - b)
      /\ \A i \in before, j \in all \ before : ~Precedes(q, j, i)
      /\ \A i \in data, j \in (all \ before) \ data : ~Precedes(q, j, i)
  BY <1>1 DEF PageOf
<1>3. IsFiniteSet(all) /\ n \in Nat
  BY MatchesFinite, FS_CardinalityType
<1>4. skip \in Nat /\ Skip(q, page + 1) = skip + lim /\ lim \in Nat
  <2>1. /\ Skip(q, page) \in Nat
        /\ Skip(q, page + 1) = Skip(q, page) + q.limit
        /\ q.limit \in Nat
    BY SkipNext
  <2> QED
    BY <2>1
<1>5. /\ IsFiniteSet(before) /\ IsFiniteSet(data)
      /\ IsFiniteSet(before \cup data)
      /\ b \in Nat /\ d \in Nat
      /\ Cardinality(before \cup data) = b + d
  <2>1. IsFiniteSet(before) /\ IsFiniteSet(data)
    BY <1>2, <1>3, FS_Subset
  <2>2. Cardinality(before \cap data) = 0
    <3>1. before \cap data = {}
      BY <1>2
    <3> QED
      BY <3>1, FS_EmptySet
  <2>3. b \in Nat /\ d \in Nat
    BY <2>1, FS_CardinalityType
  <2>4. /\ IsFiniteSet(before \cup data)
        /\ Cardinality(before \cup data)
             = b + d - Cardinality(before \cap data)
    BY <2>1, FS_Union
  <2> HIDE DEF b, d
  <2>5. Cardinality(before \cup data) = b + d
    BY <2>2, <2>3, <2>4
  <2> QED
    BY <2>1, <2>3, <2>4, <2>5
<1>6. ASSUME NEW i \in all
      PROVE  /\ IsFiniteSet(Before(i))
             /\ Rank(q, i) = Cardinality(Before(i))
             /\ Rank(q, i) \in Nat
  BY RankType DEF Rank
<1>7. /\ \A i \in all : ~Precedes(q, i, i)
      /\ \A i, j \in all : i = j \/ Precedes(q, i, j) \/ Precedes(q, j, i)
      /\ \A i, j \in all : Precedes(q, i, j) => ~Precedes(q, j, i)
  BY Order
<1>8. ASSUME NEW i \in before PROVE Rank(q, i) < b
  <2>1. i \in all /\ Before(i) \subseteq before \ {i}
    BY <1>2, <1>7, <1>8
  <2>2. /\ IsFiniteSet(before \ {i})
        /\ Cardinality(before \ {i}) = b - 1
    BY <1>5, <1>8, FS_RemoveElement
  <2>3. Cardinality(Before(i)) <= Cardinality(before \ {i})
    BY <2>1, <2>2, FS_Subset
  <2>4. Rank(q, i) = Cardinality(Before(i)) /\ Rank(q, i) \in Nat
    BY <1>6, <2>1
  <2> HIDE DEF b, Before
  <2> QED
    BY <1>5, <2>2, <2>3, <2>4
<1>9. ASSUME NEW i \in data PROVE b <= Rank(q, i) /\ Rank(q, i) < b + d
  <2> DEFINE both == before \cup data
  <2>1. /\ i \in all
        /\ before \subseteq Before(i)
        /\ Before(i) \subseteq both \ {i}
    BY <1>2, <1>7, <1>9
  <2>2. /\ IsFiniteSet(Before(i))
        /\ Rank(q, i) = Cardinality(Before(i)) /\ Rank(q, i) \in Nat
    BY <1>6, <2>1
  <2>3. b <= Cardinality(Before(i))
    BY <2>1, <2>2, FS_Subset
  <2>4. /\ IsFiniteSet(both \ {i})
        /\ Cardinality(both \ {i}) = Cardinality(both) - 1
    <3>1. i \in both
      BY <1>9
    <3> QED
      BY <1>5, <3>1, FS_RemoveElement
  <2>5. Cardinality(Before(i)) <= Cardinality(both \ {i})
    BY <2>1, <2>4, FS_Subset
  <2>6. Cardinality(both) = b + d
    BY <1>5
  <2> HIDE DEF b, d, Before, both
  <2> QED
    BY <1>5, <2>2, <2>3, <2>4, <2>5, <2>6
<1>10. ASSUME NEW i \in all, i \notin before, i \notin data
       PROVE  b + d <= Rank(q, i) /\ b + d < n
  <2> DEFINE both == before \cup data
  <2>1. both \subseteq Before(i) /\ both \subseteq all \ {i}
    BY <1>2, <1>7, <1>10
  <2>2. IsFiniteSet(Before(i)) /\ Rank(q, i) = Cardinality(Before(i))
    BY <1>6
  <2>3. Cardinality(both) <= Cardinality(Before(i))
    BY <2>1, <2>2, FS_Subset
  <2>4. IsFiniteSet(all \ {i}) /\ Cardinality(all \ {i}) = n - 1
    BY <1>3, <1>10, FS_RemoveElement
  <2>5. Cardinality(both) <= Cardinality(all \ {i})
    BY <2>1, <2>4, FS_Subset
  <2>6. Cardinality(both) = b + d
    BY <1>5
  <2> HIDE DEF b, d, n, Before, both
  <2> QED
    BY <1>3, <1>5, <2>2, <2>3, <2>4, <2>5, <2>6
<1>11. ASSUME NEW i \in all
       PROVE  i \in data <=> skip <= Rank(q, i) /\ Rank(q, i) < skip + lim
  <2>1. Rank(q, i) \in Nat
    BY <1>6
  <2>2. \/ Rank(q, i) < b /\ i \notin data
        \/ b <= Rank(q, i) /\ Rank(q, i) < b + d /\ i \in data
        \/ b + d <= Rank(q, i) /\ b + d < n /\ i \notin data
    BY <1>2, <1>8, <1>9, <1>10
  <2>3. /\ Rank(q, i) < b => Rank(q, i) < skip
        /\ b <= Rank(q, i) /\ Rank(q, i) < b + d =>
             skip <= Rank(q, i) /\ Rank(q, i) < skip + lim
        /\ b + d <= Rank(q, i) /\ b + d < n => skip + lim <= Rank(q, i)
    <3> DEFINE rank == Rank(q, i)
    <3>1. /\ rank \in Nat /\ n \in Nat /\ skip \in Nat /\ lim \in Nat
          /\ b \in Nat /\ d \in Nat
          /\ b = Least(skip, n) /\ d = Least(lim, n - b)
      BY <1>2, <1>3, <1>4, <1>5, <2>1
    <3> HIDE DEF b, d, n, skip, lim, rank
    <3>2. /\ rank < b => rank < skip
          /\ b <= rank /\ rank < b + d => skip <= rank /\ rank < skip + lim
          /\ b + d <= rank /\ b + d < n => skip + lim <= rank
      BY <3>1 DEF Least
    <3> QED
      BY <3>2 DEF rank
  <2> HIDE DEF b, d, n, skip, lim
  <2> QED
    BY <1>4, <2>1, <2>2, <2>3
<1> QED
  BY <1>2, <1>4, <1>11 DEF OnPage

-----------------------------------------------------------------------------
(* Types                                                                   *)

\* What the writers have in common: documents are neither dropped nor renumbered,
\* new ones come last and are dated now.
Written(new) ==
    /\ Change(new)
    /\ list \in Paged
    /\ new \in Seq(Document)
    /\ Len(docs) <= Len(new) /\ Len(new) <= MaxDocs
    /\ \A i \in DOMAIN docs : new[i].created = docs[i].created
    /\ \A i \in DOMAIN new \ DOMAIN docs : new[i].created = now

LEMMA Updates ==
    ASSUME docs \in Seq(Document), NEW i \in DOMAIN docs, NEW d \in Document,
           d.created = docs[i].created
    PROVE  LET new == [docs EXCEPT ![i] = d]
           IN  /\ new \in Seq(Document) /\ Len(new) = Len(docs)
               /\ DOMAIN new = DOMAIN docs
               /\ \A j \in DOMAIN docs : new[j].created = docs[j].created
<1> DEFINE new == [docs EXCEPT ![i] = d]
<1>1. new \in Seq(Document) /\ Len(new) = Len(docs)
  OBVIOUS
<1>2. DOMAIN new = DOMAIN docs
  OBVIOUS
<1>3. \A j \in DOMAIN docs : new[j] = IF j = i THEN d ELSE docs[j]
  OBVIOUS
<1> QED
  BY <1>1, <1>2, <1>3

LEMMA WriteIsUpdate ==
    ASSUME TypeOK, NEW i \in DOMAIN docs, NEW d \in Document,
           d.created = docs[i].created,
           Change([docs EXCEPT ![i] = d]), list \in Paged
    PROVE  \E new : Written(new)
<1> DEFINE new == [docs EXCEPT ![i] = d]
<1>1. /\ new \in Seq(Document) /\ Len(new) = Len(docs)
      /\ DOMAIN new = DOMAIN docs
      /\ \A j \in DOMAIN docs : new[j].created = docs[j].created
  BY Updates DEF TypeOK
<1>2. Len(docs) \in Nat /\ Len(docs) <= MaxDocs /\ Change(new)
  BY DEF TypeOK
<1> HIDE DEF new
<1>3. Written(new)
  BY <1>1, <1>2 DEF Written
<1> QED
  BY <1>3

LEMMA CreateIsWrite ==
    ASSUME TypeOK, NEW name \in Names, NEW active \in BOOLEAN,
           Create(name, active)
    PROVE  \E new : Written(new)
<1>1. PICK d : d = [name |-> name, active |-> active, created |-> now,
                    state |-> "live"]
  OBVIOUS
<1>2. d \in Document /\ d.created = now
  BY <1>1 DEF TypeOK, Document
<1> DEFINE new == Append(docs, d)
<1>3. docs \in Seq(Document) /\ Len(docs) \in Nat
  BY DEF TypeOK
<1>4. /\ new \in Seq(Document) /\ Len(new) = Len(docs) + 1
      /\ DOMAIN docs = 1..Len(docs) /\ DOMAIN new = 1..Len(docs) + 1
      /\ \A i \in DOMAIN docs : new[i] = docs[i]
      /\ new[Len(docs) + 1] = d
  BY <1>2, <1>3
<1>5. Change(new) /\ list \in Paged /\ Len(docs) < MaxDocs
  BY <1>1 DEF Create
<1> HIDE DEF new
<1>6. /\ Len(docs) <= Len(new) /\ Len(new) <= MaxDocs
      /\ DOMAIN new \ DOMAIN docs = {Len(docs) + 1}
  BY <1>3, <1>4, <1>5, Bounds
<1>7. Written(new)
  BY <1>2, <1>4, <1>5, <1>6 DEF Written
<1> QED
  BY <1>7

LEMMA Writers ==
    ASSUME TypeOK, NEW i \in DOMAIN docs,
           \/ \E active \in BOOLEAN : SetActive(i, active)
           \/ \E name \in Names : Rename(i, name)
           \/ SoftDelete(i)
           \/ Remove(i)
    PROVE  \E new : Written(new)
<1>1. docs[i] \in Document
  BY DEF TypeOK
<1>2. ASSUME NEW active \in BOOLEAN, SetActive(i, active)
      PROVE  \E new : Written(new)
  <2>1. PICK d : d = [docs[i] EXCEPT !.active = active]
    OBVIOUS
  <2>2. d \in Document /\ d.created = docs[i].created
    BY <1>1, <2>1 DEF Document
  <2>3. Change([docs EXCEPT ![i] = d]) /\ list \in Paged
    BY <1>2, <2>1 DEF SetActive, Paged
  <2> QED
    BY <2>2, <2>3, WriteIsUpdate
<1>3. ASSUME NEW name \in Names, Rename(i, name)
      PROVE  \E new : Written(new)
  <2>1. PICK d : d = [docs[i] EXCEPT !.name = name]
    OBVIOUS
  <2>2. d \in Document /\ d.created = docs[i].created
    BY <1>1, <2>1 DEF Document
  <2>3. Change([docs EXCEPT ![i] = d]) /\ list \in Paged
    BY <1>3, <2>1 DEF Rename, Paged
  <2> QED
    BY <2>2, <2>3, WriteIsUpdate
<1>4. ASSUME SoftDelete(i) PROVE \E new : Written(new)
  <2>1. PICK d : d = [docs[i] EXCEPT !.state = "deleted", !.active = FALSE]
    OBVIOUS
  <2>2. d \in Document /\ d.created = docs[i].created
    BY <1>1, <2>1 DEF Document
  <2>3. [docs EXCEPT ![i].state = "deleted", ![i].active = FALSE]
          = [docs EXCEPT ![i] = d]
    BY <2>1 DEF TypeOK
  <2>4. Change([docs EXCEPT ![i] = d]) /\ list \in Paged
    BY <1>4, <2>3 DEF SoftDelete, Paged
  <2> QED
    BY <2>2, <2>4, WriteIsUpdate
<1>5. ASSUME Remove(i) PROVE \E new : Written(new)
  <2>1. PICK d : d = [docs[i] EXCEPT !.state = "gone"]
    OBVIOUS
  <2>2. d \in Document /\ d.created = docs[i].created
    BY <1>1, <2>1 DEF Document
  <2>3. Change([docs EXCEPT ![i] = d]) /\ list \in Paged
    BY <1>5, <2>1 DEF Remove, Paged
  <2> QED
    BY <2>2, <2>3, WriteIsUpdate
<1> QED
  BY <1>2, <1>3, <1>4, <1>5

\* The five kinds of step, for the walk.
LEMMA StepKinds ==
    ASSUME TypeOK, [Next]_vars
    PROVE  \/ \E q \in Queries : Ask(q)
           \/ Find \/ CountDocuments \/ Slice \/ Answer
           \/ \E new : Written(new)
           \/ /\ UNCHANGED <<list, docs, walk, writes, past>>
              /\ GetMetrics \/ Tick \/ UNCHANGED vars
<1>1. CASE GetMetrics \/ Tick \/ UNCHANGED vars
  BY <1>1 DEF GetMetrics, Tick, vars
<1> QED
  BY <1>1, CreateIsWrite, Writers DEF Next

\* What a walk may be of, by its fields.
WalkSet(Q, D, T) ==
    [pc : {"idle", "asking", "done"}, query : Q, page : Nat, data : D, total : T]

LEMMA WalkSteps ==
    ASSUME NEW Q, NEW D, NEW T, NEW w \in WalkSet(Q, D, T),
           NEW data \in D, NEW total \in T
    PROVE  /\ [w EXCEPT !.data = data, !.total = total] \in WalkSet(Q, D, T)
           /\ [w EXCEPT !.page = @ + 1, !.data = data, !.total = total]
                \in WalkSet(Q, D, T)
           /\ [w EXCEPT !.pc = "done"] \in WalkSet(Q, D, T)
           /\ \A q \in Q : [pc |-> "asking", query |-> q, page |-> 1,
                           data |-> data, total |-> total] \in WalkSet(Q, D, T)
<1>1. [w EXCEPT !.data = data, !.total = total] \in WalkSet(Q, D, T)
  BY DEF WalkSet
<1>2. \A p \in Nat : [w EXCEPT !.page = p, !.data = data, !.total = total]
                       \in WalkSet(Q, D, T)
  BY DEF WalkSet
<1>3. w.page + 1 \in Nat
  BY DEF WalkSet
<1>4. [w EXCEPT !.pc = "done"] \in WalkSet(Q, D, T)
  BY DEF WalkSet
<1>5. \A q \in Q : [pc |-> "asking", query |-> q, page |-> 1,
                  data |-> data, total |-> total] \in WalkSet(Q, D, T)
  BY DEF WalkSet
<1> QED
  BY <1>1, <1>2, <1>3, <1>4, <1>5

LEMMA WalkTypeIs ==
    LET Q == Queries \cup {Nothing}
        D == (SUBSET (1..MaxDocs)) \cup {Nothing}
        T == (0..MaxDocs) \cup {Nothing}
    IN  /\ WalkType <=> walk \in WalkSet(Q, D, T)
        /\ UNCHANGED list => (WalkType' <=> walk' \in WalkSet(Q, D, T))
<1>1. UNCHANGED list => Queries' = Queries
  BY DEF Queries
<1> QED
  BY <1>1 DEF WalkType, WalkSet

\* A walk that is left alone stays well-typed when documents are only added.
LEMMA WalkTypeKept ==
    ASSUME TypeInv, UNCHANGED <<list, walk, times, initial>>,
           docs' \in Seq(Document), Len(docs) <= Len(docs'),
           Len(docs') <= MaxDocs, now' \in 0..MaxTime,
           writes' \in 0..MaxWrites, moves' \subseteq Moves,
           report' \in [at : Nat, recent : Nat, same : BOOLEAN, agrees : BOOLEAN],
           \A i \in DOMAIN docs' : docs'[i].created <= now'
    PROVE  TypeInv'
<1>1. DOMAIN docs \subseteq DOMAIN docs'
  <2>1. /\ docs \in Seq(Document)
        /\ DOMAIN docs = 1..Len(docs) /\ DOMAIN docs' = 1..Len(docs')
        /\ Len(docs) \in Nat /\ Len(docs') \in Nat
    BY DEF TypeInv, TypeOK
  <2> QED
    BY <2>1
<1>2. Queries' = Queries
  BY DEF Queries
<1>3. TypeOK'
  <2>1. walk.data = Nothing \/ walk.data \subseteq DOMAIN docs'
    BY <1>1 DEF TypeInv, TypeOK
  <2> QED
    BY <1>2, <2>1 DEF TypeInv, TypeOK
<1>4. WalkType'
  BY <1>2 DEF TypeInv, WalkType
<1>5. walk'.pc # "idle" => /\ \A i \in 1..MaxDocs : times'[i] <= NextPage' - 1
                           /\ initial' \subseteq DOMAIN docs'
  BY <1>1 DEF TypeInv, NextPage
<1> QED
  BY <1>3, <1>4, <1>5 DEF TypeInv

\* Of a walk that goes on only what it holds has to be looked at.
LEMMA WalkMoves ==
    ASSUME TypeInv, UNCHANGED <<list, docs, now, writes, moves, report>>,
           WalkType', times' \in [1..MaxDocs -> 0..MaxDocs],
           walk'.query \in Queries, walk'.page \in 1..MaxDocs,
           walk'.page > 1 => Skip(walk'.query, walk'.page) < MaxDocs,
           walk'.data = Nothing \/ walk'.data \subseteq DOMAIN docs,
           initial' \subseteq DOMAIN docs,
           \A i \in 1..MaxDocs : times'[i] <= NextPage' - 1
    PROVE  TypeInv'
<1>1. Queries' = Queries
  BY DEF Queries
<1>2. TypeOK'
  <2>1. /\ walk'.pc \in {"idle", "asking", "done"}
        /\ walk'.total = Nothing \/ walk'.total \in 0..MaxDocs
    BY DEF WalkType
  <2>2. Skip(walk'.query, walk'.page) = Skip(walk.query, walk.page)'
    BY DEF Skip
  <2> QED
    BY <1>1, <2>1, <2>2 DEF TypeInv, TypeOK
<1> QED
  BY <1>2 DEF TypeInv

LEMMA AskType == ASSUME TypeInv, NEW q \in Queries, Ask(q) PROVE TypeInv'
<1>1. PICK w : w = [Unasked EXCEPT !.pc = "asking", !.query = q, !.page = 1]
  OBVIOUS
<1>2. /\ w = [pc |-> "asking", query |-> q, page |-> 1,
              data |-> Nothing, total |-> Nothing]
      /\ walk' = w
      /\ times' = [i \in 1..MaxDocs |-> 0]
      /\ initial' = Matching(q)
      /\ moves' = IF Tied(q) THEN {"tied"} ELSE {}
      /\ UNCHANGED <<list, docs, now, writes, report>>
  BY <1>1 DEF Ask, Unasked
<1>3. WalkType'
  BY <1>2, WalkTypeIs, WalkSteps DEF TypeInv
<1>4. /\ times' \in [1..MaxDocs -> 0..MaxDocs]
      /\ \A i \in 1..MaxDocs : times'[i] <= NextPage' - 1
  BY <1>2, Bounds DEF NextPage
<1>5. initial' \subseteq DOMAIN docs
  BY <1>2 DEF Matching
<1>6. 1 \in 1..MaxDocs
  BY Bounds
<1>7. Queries' = Queries
  BY <1>2 DEF Queries
<1>8. TypeOK'
  BY <1>2, <1>4, <1>6, <1>7 DEF TypeInv, TypeOK, Moves
<1> QED
  BY <1>2, <1>3, <1>4, <1>5, <1>8 DEF TypeInv

\* What one of the two queries of a page, or the slice, adds to the walk.
LEMMA QueryType ==
    ASSUME TypeInv, walk.pc = "asking",
           UNCHANGED <<list, docs, now, writes, past, report>>,
           NEW data, NEW total,
           walk' = [walk EXCEPT !.data = data, !.total = total],
           data \in {walk.data} \cup Pages(walk.query, walk.page),
           total \in {walk.total, Cardinality(Matching(walk.query))}
    PROVE  TypeInv'
<1>1. DOMAIN docs \subseteq 1..MaxDocs
  BY Bounds DEF TypeInv, TypeOK
<1>2. data = Nothing \/ data \subseteq DOMAIN docs
  BY DEF Pages, Matching, TypeInv, TypeOK
<1>3. total = Nothing \/ total \in 0..MaxDocs
  <2>1. /\ Cardinality(Matching(walk.query)) \in 0..Len(docs)
        /\ Len(docs) \in Nat /\ Len(docs) <= MaxDocs
    BY MatchesFinite DEF TypeInv, TypeOK
  <2>2. Cardinality(Matching(walk.query)) \in 0..MaxDocs
    BY <2>1, Bounds
  <2> QED
    BY <2>2 DEF TypeInv, TypeOK
<1>4. /\ walk'.pc = walk.pc /\ walk'.query = walk.query
      /\ walk'.page = walk.page /\ walk'.data = data
  BY DEF TypeInv, WalkType
<1>5. Queries' = Queries
  BY DEF Queries
<1>6. WalkType'
  <2>1. /\ data \in (SUBSET (1..MaxDocs)) \cup {Nothing}
        /\ total \in (0..MaxDocs) \cup {Nothing}
    BY <1>1, <1>2, <1>3
  <2> QED
    BY <2>1, WalkTypeIs, WalkSteps DEF TypeInv
<1>7. UNCHANGED <<times, initial, moves>>
  BY DEF past
<1>8. \A i \in 1..MaxDocs : times'[i] <= NextPage' - 1
  BY <1>4, <1>7 DEF TypeInv, NextPage
<1> QED
  BY <1>2, <1>4, <1>6, <1>7, <1>8, WalkMoves DEF TypeInv, TypeOK

LEMMA AnswerType == ASSUME TypeInv, Answer PROVE TypeInv'
<1> DEFINE q == walk.query
           more == walk.page < TotalPages(walk.total, q)
<1>1. /\ walk.pc = "asking" /\ walk.total # Nothing /\ walk.data # Nothing
      /\ walk.page \in 1..MaxDocs /\ q \in Queries
      /\ walk.total \in 0..MaxDocs
      /\ q.limit \in 1..100
  BY LimitType DEF Answer, TypeInv, TypeOK
<1>2. UNCHANGED <<list, docs, now, writes, initial, moves, report>>
  BY DEF Answer
<1>3. ASSUME NEW i \in 1..MaxDocs
      PROVE  times'[i] = times[i] \/ times'[i] = times[i] + 1
  BY DEF Answer, TypeInv, TypeOK
<1>4. ASSUME NEW i \in 1..MaxDocs
      PROVE  /\ times'[i] \in 0..MaxDocs
             /\ times'[i] <= walk.page
  <2>1. times[i] \in Nat /\ times[i] <= walk.page - 1
    BY <1>1 DEF TypeInv, TypeOK, NextPage
  <2> QED
    BY <1>1, <1>3, <2>1, Bounds
<1>5. times' \in [1..MaxDocs -> 0..MaxDocs]
  <2>1. DOMAIN times = 1..MaxDocs
    BY DEF TypeInv, TypeOK
  <2>2. times' = [i \in 1..MaxDocs |-> times'[i]]
    BY <2>1 DEF Answer
  <2> QED
    BY <1>4, <2>2
<1>6. Queries' = Queries
  BY <1>2 DEF Queries
<1>7. CASE more
  <2>1. walk' = [walk EXCEPT !.page = @ + 1, !.data = Nothing, !.total = Nothing]
    BY <1>7 DEF Answer
  <2>2. /\ walk'.pc = "asking" /\ walk'.query = q
        /\ walk'.page = walk.page + 1 /\ walk'.data = Nothing
    BY <1>1, <2>1 DEF TypeInv, WalkType
  <2>3. WalkType'
    BY <1>2, <2>1, WalkTypeIs, WalkSteps DEF TypeInv
  <2>4. Skip(q, walk.page + 1) < walk.total /\ TotalPages(walk.total, q) <= walk.total
    BY <1>1, <1>7, LastPage, Bounds
  <2>5. TotalPages(walk.total, q) \in Int
    BY <1>1, Bounds DEF TotalPages
  <2>6. walk.page + 1 \in 1..MaxDocs
    BY <1>1, <1>7, <2>4, <2>5, Bounds
  <2>7. Skip(q, walk.page + 1) < MaxDocs
    <3>1. Skip(q, walk.page + 1) \in Int
      <4>1. walk.page + 1 \in Nat
        BY <1>1, Bounds
      <4> QED
        BY <1>1, <4>1, SkipNext
    <3> HIDE DEF q
    <3> QED
      BY <1>1, <2>4, <3>1, Bounds
  <2>8. \A i \in 1..MaxDocs : times'[i] <= NextPage' - 1
    BY <1>1, <1>4, <2>2, Bounds DEF NextPage
  <2> QED
    BY <1>1, <1>2, <1>5, <2>2, <2>3, <2>6, <2>7, <2>8, WalkMoves DEF TypeInv
<1>8. CASE ~more
  <2>1. walk' = [walk EXCEPT !.pc = "done"]
    BY <1>8 DEF Answer
  <2>2. /\ walk'.pc = "done" /\ walk'.query = q
        /\ walk'.page = walk.page /\ walk'.data = walk.data
    BY <2>1 DEF TypeInv, WalkType
  <2>3. WalkType'
    BY <1>6, <2>1 DEF TypeInv, WalkType
  <2>4. \A i \in 1..MaxDocs : times'[i] <= NextPage' - 1
    BY <1>1, <1>4, <2>2, Bounds DEF NextPage
  <2> QED
    BY <1>1, <1>2, <1>5, <2>2, <2>3, <2>4, WalkMoves DEF TypeInv, TypeOK
<1> QED
  BY <1>7, <1>8

LEMMA WriteType ==
    ASSUME TypeInv, NEW new, Written(new),
           report' \in [at : Nat, recent : Nat, same : BOOLEAN, agrees : BOOLEAN]
    PROVE  TypeInv'
<1>1. /\ docs' = new /\ writes' = writes + 1 /\ writes < MaxWrites
      /\ UNCHANGED <<list, now, walk, times, initial>>
  BY DEF Written, Change
<1>2. moves' \subseteq Moves
  BY DEF Written, Change, TypeInv, TypeOK, Moves
<1>3. writes' \in 0..MaxWrites
  BY <1>1, Bounds DEF TypeInv, TypeOK
<1>4. \A i \in DOMAIN new : new[i].created <= now
  <2>1. now \in Nat /\ \A i \in DOMAIN docs : docs[i].created <= now
    BY Bounds DEF TypeInv, TypeOK
  <2>2. ASSUME NEW i \in DOMAIN new PROVE new[i].created <= now
    BY <2>1 DEF Written
  <2> QED
    BY <2>2
<1> QED
  BY <1>1, <1>2, <1>3, <1>4, WalkTypeKept DEF Written, TypeInv, TypeOK

Reports == [at : Nat, recent : Nat, same : BOOLEAN, agrees : BOOLEAN]

\* The users created in a window are finitely many.
LEMMA WindowType ==
    ASSUME docs \in Seq(Document), NEW a, NEW b
    PROVE  Cardinality(CreatedIn(a, b)) \in Nat
<1>1. Len(docs) \in Nat /\ CreatedIn(a, b) \subseteq 1..Len(docs)
  BY DEF CreatedIn, Kept
<1>2. IsFiniteSet(1..Len(docs))
  BY <1>1, FS_Interval
<1> QED
  BY <1>1, <1>2, FS_Subset, FS_CardinalityType

LEMMA ReportType == ASSUME TypeInv, [Next]_vars PROVE report' \in Reports
<1>1. report \in Reports
  BY DEF TypeInv, Reports
<1>2. CASE GetMetrics
  <2>1. Metrics.recent \in Nat
    BY WindowType DEF Metrics, TypeInv, TypeOK
  <2>2. now \in Nat
    BY Bounds DEF TypeInv, TypeOK
  <2>3. PICK agrees \in BOOLEAN :
          report' = [at |-> now, recent |-> Metrics.recent, same |-> TRUE,
                     agrees |-> agrees]
    BY <1>2 DEF GetMetrics
  <2> QED
    BY <2>1, <2>2, <2>3 DEF Reports
<1>3. ASSUME NEW i \in DOMAIN docs, SoftDelete(i) PROVE report' \in Reports
  <2>1. PICK same \in BOOLEAN : report' = [report EXCEPT !.same = same]
    <3> DEFINE same == report.same /\ ~(docs[i].created < report.at
                                     /\ docs[i].created >= report.at - Days)
    <3>1. report' = [report EXCEPT !.same = same]
      BY <1>3 DEF SoftDelete
    <3>2. same \in BOOLEAN
      OBVIOUS
    <3> QED
      BY <3>1, <3>2
  <2> QED
    BY <1>1, <2>1 DEF Reports
<1>4. \/ GetMetrics
      \/ \E i \in DOMAIN docs : SoftDelete(i)
      \/ UNCHANGED report
  BY DEF Next, vars, Ask, Find, CountDocuments, Slice, Answer, Create, SetActive,
     Rename, Remove, Tick
<1> QED
  BY <1>1, <1>2, <1>3, <1>4

LEMMA TypeStep == TypeInv /\ [Next]_vars => TypeInv'
<1> SUFFICES ASSUME TypeInv, [Next]_vars PROVE TypeInv'
  OBVIOUS
<1>1. report' \in [at : Nat, recent : Nat, same : BOOLEAN, agrees : BOOLEAN]
  BY ReportType DEF Reports
<1>2. ASSUME NEW q \in Queries, Ask(q) PROVE TypeInv'
  BY <1>2, AskType
<1>3. CASE Find
  <2>1. PICK data \in Pages(walk.query, walk.page) :
          walk' = [walk EXCEPT !.data = data]
    BY <1>3 DEF Find
  <2>2. walk' = [walk EXCEPT !.data = data, !.total = walk.total]
    BY <2>1 DEF TypeInv, WalkType
  <2> QED
    BY <1>3, <2>1, <2>2, QueryType DEF Find
<1>4. CASE CountDocuments
  <2>1. walk' = [walk EXCEPT !.data = walk.data,
                             !.total = Cardinality(Matching(walk.query))]
    BY <1>4 DEF CountDocuments, TypeInv, WalkType
  <2> QED
    BY <1>4, <2>1, QueryType DEF CountDocuments
<1>5. CASE Slice
  BY <1>5, QueryType DEF Slice
<1>6. CASE Answer
  BY <1>6, AnswerType
<1>7. ASSUME NEW new, Written(new) PROVE TypeInv'
  BY <1>1, <1>7, WriteType
<1>8. CASE /\ UNCHANGED <<list, docs, walk, writes, past>>
           /\ GetMetrics \/ Tick \/ UNCHANGED vars
  <2>1. now' \in 0..MaxTime /\ now <= now' /\ now \in Nat
    BY <1>8, Bounds DEF GetMetrics, Tick, vars, TypeInv, TypeOK
  <2>2. \A i \in DOMAIN docs : docs[i].created <= now'
    <3>1. ASSUME NEW i \in DOMAIN docs PROVE docs[i].created <= now'
      <4>1. docs[i].created \in Nat /\ docs[i].created <= now
        <5>1. docs[i] \in Document
          BY DEF TypeInv, TypeOK
        <5> QED
          BY <5>1, Bounds DEF Document, TypeInv
      <4> QED
        BY <2>1, <4>1, Bounds
    <3> QED
      BY <3>1
  <2>3. Len(docs) \in Nat /\ docs \in Seq(Document) /\ Len(docs) <= MaxDocs
    BY DEF TypeInv, TypeOK
  <2> QED
    BY <1>1, <1>8, <2>1, <2>2, <2>3, WalkTypeKept
       DEF past, TypeInv, TypeOK
<1> QED
  BY <1>2, <1>3, <1>4, <1>5, <1>6, <1>7, <1>8, StepKinds DEF TypeInv

LEMMA TypeInit == Init => TypeInv
<1> SUFFICES ASSUME Init PROVE TypeInv
  OBVIOUS
<1>1. PICK n \in 0..InitialDocs :
        docs \in [1..n -> {d \in Document : d.created < now}]
  BY DEF Init
<1>2. n \in Nat /\ n <= MaxDocs
  BY Bounds
<1>3. docs \in [1..n -> Document] /\ \A i \in 1..n : docs[i].created < now
  BY <1>1
<1>4. docs \in Seq(Document) /\ Len(docs) = n /\ DOMAIN docs = 1..n
  BY <1>2, <1>3
<1>5. now = MaxTime - Days /\ now \in 0..MaxTime
  BY Bounds DEF Init
<1>6. \A i \in DOMAIN docs : docs[i].created <= now
  <2>1. ASSUME NEW i \in 1..n PROVE docs[i].created <= now
    <3>1. docs[i] \in Document /\ docs[i].created < now
      BY <1>3
    <3>2. docs[i].created \in 0..MaxTime
      BY <3>1 DEF Document
    <3> QED
      BY <1>5, <3>1, <3>2, Bounds
  <2> QED
    BY <1>4, <2>1
<1>7. walk = [pc |-> "idle", query |-> Nothing, page |-> 0,
              data |-> Nothing, total |-> Nothing]
  BY DEF Init, Unasked
<1>8. WalkType
  BY <1>7 DEF WalkType
<1>9. times \in [1..MaxDocs -> 0..MaxDocs]
  BY Bounds DEF Init
<1>10. TypeOK
  BY <1>2, <1>4, <1>5, <1>7, <1>9, Bounds DEF TypeOK, Init, Moves
<1>11. report \in [at : Nat, recent : Nat, same : BOOLEAN, agrees : BOOLEAN]
  BY DEF Init, NoReport
<1> QED
  BY <1>6, <1>7, <1>8, <1>10, <1>11 DEF TypeInv

\* A walk asks for pages that exist, and counts each document at most once per
\* page, whatever is written between its queries.
THEOREM TypeCorrect == Spec => []TypeOK
<1>1. TypeInv => TypeOK
  BY DEF TypeInv
<1> QED
  BY <1>1, TypeInit, TypeStep, PTL DEF Spec

-----------------------------------------------------------------------------
(* Writes and the order of the matches                                     *)

LEMMA SortedBy ==
    ASSUME list \in Paged, NEW q \in Queries
    PROVE  q.sortBy \in {"name", "createdAt"}
BY DEF Paged, Queries, UserQueries, AuditQueries, TemplateQueries

\* What a write that is absent from the history of a walk leaves alone.
LEMMA ChangeMoves ==
    ASSUME TypeInv, NEW new, Written(new), walk.pc = "asking",
           NEW q, q = walk.query
    PROVE  /\ moves \subseteq moves'
           /\ "created" \notin moves' => Matching(q)' \subseteq DOMAIN docs
           /\ "entered" \notin moves' =>
                Matching(q)' \cap DOMAIN docs \subseteq Matching(q)
           /\ "left" \notin moves' => Matching(q) \subseteq Matching(q)'
           /\ "moved" \notin moves' =>
                \A i \in Matching(q)' \cap DOMAIN docs : Key(q, i)' = Key(q, i)
           /\ "tied" \notin moves' => ~Tied(q)'
<1> DEFINE Was(i) == i \in DOMAIN docs /\ Matches(q, docs[i])
           Is(i) == Matches(q, new[i])
           SortKey(d) == IF q.sortBy = "name" THEN d.name ELSE d.created
           C == \E i \in DOMAIN new \ DOMAIN docs : Is(i)
           E == \E i \in DOMAIN docs : ~Was(i) /\ Is(i)
           L == \E i \in DOMAIN docs : Was(i) /\ ~Is(i)
           M == \E i \in DOMAIN docs :
                  Is(i) /\ SortKey(new[i]) # SortKey(docs[i])
           T == \E i, j \in DOMAIN new :
                  i # j /\ Is(i) /\ Is(j) /\ SortKey(new[i]) = SortKey(new[j])
<1>1. docs' = new
  BY DEF Written, Change
<1>2. moves' = moves \cup {m \in {"created"} : C} \cup {m \in {"entered"} : E}
                     \cup {m \in {"left"} : L} \cup {m \in {"moved"} : M}
                     \cup {m \in {"tied"} : T}
  BY DEF Written, Change
<1>3. /\ Matching(q) = {i \in DOMAIN docs : Was(i)}
      /\ Matching(q)' = {i \in DOMAIN new : Is(i)}
  BY <1>1 DEF Matching
<1>4. DOMAIN docs \subseteq DOMAIN new
  <2>1. /\ docs \in Seq(Document) /\ new \in Seq(Document)
        /\ Len(docs) <= Len(new)
    BY DEF TypeInv, TypeOK, Written
  <2>2. /\ DOMAIN docs = 1..Len(docs) /\ DOMAIN new = 1..Len(new)
        /\ Len(docs) \in Nat /\ Len(new) \in Nat
    BY <2>1
  <2> QED
    BY <2>1, <2>2
<1>5. q.sortBy \in {"name", "createdAt"}
  BY SortedBy DEF Written, TypeInv, TypeOK
<1>6. \A i : Key(q, i) = SortKey(docs[i]) /\ Key(q, i)' = SortKey(new[i])
  BY <1>1, <1>5 DEF Key
<1> HIDE DEF C, E, L, M, T
<1>7. /\ moves \subseteq moves'
      /\ "created" \notin moves' => ~C
      /\ "entered" \notin moves' => ~E
      /\ "left" \notin moves' => ~L
      /\ "moved" \notin moves' => ~M
      /\ "tied" \notin moves' => ~T
  BY <1>2
<1> HIDE DEF Was, Is, SortKey
<1>8. ~C => Matching(q)' \subseteq DOMAIN docs
  BY <1>3 DEF C
<1>9. ~E => Matching(q)' \cap DOMAIN docs \subseteq Matching(q)
  BY <1>3 DEF E
<1>10. ~L => Matching(q) \subseteq Matching(q)'
  BY <1>3, <1>4 DEF L
<1>11. ~M => \A i \in Matching(q)' \cap DOMAIN docs : Key(q, i)' = Key(q, i)
  BY <1>3, <1>6 DEF M
<1>12. ~T => ~Tied(q)'
  <2>1. Tied(q)' <=> \E i, j \in Matching(q)' : i # j /\ Key(q, i)' = Key(q, j)'
    BY DEF Tied
  <2> QED
    BY <1>3, <1>6, <2>1 DEF T
<1> QED
  BY <1>7, <1>8, <1>9, <1>10, <1>11, <1>12

\* Among documents that keep their keys, so does the order.
LEMMA PrecedesKept ==
    ASSUME NEW q, NEW i, NEW j, Key(q, i)' = Key(q, i), Key(q, j)' = Key(q, j)
    PROVE  Precedes(q, i, j)' <=> Precedes(q, i, j)
BY DEF Precedes

\* A steady walk: the matches keep their places, and new ones come after them.
LEMMA WriteSteady ==
    ASSUME TypeInv, TypeInv', NEW new, Written(new), walk.pc = "asking",
           Steady', NEW q, q = walk.query
    PROVE  /\ ~Tied(q)'
           /\ Matching(q) \subseteq Matching(q)'
           /\ moves' = {} => Matching(q)' = Matching(q)
           /\ \A i, j \in Matching(q) : Precedes(q, i, j)' <=> Precedes(q, i, j)
           /\ \A i \in Matching(q), j \in Matching(q)' \ Matching(q) :
                Precedes(q, i, j)'
           /\ \A i \in Matching(q) : Rank(q, i)' = Rank(q, i)
<1> DEFINE all == Matching(q)
<1>1. /\ walk' = walk /\ docs' = new
      /\ docs \in Seq(Document) /\ docs' \in Seq(Document)
  BY DEF Written, Change, TypeInv, TypeOK
<1>2. /\ {"entered", "left", "moved", "tied"} \cap moves' = {}
      /\ "created" \in moves' => q.sortBy = "createdAt" /\ q.order = "asc"
  BY <1>1 DEF Steady
<1>3. /\ ~Tied(q)'
      /\ all \subseteq all'
      /\ all' \cap DOMAIN docs \subseteq all
      /\ \A i \in all' \cap DOMAIN docs : Key(q, i)' = Key(q, i)
      /\ "created" \notin moves' => all' \subseteq DOMAIN docs
  BY <1>2, ChangeMoves
<1>4. all \subseteq DOMAIN docs
  BY DEF Matching
<1>5. \A i, j \in all : Precedes(q, i, j)' <=> Precedes(q, i, j)
  BY <1>3, <1>4, PrecedesKept
<1>7. ASSUME NEW i \in all, NEW j \in all' \ all
      PROVE  Precedes(q, i, j)' /\ ~Precedes(q, j, i)'
  <2>1. j \in DOMAIN new \ DOMAIN docs
    BY <1>1, <1>3, <1>7 DEF Matching
  <2>2. "created" \in moves'
    BY <1>3, <1>7, <2>1
  <2>3. new[j].created = now /\ new[i].created = docs[i].created
    BY <1>4, <1>7, <2>1 DEF Written
  <2>4. docs[i].created <= now
    BY <1>4, <1>7 DEF TypeInv
  <2>5. Key(q, j)' = now /\ Key(q, i)' = docs[i].created
    BY <1>1, <1>2, <2>2, <2>3 DEF Key
  <2>6. Key(q, i)' # Key(q, j)'
    BY <1>3, <1>7 DEF Tied
  <2>7. Key(q, i)' \in Nat /\ Key(q, j)' \in Nat
    <3>1. i \in all' /\ j \in all'
      BY <1>3, <1>7
    <3>2. \A k \in all' : Key(q, k)' \in Nat
      <4> TAKE k \in all'
      <4>1. docs'[k] \in Document /\ k \in Nat
        BY <1>1 DEF Matching
      <4>2. docs'[k].name \in Names /\ docs'[k].created \in 0..MaxTime
        BY <4>1 DEF Document
      <4>3. docs'[k].name \in Nat /\ docs'[k].created \in Nat
        BY <4>2, Bounds
      <4> QED
        BY <4>1, <4>3 DEF Key
    <3> QED
      BY <3>1, <3>2
  <2> QED
    BY <1>2, <2>2, <2>4, <2>5, <2>6, <2>7 DEF Precedes
<1>8. ASSUME NEW i \in all
      PROVE  Rank(q, i)' = Rank(q, i)
  <2>1. {j \in all' : Precedes(q, j, i)'} = {j \in all : Precedes(q, j, i)}
    BY <1>3, <1>5, <1>7
  <2> QED
    BY <2>1 DEF Rank
<1>9. moves' = {} => all' = all
  BY <1>3
<1> QED
  BY <1>3, <1>5, <1>7, <1>8, <1>9

\* A walk whose matches only leave: the others move to earlier places.
LEMMA WriteLeaving ==
    ASSUME TypeInv, TypeInv', NEW new, Written(new), walk.pc = "asking",
           moves' \subseteq {"left"}, NEW q, q = walk.query
    PROVE  /\ ~Tied(q)'
           /\ Matching(q)' \subseteq Matching(q)
           /\ \A i \in Matching(q)' : Rank(q, i)' <= Rank(q, i)
<1> DEFINE all == Matching(q)
<1>1. docs \in Seq(Document) /\ docs' \in Seq(Document)
  BY DEF TypeInv, TypeOK
<1>2. /\ ~Tied(q)'
      /\ all' \subseteq DOMAIN docs
      /\ all' \subseteq all
      /\ \A i \in all' : Key(q, i)' = Key(q, i)
  BY ChangeMoves
<1>3. ASSUME NEW i \in all'
      PROVE  Rank(q, i)' <= Rank(q, i)
  <2> DEFINE Old == {j \in all : Precedes(q, j, i)}
             New == {j \in all' : Precedes(q, j, i)'}
  <2>1. New \subseteq Old
    BY <1>2, PrecedesKept
  <2>2. IsFiniteSet(Old)
    BY <1>1, RankType
  <2>3. Cardinality(New) <= Cardinality(Old)
    BY <2>1, <2>2, FS_Subset
  <2>4. Rank(q, i) = Cardinality(Old) /\ Rank(q, i)' = Cardinality(New)
    BY DEF Rank
  <2> QED
    BY <2>3, <2>4
<1> QED
  BY <1>2, <1>3

-----------------------------------------------------------------------------
(* The walk                                                                *)

\* What is said of the documents alone, when they stay.
LEMMA SameDocs ==
    ASSUME UNCHANGED docs, NEW q
    PROVE  /\ Matching(q)' = Matching(q)
           /\ Tied(q)' <=> Tied(q)
           /\ \A i, j : Precedes(q, i, j)' <=> Precedes(q, i, j)
           /\ \A i : Rank(q, i)' = Rank(q, i)
<1>1. Matching(q)' = Matching(q)
  BY DEF Matching
<1>2. \A i : Key(q, i)' = Key(q, i)
  BY DEF Key
<1>3. Tied(q)' <=> Tied(q)
  BY <1>1, <1>2 DEF Tied
<1>4. \A i, j : Precedes(q, i, j)' <=> Precedes(q, i, j)
  BY <1>2 DEF Precedes
<1>5. \A i : Rank(q, i)' = Rank(q, i)
  BY <1>1, <1>4 DEF Rank
<1> QED
  BY <1>1, <1>3, <1>4, <1>5

\* The pages that the invariants speak of, after a step.
LEMMA PageAfter ==
    ASSUME NEW q
    PROVE  /\ Skip(q, NextPage)' = Skip(q, NextPage')
           /\ Skip(q, walk.page + 1)' = Skip(q, walk'.page + 1)
           /\ \A i : OnPage(q, walk.page, i)' <=>
                       /\ Skip(q, walk'.page) <= Rank(q, i)'
                       /\ Rank(q, i)' < Skip(q, walk'.page + 1)
BY DEF OnPage, Skip

WalkInv == SteadyInv /\ StillInv /\ LeavingInv

LEMMA AskWalk ==
    ASSUME TypeInv, NEW q \in Queries, Ask(q)
    PROVE  WalkInv'
<1>1. PICK w : w = [Unasked EXCEPT !.pc = "asking", !.query = q, !.page = 1]
  OBVIOUS
<1>2. /\ walk'.pc = "asking" /\ walk'.query = q /\ walk'.page = 1
      /\ walk'.data = Nothing /\ walk'.total = Nothing
      /\ NextPage' = 1
      /\ times' = [i \in 1..MaxDocs |-> 0]
      /\ initial' = Matching(q)
      /\ moves' = IF Tied(q) THEN {"tied"} ELSE {}
      /\ docs' = docs
  BY <1>1 DEF Ask, Unasked, NextPage
<1>3. /\ Matching(q)' = Matching(q)
      /\ Tied(q)' <=> Tied(q)
  BY <1>2, SameDocs
<1>4. Skip(q, NextPage)' = 0 /\ \A i : Rank(q, i)' \in Nat
  <2>1. \A i : Rank(q, i)' \in Nat
    <3>1. docs \in Seq(Document)
      BY DEF TypeInv, TypeOK
    <3>2. \A i : Rank(q, i) \in Nat
      BY <3>1, RankType
    <3> QED
      BY <1>2, <3>2, SameDocs
  <2>2. q.limit \in 1..100
    BY LimitType
  <2>3. Skip(q, NextPage') = 0
    BY <1>2, <2>2, SkipNext
  <2> QED
    BY <2>1, <2>3, PageAfter
<1>5. \A i : ~(Rank(q, i)' < Skip(q, NextPage)')
  <2> TAKE i
  <2>1. Rank(q, i)' \in Nat /\ Skip(q, NextPage)' = 0
    BY <1>4
  <2> QED
    BY <2>1
<1>6. Matching(q) \subseteq 1..MaxDocs
  BY Bounds DEF Matching, TypeInv, TypeOK
<1>7. SteadyInv'
  BY <1>2, <1>3, <1>5, <1>6 DEF SteadyInv, Steady
<1>8. StillInv'
  BY <1>2, <1>3 DEF StillInv
<1>9. LeavingInv'
  BY <1>2, <1>3, <1>6 DEF LeavingInv
<1> QED
  BY <1>7, <1>8, <1>9 DEF WalkInv

\* What one of the two queries of a page, or the slice, adds to the walk.
LEMMA QueryWalk ==
    ASSUME TypeInv, WalkInv, walk.pc = "asking",
           UNCHANGED <<list, docs, now, writes, past, report>>,
           NEW data, NEW total,
           walk' = [walk EXCEPT !.data = data, !.total = total],
           data \in {walk.data} \cup Pages(walk.query, walk.page),
           total \in {walk.total, Cardinality(Matching(walk.query))}
    PROVE  WalkInv'
<1> PICK q : q = walk.query
  OBVIOUS
<1> DEFINE page == walk.page
<1>1. /\ walk'.pc = "asking" /\ walk'.query = q /\ walk'.page = page
      /\ walk'.data = data /\ walk'.total = total
      /\ NextPage = page /\ NextPage' = page
      /\ UNCHANGED <<docs, times, initial, moves>>
  BY DEF past, TypeInv, WalkType, NextPage
<1>2. /\ docs \in Seq(Document) /\ q.limit \in 1..100
      /\ page \in Nat /\ page > 0
      /\ \A i \in 1..MaxDocs : times[i] \in Nat
  BY LimitType, Bounds DEF TypeInv, TypeOK
<1>3. /\ Matching(q)' = Matching(q)
      /\ Tied(q)' <=> Tied(q)
      /\ \A i, j : Precedes(q, i, j)' <=> Precedes(q, i, j)
      /\ \A i : Rank(q, i)' = Rank(q, i)
  BY <1>1, SameDocs
<1>4. /\ Skip(q, NextPage)' = Skip(q, NextPage)
      /\ Skip(q, walk.page + 1)' = Skip(q, page + 1)
      /\ \A i : OnPage(q, walk.page, i)' <=> OnPage(q, page, i)
  BY <1>1, <1>3, PageAfter DEF OnPage
<1>5. ~Tied(q) /\ data # walk.data =>
        /\ data \subseteq Matching(q)
        /\ \A i \in Matching(q) : i \in data <=> OnPage(q, page, i)
  BY <1>2, PageByRank
<1>6. SteadyInv'
  <2> SUFFICES ASSUME Steady'
               PROVE  /\ ~Tied(q)'
                      /\ initial' \subseteq Matching(q)'
                      /\ \A i \in initial', j \in Matching(q)' \ initial' :
                           Precedes(q, i, j)'
                      /\ \A i \in initial' :
                           times'[i] = IF Rank(q, i)' < Skip(q, NextPage)'
                                       THEN 1 ELSE 0
                      /\ data # Nothing => \A i \in initial' :
                           i \in data <=> OnPage(q, walk.page, i)'
                      /\ total # Nothing => Cardinality(initial') <= total
    BY <1>1 DEF SteadyInv
  <2>1. /\ ~Tied(q)
        /\ initial \subseteq Matching(q)
        /\ \A i \in initial, j \in Matching(q) \ initial : Precedes(q, i, j)
        /\ \A i \in initial :
             times[i] = IF Rank(q, i) < Skip(q, NextPage) THEN 1 ELSE 0
        /\ walk.data # Nothing =>
             \A i \in initial : i \in walk.data <=> OnPage(q, page, i)
        /\ walk.total # Nothing => Cardinality(initial) <= walk.total
    BY <1>1 DEF WalkInv, SteadyInv, Steady
  <2>2. data # Nothing => \A i \in initial : i \in data <=> OnPage(q, page, i)
    BY <1>5, <2>1
  <2>3. total # Nothing => Cardinality(initial) <= total
    <3>1. Cardinality(initial) <= Cardinality(Matching(q))
      BY <1>2, <2>1, MatchesFinite, FS_Subset
    <3> QED
      BY <2>1, <3>1
  <2> QED
    BY <1>1, <1>3, <1>4, <2>1, <2>2, <2>3
<1>7. StillInv'
  <2> SUFFICES ASSUME moves' = {}
               PROVE  /\ initial' = Matching(q)'
                      /\ \A i \in (1..MaxDocs) \ initial' : times'[i] = 0
                      /\ data # Nothing => data \subseteq initial'
                      /\ total # Nothing => total = Cardinality(initial')
    BY <1>1 DEF StillInv
  <2>1. /\ initial = Matching(q)
        /\ \A i \in (1..MaxDocs) \ initial : times[i] = 0
        /\ walk.data # Nothing => walk.data \subseteq initial
        /\ walk.total # Nothing => walk.total = Cardinality(initial)
    BY <1>1 DEF WalkInv, StillInv
  <2>2. data # walk.data => data \subseteq Matching(q)
    BY DEF Pages
  <2> QED
    BY <1>1, <1>3, <2>1, <2>2
<1>8. LeavingInv'
  <2> SUFFICES ASSUME moves' \subseteq {"left"}
               PROVE  /\ ~Tied(q)'
                      /\ \A i \in 1..MaxDocs : times'[i] <= 1
                      /\ \A i \in Matching(q)' :
                           times'[i] > 0 => Rank(q, i)' < Skip(q, NextPage)'
                      /\ data # Nothing => \A i \in data :
                           /\ times'[i] = 0
                           /\ i \in Matching(q)' =>
                                Rank(q, i)' < Skip(q, walk.page + 1)'
    BY <1>1 DEF LeavingInv
  <2>1. /\ ~Tied(q)
        /\ \A i \in 1..MaxDocs : times[i] <= 1
        /\ \A i \in Matching(q) :
             times[i] > 0 => Rank(q, i) < Skip(q, page)
        /\ walk.data # Nothing => \A i \in walk.data :
             /\ times[i] = 0
             /\ i \in Matching(q) => Rank(q, i) < Skip(q, page + 1)
    BY <1>1 DEF WalkInv, LeavingInv
  <2>2. ASSUME data # walk.data, NEW i \in data
        PROVE  times[i] = 0 /\ Rank(q, i) < Skip(q, page + 1)
    <3>1. /\ i \in Matching(q)
          /\ Skip(q, page) <= Rank(q, i)
          /\ Rank(q, i) < Skip(q, page + 1)
      BY <1>5, <2>1, <2>2 DEF OnPage
    <3>2. i \in 1..MaxDocs
      BY <1>2, <3>1, Bounds DEF Matching, TypeInv, TypeOK
    <3>3. times[i] \in Nat /\ Rank(q, i) \in Nat /\ Skip(q, page) \in Nat
      BY <1>2, <3>2, RankType, SkipNext
    <3>4. ~(times[i] > 0)
      BY <2>1, <3>1, <3>3
    <3> QED
      BY <3>1, <3>3, <3>4
  <2>3. data # Nothing => \A i \in data :
           times[i] = 0 /\ (i \in Matching(q) => Rank(q, i) < Skip(q, page + 1))
    BY <2>1, <2>2
  <2> QED
    BY <1>1, <1>3, <1>4, <2>1, <2>3
<1> QED
  BY <1>6, <1>7, <1>8 DEF WalkInv

-----------------------------------------------------------------------------
(* Answers and writes                                                      *)

\* What an answer does to the walk, whether or not it was the last.
LEMMA Answered ==
    ASSUME TypeInv, Answer, NEW q, q = walk.query
    PROVE  /\ walk.pc = "asking" /\ walk'.pc \in {"asking", "done"}
           /\ walk.data # Nothing /\ walk.total # Nothing
           /\ walk'.query = q
           /\ NextPage = walk.page /\ NextPage' = walk.page + 1
           /\ \A i \in 1..MaxDocs :
                times'[i] = IF i \in walk.data THEN times[i] + 1 ELSE times[i]
           /\ walk'.pc = "asking" =>
                /\ walk'.data = Nothing /\ walk'.total = Nothing
           /\ walk'.pc = "done" =>
                /\ walk'.page = walk.page /\ walk'.data = walk.data
                /\ walk'.total = walk.total
                /\ walk.total <= Skip(q, walk.page + 1)
           /\ UNCHANGED <<docs, initial, moves>>
<1>1. /\ walk.pc = "asking" /\ walk.total # Nothing /\ walk.data # Nothing
      /\ walk.page \in Nat /\ walk.total \in Nat /\ q.limit \in 1..100
      /\ UNCHANGED <<docs, initial, moves>>
  <2>1. /\ walk.pc = "asking" /\ walk.total # Nothing /\ walk.data # Nothing
        /\ UNCHANGED <<docs, initial, moves>>
    BY DEF Answer
  <2>2. q \in Queries /\ walk.page \in 1..MaxDocs /\ walk.total \in 0..MaxDocs
    BY <2>1 DEF TypeInv, TypeOK
  <2>3. walk.page \in Nat /\ walk.total \in Nat /\ q.limit \in 1..100
    BY <2>2, LimitType, Bounds
  <2> QED
    BY <2>1, <2>3
<1>2. \A i \in 1..MaxDocs :
        times'[i] = IF i \in walk.data THEN times[i] + 1 ELSE times[i]
  BY DEF Answer, TypeInv, TypeOK
<1>3. CASE walk.page < TotalPages(walk.total, q)
  <2>1. walk' = [walk EXCEPT !.page = @ + 1, !.data = Nothing, !.total = Nothing]
    BY <1>3 DEF Answer
  <2>2. /\ walk'.pc = "asking" /\ walk'.query = q
        /\ walk'.page = walk.page + 1
        /\ walk'.data = Nothing /\ walk'.total = Nothing
    BY <1>1, <2>1 DEF TypeInv, WalkType
  <2> QED
    BY <1>1, <1>2, <2>2 DEF NextPage
<1>4. CASE ~(walk.page < TotalPages(walk.total, q))
  <2>1. walk' = [walk EXCEPT !.pc = "done"]
    BY <1>4 DEF Answer
  <2>2. /\ walk'.pc = "done" /\ walk'.query = q
        /\ walk'.page = walk.page /\ walk'.data = walk.data
        /\ walk'.total = walk.total
    BY <2>1 DEF TypeInv, WalkType
  <2>3. walk.total <= Skip(q, walk.page + 1)
    <3>1. ~(Skip(q, walk.page + 1) < walk.total)
      BY <1>1, <1>4, LastPage
    <3>2. walk.page + 1 \in Nat
      BY <1>1
    <3>3. Skip(q, walk.page + 1) \in Int
      BY <1>1, <3>2, SkipNext
    <3> QED
      BY <1>1, <3>1, <3>3
  <2> QED
    BY <1>1, <1>2, <2>2, <2>3 DEF NextPage
<1> QED
  BY <1>3, <1>4

LEMMA AnswerWalk ==
    ASSUME TypeInv, WalkInv, Answer
    PROVE  WalkInv'
<1> PICK q : q = walk.query
  OBVIOUS
<1> DEFINE page == walk.page
<1>1. /\ walk.pc = "asking" /\ walk'.pc \in {"asking", "done"}
      /\ walk.data # Nothing /\ walk.total # Nothing
      /\ walk'.query = q
      /\ NextPage = page /\ NextPage' = page + 1
      /\ \A i \in 1..MaxDocs :
           times'[i] = IF i \in walk.data THEN times[i] + 1 ELSE times[i]
      /\ walk'.pc = "asking" => walk'.data = Nothing /\ walk'.total = Nothing
      /\ walk'.pc = "done" =>
           /\ walk'.page = page /\ walk'.data = walk.data
           /\ walk'.total = walk.total
           /\ walk.total <= Skip(q, page + 1)
      /\ UNCHANGED <<docs, initial, moves>>
  BY Answered
<1>2. /\ page \in Nat /\ page > 0 /\ q.limit \in 1..100
      /\ \A i \in 1..MaxDocs : times[i] \in Nat
      /\ docs \in Seq(Document) /\ DOMAIN docs \subseteq 1..MaxDocs
      /\ initial \subseteq 1..MaxDocs
  <2>1. /\ q \in Queries /\ page \in 1..MaxDocs
        /\ times \in [1..MaxDocs -> 0..MaxDocs]
        /\ docs \in Seq(Document) /\ Len(docs) <= MaxDocs
        /\ initial \subseteq DOMAIN docs
    BY <1>1 DEF TypeInv, TypeOK
  <2>2. Len(docs) \in Nat /\ DOMAIN docs = 1..Len(docs)
    BY <2>1
  <2>3. DOMAIN docs \subseteq 1..MaxDocs
    BY <2>1, <2>2, Bounds
  <2>4. \A i \in 1..MaxDocs : times[i] \in Nat
    <3>1. \A i \in 1..MaxDocs : times[i] \in 0..MaxDocs
      BY <2>1
    <3> QED
      BY <3>1, Bounds
  <2> QED
    BY <2>1, <2>3, <2>4, LimitType, Bounds
<1>3. /\ Matching(q)' = Matching(q)
      /\ Tied(q)' <=> Tied(q)
      /\ \A i, j : Precedes(q, i, j)' <=> Precedes(q, i, j)
      /\ \A i : Rank(q, i)' = Rank(q, i)
  BY <1>1, SameDocs
<1>4. /\ Skip(q, NextPage)' = Skip(q, page + 1)
      /\ walk'.pc = "done" =>
           \A i : OnPage(q, walk.page, i)' <=> OnPage(q, page, i)
  BY <1>1, <1>3, PageAfter DEF OnPage
<1>5. \A i : /\ Rank(q, i) \in Nat
             /\ Rank(q, i) < Skip(q, page) => Rank(q, i) < Skip(q, page + 1)
  <2> TAKE i
  <2>1. Rank(q, i) \in Nat
    BY <1>2, RankType
  <2>2. /\ Skip(q, page) \in Nat /\ q.limit \in Nat
        /\ Skip(q, page + 1) = Skip(q, page) + q.limit
    BY <1>2, SkipNext
  <2> QED
    BY <2>1, <2>2
<1>6. SteadyInv'
  <2> SUFFICES ASSUME Steady'
               PROVE  /\ ~Tied(q)'
                      /\ initial' \subseteq Matching(q)'
                      /\ \A i \in initial', j \in Matching(q)' \ initial' :
                           Precedes(q, i, j)'
                      /\ \A i \in initial' :
                           times'[i] = IF Rank(q, i)' < Skip(q, NextPage)'
                                       THEN 1 ELSE 0
                      /\ walk'.data # Nothing => \A i \in initial' :
                           i \in walk'.data <=> OnPage(q, walk.page, i)'
                      /\ walk'.total # Nothing =>
                           Cardinality(initial') <= walk'.total
                      /\ walk'.pc = "done" =>
                           /\ walk'.total # Nothing
                           /\ walk'.total <= Skip(q, NextPage)'
    BY <1>1 DEF SteadyInv
  <2>1. /\ ~Tied(q)
        /\ initial \subseteq Matching(q)
        /\ \A i \in initial, j \in Matching(q) \ initial : Precedes(q, i, j)
        /\ \A i \in initial :
             times[i] = IF Rank(q, i) < Skip(q, page) THEN 1 ELSE 0
        /\ \A i \in initial : i \in walk.data <=> OnPage(q, page, i)
        /\ Cardinality(initial) <= walk.total
    BY <1>1 DEF WalkInv, SteadyInv, Steady
  <2>2. ASSUME NEW i \in initial
        PROVE  times'[i] = IF Rank(q, i) < Skip(q, page + 1) THEN 1 ELSE 0
    <3>1. i \in walk.data <=> /\ Skip(q, page) <= Rank(q, i)
                              /\ Rank(q, i) < Skip(q, page + 1)
      BY <2>1 DEF OnPage
    <3>2. Rank(q, i) \in Nat /\ Skip(q, page) \in Nat
      BY <1>2, <1>5, SkipNext
    <3>3. times'[i] = IF i \in walk.data THEN times[i] + 1 ELSE times[i]
      BY <1>1, <1>2
    <3>4. times[i] = IF Rank(q, i) < Skip(q, page) THEN 1 ELSE 0
      BY <2>1
    <3> QED
      BY <1>5, <3>1, <3>2, <3>3, <3>4
  <2> QED
    BY <1>1, <1>3, <1>4, <2>1, <2>2
<1>7. StillInv'
  <2> SUFFICES ASSUME moves' = {}
               PROVE  /\ initial' = Matching(q)'
                      /\ \A i \in (1..MaxDocs) \ initial' : times'[i] = 0
                      /\ walk'.data # Nothing => walk'.data \subseteq initial'
                      /\ walk'.total # Nothing =>
                           walk'.total = Cardinality(initial')
    BY <1>1 DEF StillInv
  <2>1. /\ initial = Matching(q)
        /\ \A i \in (1..MaxDocs) \ initial : times[i] = 0
        /\ walk.data \subseteq initial
        /\ walk.total = Cardinality(initial)
    BY <1>1 DEF WalkInv, StillInv
  <2> QED
    BY <1>1, <1>3, <2>1
<1>8. LeavingInv'
  <2> SUFFICES ASSUME moves' \subseteq {"left"}
               PROVE  /\ ~Tied(q)'
                      /\ \A i \in 1..MaxDocs : times'[i] <= 1
                      /\ \A i \in Matching(q)' :
                           times'[i] > 0 => Rank(q, i)' < Skip(q, NextPage)'
    BY <1>1 DEF LeavingInv
  <2>1. /\ ~Tied(q)
        /\ \A i \in 1..MaxDocs : times[i] <= 1
        /\ \A i \in Matching(q) :
             times[i] > 0 => Rank(q, i) < Skip(q, page)
        /\ \A i \in walk.data :
             /\ times[i] = 0
             /\ i \in Matching(q) => Rank(q, i) < Skip(q, page + 1)
    BY <1>1 DEF WalkInv, LeavingInv
  <2>2. \A i \in 1..MaxDocs :
          /\ times'[i] <= 1
          /\ times'[i] > 0 => times[i] > 0 \/ i \in walk.data
    BY <1>1, <1>2, <2>1
  <2>3. Matching(q) \subseteq 1..MaxDocs
    BY <1>2 DEF Matching
  <2> QED
    BY <1>1, <1>3, <1>4, <1>5, <2>1, <2>2, <2>3
<1> QED
  BY <1>6, <1>7, <1>8 DEF WalkInv

\* A write between the queries of a walk, or before any.
LEMMA WriteWalk ==
    ASSUME TypeInv, TypeInv', WalkInv, NEW new, Written(new)
    PROVE  WalkInv'
<1> PICK q : q = walk.query
  OBVIOUS
<1>1. /\ walk.pc # "done" /\ UNCHANGED <<walk, times, initial>>
      /\ NextPage' = NextPage
      /\ walk.pc = "idle" => moves' = moves
  BY DEF Written, Change, NextPage
<1>2. CASE walk.pc = "idle"
  BY <1>1, <1>2 DEF WalkInv, SteadyInv, StillInv, LeavingInv
<1>3. CASE walk.pc = "asking"
  <2>1. moves \subseteq moves'
    BY <1>3, ChangeMoves
  <2>2. /\ Skip(q, NextPage)' = Skip(q, NextPage)
        /\ Skip(q, walk.page + 1)' = Skip(q, walk.page + 1)
        /\ \A i : OnPage(q, walk.page, i)' <=>
                    /\ Skip(q, walk.page) <= Rank(q, i)'
                    /\ Rank(q, i)' < Skip(q, walk.page + 1)
    BY <1>1, PageAfter
  <2>3. ASSUME Steady'
        PROVE  /\ ~Tied(q)'
               /\ initial' \subseteq Matching(q)'
               /\ \A i \in initial', j \in Matching(q)' \ initial' :
                    Precedes(q, i, j)'
               /\ \A i \in initial' :
                    times'[i] = IF Rank(q, i)' < Skip(q, NextPage)'
                                THEN 1 ELSE 0
               /\ walk'.data # Nothing => \A i \in initial' :
                    i \in walk'.data <=> OnPage(q, walk.page, i)'
               /\ walk'.total # Nothing => Cardinality(initial') <= walk'.total
    <3>1. Steady
      BY <1>1, <2>1, <2>3 DEF Steady
    <3>2. /\ initial \subseteq Matching(q)
          /\ \A i \in initial, j \in Matching(q) \ initial : Precedes(q, i, j)
          /\ \A i \in initial :
               times[i] = IF Rank(q, i) < Skip(q, NextPage) THEN 1 ELSE 0
          /\ walk.data # Nothing =>
               \A i \in initial : i \in walk.data <=> OnPage(q, walk.page, i)
          /\ walk.total # Nothing => Cardinality(initial) <= walk.total
      BY <1>3, <3>1 DEF WalkInv, SteadyInv
    <3>3. /\ ~Tied(q)'
          /\ Matching(q) \subseteq Matching(q)'
          /\ \A i, j \in Matching(q) : Precedes(q, i, j)' <=> Precedes(q, i, j)
          /\ \A i \in Matching(q), j \in Matching(q)' \ Matching(q) :
               Precedes(q, i, j)'
          /\ \A i \in Matching(q) : Rank(q, i)' = Rank(q, i)
      BY <1>3, <2>3, WriteSteady
    <3>4. \A i \in initial, j \in Matching(q)' \ initial : Precedes(q, i, j)'
      <4> TAKE i \in initial, j \in Matching(q)' \ initial
      <4>1. CASE j \in Matching(q)
        BY <3>2, <3>3, <4>1
      <4>2. CASE j \notin Matching(q)
        BY <3>2, <3>3, <4>2
      <4> QED
        BY <4>1, <4>2
    <3>5. \A i \in initial : OnPage(q, walk.page, i)' <=> OnPage(q, walk.page, i)
      BY <2>2, <3>2, <3>3 DEF OnPage
    <3> QED
      BY <1>1, <2>2, <3>2, <3>3, <3>4, <3>5
  <2>4. SteadyInv'
    BY <1>1, <1>3, <2>3 DEF SteadyInv
  <2>5. ASSUME moves' = {}
        PROVE  /\ initial' = Matching(q)'
               /\ \A i \in (1..MaxDocs) \ initial' : times'[i] = 0
               /\ walk'.data # Nothing => walk'.data \subseteq initial'
               /\ walk'.total # Nothing => walk'.total = Cardinality(initial')
    <3>1. /\ moves = {}
          /\ Matching(q)' = Matching(q)
      BY <1>3, <2>1, <2>5, WriteSteady DEF Steady
    <3> QED
      BY <1>1, <1>3, <3>1 DEF WalkInv, StillInv
  <2>6. StillInv'
    BY <1>1, <1>3, <2>5 DEF StillInv
  <2>7. ASSUME moves' \subseteq {"left"}
        PROVE  /\ ~Tied(q)'
               /\ \A i \in 1..MaxDocs : times'[i] <= 1
               /\ \A i \in Matching(q)' :
                    times'[i] > 0 => Rank(q, i)' < Skip(q, NextPage)'
               /\ walk'.data # Nothing => \A i \in walk'.data :
                    /\ times'[i] = 0
                    /\ i \in Matching(q)' =>
                         Rank(q, i)' < Skip(q, walk.page + 1)'
    <3>1. moves \subseteq {"left"}
      BY <2>1, <2>7
    <3>2. /\ \A i \in 1..MaxDocs : times[i] <= 1
          /\ \A i \in Matching(q) :
               times[i] > 0 => Rank(q, i) < Skip(q, NextPage)
          /\ walk.data # Nothing => \A i \in walk.data :
               /\ times[i] = 0
               /\ i \in Matching(q) => Rank(q, i) < Skip(q, walk.page + 1)
      BY <1>3, <3>1 DEF WalkInv, LeavingInv
    <3>3. /\ ~Tied(q)'
          /\ Matching(q)' \subseteq Matching(q)
          /\ \A i \in Matching(q)' : Rank(q, i)' <= Rank(q, i)
      BY <1>3, <2>7, WriteLeaving
    <3>4. /\ Skip(q, NextPage) \in Int /\ Skip(q, walk.page + 1) \in Int
          /\ \A i : Rank(q, i) \in Nat /\ Rank(q, i)' \in Nat
      <4>1. /\ docs \in Seq(Document) /\ docs' \in Seq(Document)
            /\ q.limit \in 1..100 /\ walk.page \in Nat /\ NextPage = walk.page
        <5>1. q \in Queries /\ walk.page \in 1..MaxDocs
          BY <1>3 DEF TypeInv, TypeOK
        <5>2. q.limit \in 1..100 /\ walk.page \in Nat
          BY <5>1, LimitType, Bounds
        <5>3. docs \in Seq(Document) /\ docs' \in Seq(Document)
          BY DEF TypeInv, TypeOK
        <5>4. NextPage = walk.page
          BY <1>3 DEF NextPage
        <5> QED
          BY <5>2, <5>3, <5>4
      <4>2. walk.page + 1 \in Nat
        BY <4>1
      <4>3. Skip(q, NextPage) \in Int /\ Skip(q, walk.page + 1) \in Int
        BY <4>1, <4>2, SkipNext
      <4>4. \A i : Rank(q, i) \in Nat
        BY <4>1, RankType
      <4>5. \A i : Rank(q, i)' \in Nat
        <5>1. \A i : IsFiniteSet({j \in Matching(q)' : Precedes(q, j, i)'})
          <6>1. IsFiniteSet(Matching(q)')
            BY <3>3, <4>1, MatchesFinite, FS_Subset
          <6> QED
            BY <6>1, FS_Subset
        <5> QED
          BY <5>1, FS_CardinalityType DEF Rank
      <4> QED
        BY <4>3, <4>4, <4>5
    <3>5. \A i \in Matching(q)', n \in Int : Rank(q, i) < n => Rank(q, i)' < n
      BY <3>3, <3>4
    <3> QED
      BY <1>1, <2>2, <3>2, <3>3, <3>4, <3>5
  <2>8. LeavingInv'
    BY <1>1, <1>3, <2>7 DEF LeavingInv
  <2> QED
    BY <2>4, <2>6, <2>8 DEF WalkInv
<1> QED
  BY <1>1, <1>2, <1>3 DEF TypeInv, TypeOK

-----------------------------------------------------------------------------
(* The end of a walk                                                       *)

\* A step that concerns neither the walk nor the documents.
LEMMA QuietWalk ==
    ASSUME WalkInv, UNCHANGED <<docs, walk, past>>
    PROVE  WalkInv'
<1> PICK q : q = walk.query
  OBVIOUS
<1>1. /\ UNCHANGED <<docs, walk, times, initial, moves>>
      /\ NextPage' = NextPage
  BY DEF past, NextPage
<1>2. /\ Matching(q)' = Matching(q)
      /\ Tied(q)' <=> Tied(q)
      /\ \A i, j : Precedes(q, i, j)' <=> Precedes(q, i, j)
      /\ \A i : Rank(q, i)' = Rank(q, i)
  BY <1>1, SameDocs
<1>3. /\ Skip(q, NextPage)' = Skip(q, NextPage)
      /\ Skip(q, walk.page + 1)' = Skip(q, walk.page + 1)
      /\ \A i : OnPage(q, walk.page, i)' <=> OnPage(q, walk.page, i)
  BY <1>1, <1>2, PageAfter DEF OnPage
<1>4. SteadyInv'
  BY <1>1, <1>2, <1>3 DEF WalkInv, SteadyInv, Steady
<1>5. StillInv'
  BY <1>1, <1>2 DEF WalkInv, StillInv
<1>6. LeavingInv'
  BY <1>1, <1>2, <1>3 DEF WalkInv, LeavingInv
<1> QED
  BY <1>4, <1>5, <1>6 DEF WalkInv

LEMMA WalkStep == TypeInv /\ WalkInv /\ [Next]_vars => WalkInv'
<1> SUFFICES ASSUME TypeInv, WalkInv, [Next]_vars PROVE WalkInv'
  OBVIOUS
<1>1. TypeInv' /\ TypeOK
  BY TypeStep DEF TypeInv
<1>2. ASSUME NEW q \in Queries, Ask(q) PROVE WalkInv'
  BY <1>2, AskWalk
<1>3. CASE Find
  <2>1. PICK data \in Pages(walk.query, walk.page) :
          walk' = [walk EXCEPT !.data = data]
    BY <1>3 DEF Find
  <2>2. walk' = [walk EXCEPT !.data = data, !.total = walk.total]
    BY <2>1 DEF TypeInv, WalkType
  <2> QED
    BY <1>3, <2>1, <2>2, QueryWalk DEF Find
<1>4. CASE CountDocuments
  <2>1. walk' = [walk EXCEPT !.data = walk.data,
                             !.total = Cardinality(Matching(walk.query))]
    BY <1>4 DEF CountDocuments, TypeInv, WalkType
  <2> QED
    BY <1>4, <2>1, QueryWalk DEF CountDocuments
<1>5. CASE Slice
  BY <1>5, QueryWalk DEF Slice
<1>6. CASE Answer
  BY <1>6, AnswerWalk
<1>7. ASSUME NEW new, Written(new) PROVE WalkInv'
  BY <1>1, <1>7, WriteWalk
<1>8. CASE UNCHANGED <<docs, walk, past>>
  BY <1>8, QuietWalk
<1> QED
  BY <1>1, <1>2, <1>3, <1>4, <1>5, <1>6, <1>7, <1>8, StepKinds

LEMMA WalkInit == Init => WalkInv
BY DEF Init, Unasked, WalkInv, SteadyInv, StillInv, LeavingInv

\* A document of the start comes, in a steady walk, after fewer documents than
\* there were at the start.
LEMMA SteadyRank ==
    ASSUME TypeInv, SteadyInv, walk.pc # "idle", Steady, NEW i \in initial
    PROVE  Rank(walk.query, i) < Cardinality(initial)
<1> PICK q : q = walk.query
  OBVIOUS
<1> DEFINE Before == {j \in Matching(q) : Precedes(q, j, i)}
<1>1. docs \in Seq(Document)
  BY DEF TypeInv, TypeOK
<1>2. /\ initial \subseteq Matching(q)
      /\ \A j \in Matching(q) \ initial : Precedes(q, i, j)
  BY DEF SteadyInv
<1>3. IsFiniteSet(initial)
  BY <1>1, <1>2, MatchesFinite, FS_Subset
<1>4. Before \subseteq initial \ {i}
  BY <1>1, <1>2, Order
<1>5. /\ IsFiniteSet(initial \ {i})
      /\ Cardinality(initial \ {i}) = Cardinality(initial) - 1
  BY <1>3, FS_RemoveElement
<1>6. Cardinality(Before) <= Cardinality(initial \ {i})
  BY <1>4, <1>5, FS_Subset
<1>7. Cardinality(initial) \in Nat /\ Cardinality(Before) \in Nat
  BY <1>1, <1>3, RankType, FS_CardinalityType
<1>8. Rank(walk.query, i) = Cardinality(Before)
  BY DEF Rank
<1> HIDE DEF Before
<1> QED
  BY <1>5, <1>6, <1>7, <1>8

\* When it is over, every one of them has been returned.
LEMMA SteadyDone ==
    ASSUME TypeInv, SteadyInv, walk.pc = "done", Steady
    PROVE  \A i \in initial : times[i] = 1
<1> PICK q : q = walk.query
  OBVIOUS
<1> TAKE i \in initial
<1>1. /\ times[i] = IF Rank(q, i) < Skip(q, NextPage) THEN 1 ELSE 0
      /\ Cardinality(initial) <= walk.total
      /\ walk.total <= Skip(q, NextPage)
      /\ walk.total # Nothing
      /\ initial \subseteq Matching(q)
  BY DEF SteadyInv
<1>2. Rank(q, i) < Cardinality(initial)
  BY SteadyRank
<1>3. docs \in Seq(Document) /\ walk.total \in 0..MaxDocs
  BY <1>1 DEF TypeInv, TypeOK
<1>4. Rank(q, i) \in Nat /\ Cardinality(initial) \in Nat
  <2>1. IsFiniteSet(initial)
    BY <1>1, <1>3, MatchesFinite, FS_Subset
  <2> QED
    BY <1>3, <2>1, RankType, FS_CardinalityType
<1>5. Skip(q, NextPage) \in Int
  <2>1. walk.page \in 1..MaxDocs /\ q \in Queries
    BY DEF TypeInv, TypeOK
  <2>2. NextPage \in Nat /\ q.limit \in 1..100
    BY <2>1, LimitType, Bounds DEF NextPage
  <2> QED
    BY <2>2, SkipNext
<1>6. walk.total \in Nat
  BY <1>3, Bounds
<1> QED
  BY <1>1, <1>2, <1>4, <1>5, <1>6

LEMMA UndisturbedFollows == TypeInv /\ WalkInv => UndisturbedWalkExact
<1> SUFFICES ASSUME TypeInv, WalkInv, walk.pc = "done", moves = {}
             PROVE  /\ \A i \in DOMAIN times :
                         times[i] = IF i \in initial THEN 1 ELSE 0
                    /\ walk.total = Cardinality(initial)
                    /\ list = "users" => Exported(walk.query) = Returned
  BY DEF UndisturbedWalkExact
<1>1. Steady /\ SteadyInv
  BY DEF Steady, WalkInv
<1>2. \A i \in initial : times[i] = 1
  BY <1>1, SteadyDone
<1>3. /\ initial = Matching(walk.query)
      /\ \A i \in (1..MaxDocs) \ initial : times[i] = 0
      /\ walk.total # Nothing => walk.total = Cardinality(initial)
  BY DEF WalkInv, StillInv
<1>4. walk.total # Nothing
  BY <1>1 DEF SteadyInv
<1>5. DOMAIN times = 1..MaxDocs
  BY DEF TypeInv, TypeOK
<1>6. initial \subseteq 1..MaxDocs
  BY Bounds DEF TypeInv, TypeOK
<1>7. Returned = initial
  BY <1>2, <1>3, <1>5, <1>6 DEF Returned
<1> QED
  BY <1>2, <1>3, <1>4, <1>5, <1>7 DEF Exported

LEMMA DisturbedFollows == TypeInv /\ WalkInv => DisturbedWalkBounded
<1> SUFFICES ASSUME TypeInv, WalkInv PROVE DisturbedWalkBounded
  OBVIOUS
<1>1. ASSUME moves \subseteq {"left"}
      PROVE  \A i \in DOMAIN times : times[i] <= 1
  BY <1>1 DEF WalkInv, LeavingInv, TypeInv, TypeOK
<1>2. ASSUME walk.pc = "done", moves \subseteq {"created"},
             walk.query.sortBy = "createdAt", walk.query.order = "asc"
      PROVE  \A i \in initial : times[i] = 1
  BY <1>2, SteadyDone DEF Steady, WalkInv
<1> QED
  BY <1>1, <1>2 DEF DisturbedWalkBounded

-----------------------------------------------------------------------------
(* The metrics                                                             *)

\* Users created outside the window of a report do not change it.
LEMMA ReportKept ==
    ASSUME TypeInv, ReportInv, UNCHANGED list, docs' \in Seq(Document),
           DOMAIN docs \subseteq DOMAIN docs', now <= now',
           now \in Nat, now' \in Nat,
           report'.at = report.at, report'.recent = report.recent,
           report'.agrees = report.agrees, report'.same => report.same,
           NEW at, at = report.at,
           report'.same => \A i \in DOMAIN docs :
               /\ docs'[i].created = docs[i].created
               /\ \/ docs'[i].state = "live" <=> docs[i].state = "live"
                  \/ ~(docs[i].created >= at - Days /\ docs[i].created < at),
           \A i \in DOMAIN docs' \ DOMAIN docs : docs'[i].created = now
    PROVE  ReportInv'
<1>1. report.agrees /\ report'.agrees
  BY DEF ReportInv
<1>2. ASSUME report'.same
      PROVE  /\ list' = "users"
             /\ report'.at <= now'
             /\ report'.recent = Cardinality(CreatedIn(at - Days, at)')
  <2>1. /\ list = "users" /\ at <= now
        /\ report.recent = Cardinality(CreatedIn(at - Days, at))
        /\ at \in Nat
    BY <1>2 DEF ReportInv, TypeInv
  <2>2. at <= now'
    BY <2>1
  <2>3. ASSUME NEW i \in DOMAIN docs' \ DOMAIN docs
        PROVE  ~(docs'[i].created < at)
    <3>1. docs'[i].created = now
      OBVIOUS
    <3> QED
      BY <2>1, <3>1
  <2>4. CreatedIn(at - Days, at)' = CreatedIn(at - Days, at)
    <3> DEFINE In(d) == d.created >= at - Days /\ d.created < at
    <3>1. /\ CreatedIn(at - Days, at)
               = {i \in DOMAIN docs : docs[i].state = "live" /\ In(docs[i])}
          /\ CreatedIn(at - Days, at)'
               = {i \in DOMAIN docs' : docs'[i].state = "live" /\ In(docs'[i])}
      BY DEF CreatedIn, Kept
    <3>2. \A i \in DOMAIN docs :
            docs'[i].state = "live" /\ In(docs'[i])
              <=> docs[i].state = "live" /\ In(docs[i])
      BY <1>2
    <3>3. \A i \in DOMAIN docs' \ DOMAIN docs : ~In(docs'[i])
      BY <2>3
    <3> HIDE DEF In
    <3> QED
      BY <3>1, <3>2, <3>3
  <2> QED
    BY <2>1, <2>2, <2>4
<1> QED
  BY <1>1, <1>2 DEF ReportInv

LEMMA ReportStep == TypeInv /\ ReportInv /\ [Next]_vars => ReportInv'
<1> SUFFICES ASSUME TypeInv, ReportInv, [Next]_vars PROVE ReportInv'
  OBVIOUS
<1> PICK at : at = report.at
  OBVIOUS
<1>1. TypeInv'
  BY TypeStep
<1>2. /\ docs \in Seq(Document) /\ docs' \in Seq(Document)
      /\ now \in Nat /\ now' \in Nat
  <2>1. now \in 0..MaxTime /\ now' \in 0..MaxTime
    BY <1>1 DEF TypeInv, TypeOK
  <2> QED
    BY <1>1, <2>1, Bounds DEF TypeInv, TypeOK
<1>3. CASE GetMetrics
  <2>1. /\ UNCHANGED <<list, docs, now>>
        /\ list = "users"
        /\ report'.at = now /\ report'.recent = Metrics.recent
        /\ report'.agrees = (report.same /\ now = report.at + Days
                               => Metrics.previous = report.recent)
    BY <1>3 DEF GetMetrics
  <2>2. /\ Metrics.recent = Cardinality(CreatedIn(now - Days, now))
        /\ Metrics.previous = Cardinality(CreatedIn(now - 2 * Days, now - Days))
    BY DEF Metrics
  <2>3. ASSUME report.same, now = at + Days
        PROVE  Metrics.previous = report.recent
    <3>1. at \in Nat /\ report.recent = Cardinality(CreatedIn(at - Days, at))
      BY <2>3 DEF ReportInv, TypeInv
    <3>2. now - 2 * Days = at - Days /\ now - Days = at
      BY <2>3, <3>1, Bounds
    <3> QED
      BY <2>2, <3>1, <3>2
  <2>4. report'.agrees
    BY <2>1, <2>3
  <2>5. \A t \in {report'.at} :
          report'.recent = Cardinality(CreatedIn(t - Days, t)')
    <3>1. \A t : CreatedIn(t - Days, t)' = CreatedIn(t - Days, t)
      BY <2>1 DEF CreatedIn, Kept
    <3> QED
      BY <2>1, <2>2, <3>1
  <2> QED
    BY <1>2, <2>1, <2>4, <2>5 DEF ReportInv
<1>4. ASSUME NEW new, Written(new)
      PROVE  /\ DOMAIN docs \subseteq DOMAIN docs'
             /\ UNCHANGED <<list, now>>
             /\ docs' = new
             /\ \A i \in DOMAIN docs : docs'[i].created = docs[i].created
             /\ \A i \in DOMAIN docs' \ DOMAIN docs : docs'[i].created = now
  <2>1. /\ docs' = new /\ UNCHANGED <<list, now>>
        /\ Len(docs) <= Len(docs')
        /\ \A i \in DOMAIN docs : docs'[i].created = docs[i].created
        /\ \A i \in DOMAIN docs' \ DOMAIN docs : docs'[i].created = now
    BY <1>4 DEF Written, Change
  <2>2. /\ DOMAIN docs = 1..Len(docs) /\ DOMAIN docs' = 1..Len(docs')
        /\ Len(docs) \in Nat /\ Len(docs') \in Nat
    BY <1>2
  <2> QED
    BY <2>1, <2>2
<1>5. ASSUME NEW new, Written(new), UNCHANGED report,
             \A i \in DOMAIN docs : docs'[i].state = docs[i].state
      PROVE  ReportInv'
  BY <1>2, <1>4, <1>5, ReportKept
<1>6. CASE \E name \in Names, active \in BOOLEAN : Create(name, active)
  <2>1. PICK name \in Names, active \in BOOLEAN : Create(name, active)
    BY <1>6
  <2>2. \E new : Written(new)
    BY <2>1, CreateIsWrite DEF TypeInv
  <2>3. PICK d : docs' = Append(docs, d)
    BY <2>1 DEF Create, Change
  <2>4. \A i \in DOMAIN docs : docs'[i] = docs[i]
    BY <1>2, <2>3
  <2> QED
    BY <1>5, <2>1, <2>2, <2>4 DEF Create
<1>7. ASSUME NEW i \in DOMAIN docs, NEW active \in BOOLEAN, SetActive(i, active)
      PROVE  ReportInv'
  <2>1. \E new : Written(new)
    BY <1>7, Writers DEF TypeInv
  <2>2. docs' = [docs EXCEPT ![i].active = active] /\ UNCHANGED report
    BY <1>7 DEF SetActive, Change
  <2>3. docs[i] \in Document
    BY <1>2
  <2>4. \A j \in DOMAIN docs : docs'[j].state = docs[j].state
    BY <2>2, <2>3 DEF Document
  <2> QED
    BY <1>5, <2>1, <2>2, <2>4
<1>8. ASSUME NEW i \in DOMAIN docs, NEW name \in Names, Rename(i, name)
      PROVE  ReportInv'
  <2>1. \E new : Written(new)
    BY <1>8, Writers DEF TypeInv
  <2>2. docs' = [docs EXCEPT ![i].name = name] /\ UNCHANGED report
    BY <1>8 DEF Rename, Change
  <2>3. docs[i] \in Document
    BY <1>2
  <2>4. \A j \in DOMAIN docs : docs'[j].state = docs[j].state
    BY <2>2, <2>3 DEF Document
  <2> QED
    BY <1>5, <2>1, <2>2, <2>4
<1>9. ASSUME NEW i \in DOMAIN docs, SoftDelete(i)
      PROVE  ReportInv'
  <2>1. PICK new : Written(new)
    BY <1>9, Writers DEF TypeInv
  <2>2. docs' = [docs EXCEPT ![i].state = "deleted", ![i].active = FALSE]
    BY <1>9 DEF SoftDelete, Change
  <2>3. /\ report'.at = report.at /\ report'.recent = report.recent
        /\ report'.agrees = report.agrees
        /\ report'.same => /\ report.same
                           /\ ~(/\ docs[i].created >= at - Days
                                /\ docs[i].created < at)
    BY <1>9 DEF SoftDelete, TypeInv
  <2>4. \A j \in DOMAIN docs : j # i => docs'[j] = docs[j]
    BY <2>2
  <2> QED
    BY <1>2, <1>4, <2>1, <2>3, <2>4, ReportKept
<1>10. ASSUME NEW i \in DOMAIN docs, Remove(i)
       PROVE  ReportInv'
  <2>1. list # "users" /\ UNCHANGED <<list, report>>
    BY <1>10 DEF Remove, Change
  <2> QED
    BY <2>1 DEF ReportInv
<1>11. CASE UNCHANGED <<list, docs, report>> /\ now <= now'
  BY <1>2, <1>11, ReportKept
<1>12. \/ GetMetrics
       \/ \E name \in Names, active \in BOOLEAN : Create(name, active)
       \/ \E i \in DOMAIN docs :
            \/ \E active \in BOOLEAN : SetActive(i, active)
            \/ \E name \in Names : Rename(i, name)
            \/ SoftDelete(i)
            \/ Remove(i)
       \/ UNCHANGED <<list, docs, report>> /\ now <= now'
  <2>1. now <= now /\ now <= now + 1
    BY <1>2
  <2> QED
    BY <2>1 DEF Next, vars, Ask, Find, CountDocuments, Slice, Answer, Tick
<1> QED
  BY <1>3, <1>6, <1>7, <1>8, <1>9, <1>10, <1>11, <1>12

LEMMA ReportInit == Init => ReportInv
BY DEF Init, NoReport, ReportInv

LEMMA MetricsFollow ==
    ASSUME TypeInv, WalkInv, ReportInv
    PROVE  MetricsAgree
<1> PICK q : q = walk.query
  OBVIOUS
<1>1. ASSUME walk.pc = "done", moves = {}, list = "users", q.search = Nothing
      PROVE  /\ q.active = "any" => Metrics.total = Cardinality(Returned)
             /\ q.active = "yes" =>
                  Metrics.active =
                    Cardinality({i \in Returned : docs[i].state = "live"})
  <2>1. Returned = Matching(q)
    BY <1>1, UndisturbedFollows DEF UndisturbedWalkExact, Exported
  <2>2. ASSUME q.active = "any" PROVE Matching(q) = Kept
    BY <1>1, <2>2 DEF Matching, Matches, Kept
  <2>3. ASSUME q.active = "yes"
        PROVE  {i \in Matching(q) : docs[i].state = "live"}
                 = {i \in Kept : docs[i].active}
    <3>1. \A i \in DOMAIN docs : docs[i].active \in BOOLEAN
      <4>1. docs \in Seq(Document)
        BY DEF TypeInv, TypeOK
      <4>2. \A i \in DOMAIN docs : docs[i] \in Document
        BY <4>1
      <4> QED
        BY <4>2 DEF Document
    <3>2. \A i \in DOMAIN docs :
            /\ docs[i].state = "live"
            => (Matches(q, docs[i]) <=> docs[i].active)
      BY <1>1, <2>3, <3>1 DEF Matches
    <3> QED
      BY <3>2 DEF Matching, Kept
  <2>4. /\ Metrics.total = Cardinality(Kept)
        /\ Metrics.active = Cardinality({i \in Kept : docs[i].active})
    BY DEF Metrics
  <2> QED
    BY <2>1, <2>2, <2>3, <2>4
<1>2. report.agrees
  BY DEF ReportInv
<1> QED
  BY <1>1, <1>2 DEF MetricsAgree

-----------------------------------------------------------------------------
(* The theorems                                                            *)

ListsInv == TypeInv /\ WalkInv /\ ReportInv

LEMMA ListsInvariant == Spec => []ListsInv
<1>1. Init => ListsInv
  BY TypeInit, WalkInit, ReportInit DEF ListsInv
<1>2. ListsInv /\ [Next]_vars => ListsInv'
  BY TypeStep, WalkStep, ReportStep DEF ListsInv
<1> QED
  BY <1>1, <1>2, PTL DEF Spec

\* However many pages a walk has, and whichever of the orders that the sort
\* allows the database picks, a walk without ties and without writes to its
\* matches returns each of them once, and the export has the same.
THEOREM UndisturbedIsExact == Spec => []UndisturbedWalkExact
<1>1. ListsInv => UndisturbedWalkExact
  BY UndisturbedFollows DEF ListsInv
<1> QED
  BY <1>1, ListsInvariant, PTL

\* Matches that leave make no document come twice, and documents created behind
\* a walk in ascending order of creation make it miss none of the start.
THEOREM DisturbedIsBounded == Spec => []DisturbedWalkBounded
<1>1. ListsInv => DisturbedWalkBounded
  BY DisturbedFollows DEF ListsInv
<1> QED
  BY <1>1, ListsInvariant, PTL

\* The metrics and the lists follow one rule on deleted users, and consecutive
\* windows of the metrics meet without a gap or an overlap.
THEOREM MetricsMatch == Spec => []MetricsAgree
<1>1. ListsInv => MetricsAgree
  BY MetricsFollow DEF ListsInv
<1> QED
  BY <1>1, ListsInvariant, PTL
====
