------------------------ MODULE EmailPipelineProofs ------------------------
(***************************************************************************)
(* Proofs about EmailPipeline, for every set of requests, slugs, events    *)
(* and languages and every value of the other constants.                   *)
(***************************************************************************)
EXTENDS EmailPipeline, SequenceTheorems, TLAPS

\* The listener sends shipped templates only.
LEMMA ListenerSlugs ==
    \A e \in DOMAIN EmailListener : EmailListener[e] \in DefaultSlugs
BY DEF EmailListener, DefaultSlugs, DEFAULT_TEMPLATES

(***************************************************************************)
(* What a slot holds, given the templates and the logs.  A slot has a log  *)
(* from its creation to the recording of the outcome, and it alone has it; *)
(* an update that nobody overtook still has the version it read.           *)
(***************************************************************************)
Templates == [Slugs -> Template \cup {Absent}]

SlotOK(q, docs, entries) ==
    /\ q \in Request
    /\ HasText(q)
    /\ q.pc \in {"resolve", "create", "update", "seedCreate"} => q.slug \in Slugs
    /\ q.pc = "seedCreate" => q.next \in 1..7
    /\ q.pc = "update" => q.target \in Slugs
    /\ q.pc = "update" /\ ~q.stale =>
         docs[q.slug] # Absent /\ q.version = docs[q.slug].version + 1
    /\ q.pc \notin {"send", "record"} => q.log = 0
    /\ q.pc \in {"send", "record"} =>
         q.log \in 1..Len(entries) /\ entries[q.log].status = "pending"
    /\ q.pc = "send" => entries[q.log].calls = 0
    /\ q.pc = "record" =>
         /\ entries[q.log].calls = 1
         /\ q.success => entries[q.log].accepted

SlotsOK == \A r \in Req : SlotOK(req[r], templates, logs)

LogsOwned ==
    \A r, s \in Req : req[r].log # 0 /\ req[r].log = req[s].log => r = s

Shape == TypeOK /\ SlotsOK /\ LogsOwned

\* The variables other than the slots keep their types.
Typed ==
    /\ templates' \in Templates
    /\ logs' \in Seq(Log)
    /\ started' \in 0..MaxStarts /\ notFound' \subseteq Slugs
    /\ lost' \subseteq 1..Len(logs')

LEMMA TemplateAbsent == Absent \notin Template /\ Absent \notin Slugs
BY ConstantsAssumption DEF Template

LEMMA DefaultSlug ==
    /\ \A k \in 1..7 : DEFAULT_TEMPLATES[k] \in Slugs
    /\ DefaultSlugs \subseteq Slugs
BY DEF DefaultSlugs, Slugs

LEMMA IdleOK == \A docs, entries : SlotOK(Idle, docs, entries)
BY DEF SlotOK, HasText, Idle, Request, Languages, DEFAULT_LANGUAGE

\* What slot r has after a step: q, with a log nobody else has.
LEMMA SlotStep ==
    ASSUME Shape, Typed, NEW r \in Req, NEW q,
           req' \in [Req -> Request], req'[r] = q,
           \A s \in Req : s # r => req'[s].log = req[s].log,
           q.log # 0 => \A s \in Req : s # r => req[s].log # q.log,
           \A s \in Req : SlotOK(req'[s], templates', logs')
    PROVE  Shape'
<1>1. TypeOK' /\ SlotsOK'
  BY DEF Typed, TypeOK, Templates, SlotsOK, SlotOK
<1>2. ASSUME NEW s \in Req, NEW t \in Req, req'[s].log # 0,
             req'[s].log = req'[t].log
      PROVE  s = t
  <2>1. CASE s = r
    BY <1>2, <2>1
  <2>2. CASE t = r
    BY <1>2, <2>2
  <2>3. CASE s # r /\ t # r
    BY <1>2, <2>3 DEF Shape, LogsOwned
  <2> QED
    BY <2>1, <2>2, <2>3
<1> QED
  BY <1>1, <1>2 DEF Shape, LogsOwned

LEMMA Held ==
    ASSUME Shape, NEW r \in Req
    PROVE  SlotOK(req[r], templates, logs) /\ req[r] \in Request
BY DEF Shape, SlotsOK, SlotOK

\* A step that leaves the templates and the logs alone and puts q in slot r.
LEMMA QuietStep ==
    ASSUME Shape, Typed, UNCHANGED <<templates, logs>>, NEW r \in Req, NEW q,
           req' = [req EXCEPT ![r] = q], SlotOK(q, templates, logs),
           q.log = 0 \/ q.log = req[r].log
    PROVE  Shape'
<1>1. req' \in [Req -> Request] /\ req'[r] = q
  BY DEF Shape, TypeOK, SlotOK
<1>2. \A s \in Req : s # r => req'[s] = req[s]
  BY DEF Shape, TypeOK
<1>3. \A s \in Req : SlotOK(req'[s], templates', logs')
  BY <1>1, <1>2 DEF Shape, SlotsOK
<1>4. q.log # 0 => \A s \in Req : s # r => req[s].log # q.log
  BY DEF Shape, LogsOwned
<1> QED
  BY <1>1, <1>2, <1>3, <1>4, SlotStep

LEMMA Beginning ==
    ASSUME Shape, NEW r \in Req, NEW q, Begin(r, q)
    PROVE  started' \in 0..MaxStarts /\ req' = [req EXCEPT ![r] = q]
BY ConstantsAssumption DEF Begin, Shape, TypeOK

LEMMA Going ==
    ASSUME Shape, NEW r \in Req, NEW q, Goto(r, q)
    PROVE  started' \in 0..MaxStarts /\ req' = [req EXCEPT ![r] = q]
BY DEF Goto, Shape, TypeOK

\* A request begins.
LEMMA BeginStep ==
    ASSUME Shape, NEW r \in Req, NEW q, Begin(r, q),
           UNCHANGED <<templates, logs, notFound, lost>>,
           SlotOK(q, templates, logs), q.log = 0
    PROVE  Shape'
<1>1. Typed
  BY Beginning DEF Typed, Shape, TypeOK, Templates
<1> QED
  BY <1>1, Beginning, QuietStep

\* A request goes on, or ends, without writing templates or logs.
LEMMA GotoStep ==
    ASSUME Shape, NEW r \in Req, NEW q, Goto(r, q),
           UNCHANGED <<templates, logs>>, notFound' \subseteq Slugs,
           lost' \subseteq 1..Len(logs),
           SlotOK(q, templates, logs), q.log = 0 \/ q.log = req[r].log
    PROVE  Shape'
<1>1. Typed
  BY Going DEF Typed, Shape, TypeOK, Templates
<1> QED
  BY <1>1, Going, QuietStep

LEMMA FinishStep ==
    ASSUME Shape, NEW r \in Req, Finish(r), UNCHANGED <<templates, logs>>,
           notFound' \subseteq Slugs, lost' \subseteq 1..Len(logs)
    PROVE  Shape'
<1>1. Idle.log = 0
  BY DEF Idle
<1> QED
  BY <1>1, IdleOK, GotoStep DEF Finish

(***************************************************************************)
(* Every action keeps the shape: a mail.                                   *)
(***************************************************************************)
LEMMA HandleEventOK ==
    ASSUME Shape, NEW r \in Req, NEW event \in Events, NEW lang \in Langs,
           HandleEvent(r, event, lang)
    PROVE  Shape'
<1> DEFINE q == [Idle EXCEPT !.pc = "resolve", !.lang = lang, !.slug = EmailListener[event]]
<1>1. event \in DOMAIN EmailListener /\ lang \in Languages
  BY ConstantsAssumption
<1>2. PICK s \in Slugs : s = EmailListener[event]
  BY <1>1, ListenerSlugs, DefaultSlug
<1>3. q \in Request /\ q.pc = "resolve" /\ q.slug = s
      /\ q.log = 0
  BY <1>1, <1>2 DEF Idle, Request
<1>4. SlotOK(q, templates, logs)
  <2> HIDE DEF q
  <2> QED BY <1>2, <1>3 DEF SlotOK, HasText
<1> QED
  BY <1>3, <1>4, BeginStep DEF HandleEvent

LEMMA SendBySlugOK ==
    ASSUME Shape, NEW r \in Req, NEW slug \in EditableSlugs, NEW lang \in Langs,
           SendBySlug(r, slug, lang)
    PROVE  Shape'
<1> DEFINE q == [Idle EXCEPT !.pc = "resolve", !.slug = slug, !.lang = lang]
<1>1. slug \in Slugs /\ lang \in Languages
  BY ConstantsAssumption
<1>2. q \in Request /\ q.pc = "resolve" /\ q.slug = slug
      /\ q.log = 0
  BY <1>1 DEF Idle, Request
<1>3. SlotOK(q, templates, logs)
  <2> HIDE DEF q
  <2> QED BY <1>1, <1>2 DEF SlotOK, HasText
<1> QED
  BY <1>2, <1>3, BeginStep DEF SendBySlug

LEMMA SendDirectOK ==
    ASSUME Shape, NEW r \in Req, SendDirect(r)
    PROVE  Shape'
<1> DEFINE q == [Idle EXCEPT !.pc = "log", !.text = "given"]
<1>1. q \in Request /\ q.pc = "log" /\ q.log = 0 /\ q.text = "given"
  BY DEF Idle, Request, Languages, DEFAULT_LANGUAGE
<1>2. SlotOK(q, templates, logs)
  <2> HIDE DEF q
  <2> QED BY <1>1 DEF SlotOK, HasText
<1> QED
  BY <1>1, <1>2, BeginStep DEF SendDirect

LEMMA ResolveStoredOnlyOK ==
    ASSUME Shape, NEW r \in Req, ResolveStoredOnly(r)
    PROVE  Shape'
<1>1. req[r].pc = "resolve" /\ UNCHANGED <<templates, logs, lost>>
  BY DEF ResolveStoredOnly
<1>2. SlotOK(req[r], templates, logs) /\ req[r] \in Request
  BY Held
<1>3. CASE Finish(r) /\ notFound' = notFound \cup {req[r].slug}
  BY <1>1, <1>2, <1>3, FinishStep DEF SlotOK, Shape, TypeOK
<1>4. CASE /\ StoredText(req[r]) # "none" /\ UNCHANGED notFound
           /\ Goto(r, [req[r] EXCEPT !.pc = "log", !.text = StoredText(req[r])])
  <2> DEFINE q == [req[r] EXCEPT !.pc = "log", !.text = StoredText(req[r])]
  <2>1. StoredText(req[r]) \in {"edited", "shipped"}
    BY <1>4 DEF StoredText
  <2>2. q \in Request /\ q.pc = "log" /\ q.text # "none"
        /\ q.slug = req[r].slug /\ q.log = req[r].log
    BY <1>2, <2>1 DEF Request
  <2>3. SlotOK(q, templates, logs)
    <3> HIDE DEF q
    <3> QED BY <1>1, <1>2, <2>2 DEF SlotOK, HasText
  <2> QED
    BY <1>1, <1>4, <2>2, <2>3, GotoStep DEF Shape, TypeOK
<1> QED
  BY <1>3, <1>4 DEF ResolveStoredOnly

LEMMA ResolveOK ==
    ASSUME Shape, NEW r \in Req, Resolve(r)
    PROVE  Shape'
<1>1. CASE ResolveStoredOnly(r)
  BY <1>1, ResolveStoredOnlyOK
<1>2. CASE /\ req[r].pc = "resolve"
           /\ Goto(r, [req[r] EXCEPT !.pc = "log", !.text = "shipped"])
           /\ UNCHANGED <<templates, logs, notFound, lost>>
  <2> DEFINE q == [req[r] EXCEPT !.pc = "log", !.text = "shipped"]
  <2>1. SlotOK(req[r], templates, logs) /\ req[r] \in Request
    BY Held
  <2>2. q \in Request /\ q.pc = "log" /\ q.text = "shipped"
        /\ q.slug = req[r].slug /\ q.log = req[r].log
    BY <2>1 DEF Request
  <2>3. SlotOK(q, templates, logs)
    <3> HIDE DEF q
    <3> QED BY <1>2, <2>1, <2>2 DEF SlotOK, HasText
  <2> QED
    BY <1>2, <2>2, <2>3, GotoStep DEF Shape, TypeOK
<1> QED
  BY <1>1, <1>2 DEF Resolve

\* A step that writes the log of r, or appends one for it.
LEMMA LogStep ==
    ASSUME Shape, NEW r \in Req, NEW q, Goto(r, q),
           UNCHANGED <<templates, notFound, lost>>, logs' \in Seq(Log),
           Len(logs) <= Len(logs'),
           \A l \in 1..Len(logs) : l # req[r].log => logs'[l] = logs[l],
           SlotOK(q, templates, logs'),
           q.log = 0 \/ q.log = req[r].log \/ q.log = Len(logs) + 1
    PROVE  Shape'
<1>0. Len(logs) \in Nat /\ Len(logs') \in Nat
  BY DEF Shape, TypeOK
<1>1. Typed
  BY <1>0, Going DEF Typed, Shape, TypeOK, Templates
<1>2. req' \in [Req -> Request] /\ req'[r] = q
  BY Going DEF Shape, TypeOK, SlotOK
<1>3. \A s \in Req : s # r => req'[s] = req[s]
  BY Going DEF Shape, TypeOK
<1>4. ASSUME NEW s \in Req, s # r
      PROVE  SlotOK(req[s], templates, logs')
  <2>1. SlotOK(req[s], templates, logs) /\ req[s] \in Request
    BY Held
  <2>2. CASE req[s].pc \in {"send", "record"}
    <3>1. req[s].log \in 1..Len(logs) /\ req[s].log # req[r].log
      BY <1>4, <2>1, <2>2 DEF SlotOK, Shape, LogsOwned
    <3>2. PICK l \in 1..Len(logs) : l = req[s].log
      BY <3>1
    <3>3. logs'[l] = logs[l] /\ l \in 1..Len(logs')
      BY <1>0, <3>1, <3>2
    <3> QED
      BY <2>1, <2>2, <3>2, <3>3 DEF SlotOK
  <2>3. CASE req[s].pc \notin {"send", "record"}
    BY <2>1, <2>3 DEF SlotOK
  <2> QED
    BY <2>2, <2>3
<1>5. \A s \in Req : SlotOK(req'[s], templates', logs')
  BY <1>2, <1>3, <1>4
<1>6. \A s \in Req : req[s].log # Len(logs) + 1
  <2> SUFFICES ASSUME NEW s \in Req PROVE req[s].log # Len(logs) + 1
    OBVIOUS
  <2>1. SlotOK(req[s], templates, logs)
    BY Held
  <2> QED
    BY <1>0, <2>1 DEF SlotOK
<1>7. q.log # 0 => \A s \in Req : s # r => req[s].log # q.log
  BY <1>6 DEF Shape, LogsOwned
<1> QED
  BY <1>1, <1>2, <1>3, <1>5, <1>7, SlotStep

LEMMA CreateLogOK ==
    ASSUME Shape, NEW r \in Req, CreateLog(r)
    PROVE  /\ Shape'
           /\ Len(logs') = Len(logs) + 1
           /\ \A l \in 1..Len(logs) : logs'[l] = logs[l]
           /\ logs'[Len(logs')] = [status |-> "pending", calls |-> 0,
                                   accepted |-> FALSE]
           /\ Handling(req'[r], Len(logs'))
<1> DEFINE new == [status |-> "pending", calls |-> 0, accepted |-> FALSE]
           q == [req[r] EXCEPT !.pc = "send", !.log = Len(logs) + 1]
<1>1. req[r].pc = "log" /\ logs' = Append(logs, new) /\ Goto(r, q)
      /\ UNCHANGED <<templates, notFound, lost>>
  BY DEF CreateLog
<1>2. logs \in Seq(Log) /\ new \in Log /\ Len(logs) \in Nat
  BY DEF Shape, TypeOK, Log
<1>3. /\ logs' \in Seq(Log) /\ Len(logs') = Len(logs) + 1
      /\ \A l \in 1..Len(logs) : logs'[l] = logs[l]
      /\ logs'[Len(logs) + 1] = new
  <2> HIDE DEF new
  <2> QED BY <1>1, <1>2, AppendProperties
<1>4. SlotOK(req[r], templates, logs) /\ req[r] \in Request
  BY Held
<1>5. PICK n \in Nat : n = Len(logs) + 1 /\ n # 0 /\ n \in 1..Len(logs')
  BY <1>2, <1>3
<1>6. q \in Request /\ q.pc = "send" /\ q.text = req[r].text
      /\ q.slug = req[r].slug /\ q.log = n
  BY <1>4, <1>5 DEF Request
<1>7. logs'[n].status = "pending" /\ logs'[n].calls = 0
  BY <1>3, <1>5
<1>8. SlotOK(q, templates, logs')
  <2> HIDE DEF q
  <2> QED BY <1>1, <1>4, <1>5, <1>6, <1>7 DEF SlotOK, HasText
<1>9. Shape'
  <2>1. Len(logs) <= Len(logs') /\ q.log = Len(logs) + 1
    BY <1>2, <1>3, <1>5, <1>6
  <2>2. \A l \in 1..Len(logs) : l # req[r].log => logs'[l] = logs[l]
    BY <1>3
  <2> HIDE DEF q
  <2> QED BY <1>1, <1>3, <1>8, <2>1, <2>2, LogStep
<1>10. req'[r] = q
  BY <1>1, Going DEF Shape, TypeOK
<1> QED
  BY <1>3, <1>5, <1>6, <1>9, <1>10 DEF Handling

\* The log of a request whose mail is being delivered.
LEMMA LogOf ==
    ASSUME Shape, NEW r \in Req, req[r].pc \in {"send", "record"}
    PROVE  /\ req[r].log \in 1..Len(logs) /\ req[r].log # 0
           /\ logs[req[r].log] \in Log /\ logs[req[r].log].status = "pending"
<1>1. SlotOK(req[r], templates, logs)
  BY Held
<1>2. req[r].log \in 1..Len(logs) /\ logs[req[r].log].status = "pending"
  BY <1>1 DEF SlotOK
<1> QED
  BY <1>2, ElementOfSeq DEF Shape, TypeOK

LEMMA SendOK ==
    ASSUME Shape, NEW r \in Req, Send(r)
    PROVE  /\ Shape'
           /\ \E l \in 1..Len(logs), accepted, success \in BOOLEAN :
                /\ l = req[r].log
                /\ Len(logs') = Len(logs)
                /\ \A k \in 1..Len(logs) : k # l => logs'[k] = logs[k]
                /\ logs'[l].calls = 1 /\ logs'[l].status = "pending"
                /\ Handling(req'[r], l)
<1>1. req[r].pc = "send" /\ UNCHANGED <<templates, notFound, lost>>
  BY DEF Send
<1>2. PICK l \in DOMAIN logs, accepted, success \in BOOLEAN :
        /\ l = req[r].log
        /\ success => accepted
        /\ logs' = [logs EXCEPT ![l] = Called(logs[l], accepted)]
        /\ Goto(r, [req[r] EXCEPT !.pc = "record", !.success = success])
  BY DEF Send
<1> DEFINE q == [req[r] EXCEPT !.pc = "record", !.success = success]
<1>3. SlotOK(req[r], templates, logs) /\ req[r] \in Request
  BY Held
<1>4. logs[l] \in Log /\ logs[l].status = "pending" /\ logs[l].calls = 0
      /\ l \in 1..Len(logs) /\ logs \in Seq(Log)
  BY <1>1, <1>2, <1>3, LogOf DEF SlotOK, Shape, TypeOK
<1> DEFINE e == Called(logs[l], accepted)
<1>5. e \in Log /\ e.status = "pending" /\ e.calls = 1 /\ e.accepted = accepted
  <2>1. PICK n \in Nat : n = logs[l].calls + 1 /\ n = 1
    BY <1>4
  <2>2. e = [logs[l] EXCEPT !.calls = n, !.accepted = accepted]
    BY <2>1 DEF Called
  <2>3. e \in Log
    BY <1>4, <2>2 DEF Log
  <2>4. e.status = "pending" /\ e.calls = 1
    BY <1>4, <2>1, <2>2 DEF Log
  <2>5. e.accepted = accepted
    BY <1>4, <2>2, Zenon DEF Log
  <2> QED
    BY <2>3, <2>4, <2>5
<1>6. logs' = [logs EXCEPT ![l] = e]
  BY <1>2
<1> HIDE DEF e
<1>7. logs' \in Seq(Log) /\ Len(logs') = Len(logs) /\ logs'[l] = e
      /\ \A k \in 1..Len(logs) : k # l => logs'[k] = logs[k]
  BY <1>4, <1>5, <1>6, ExceptSeq
<1>8. q \in Request /\ q.pc = "record" /\ q.text = req[r].text
      /\ q.slug = req[r].slug /\ q.log = l /\ q.success = success
  BY <1>2, <1>3 DEF Request
<1>9. SlotOK(q, templates, logs')
  <2> HIDE DEF q
  <2> QED BY <1>2, <1>3, <1>4, <1>5, <1>7, <1>8 DEF SlotOK, HasText, Log
<1>10. Shape'
  <2>1. Len(logs) <= Len(logs')
    BY <1>4, <1>7
  <2> QED
    BY <1>1, <1>2, <1>7, <1>8, <1>9, <2>1, LogStep
<1>11. req'[r] = q
  BY <1>2, Going DEF Shape, TypeOK
<1>12. Handling(req'[r], l)
  BY <1>8, <1>11 DEF Handling
<1>13. logs'[l].calls = 1 /\ logs'[l].status = "pending"
  BY <1>5, <1>7
<1> QED
  BY <1>2, <1>4, <1>7, <1>10, <1>12, <1>13

LEMMA RecordOutcomeOK ==
    ASSUME Shape, NEW r \in Req, RecordOutcome(r)
    PROVE  /\ Shape'
           /\ \E l \in 1..Len(logs) :
                /\ l = req[r].log
                /\ Len(logs') = Len(logs)
                /\ \A k \in 1..Len(logs) : k # l => logs'[k] = logs[k]
                /\ logs'[l].calls = 1 /\ logs'[l].status # "pending"
                /\ logs'[l].status = "sent" => logs'[l].accepted
<1>1. req[r].pc = "record" /\ Finish(r) /\ UNCHANGED <<templates, notFound, lost>>
  BY DEF RecordOutcome
<1>2. PICK l \in DOMAIN logs, outcome \in {"sent", "failed"} :
        /\ l = req[r].log
        /\ req[r].success <=> outcome = "sent"
        /\ logs' = [logs EXCEPT ![l] = [@ EXCEPT !.status = outcome]]
  BY DEF RecordOutcome
<1>3. SlotOK(req[r], templates, logs) /\ req[r] \in Request
  BY Held
<1>4. logs[l] \in Log /\ logs[l].calls = 1
      /\ l \in 1..Len(logs) /\ logs \in Seq(Log)
      /\ (req[r].success => logs[l].accepted)
  BY <1>1, <1>2, <1>3, LogOf DEF SlotOK, Shape, TypeOK
<1> DEFINE e == [logs[l] EXCEPT !.status = outcome]
<1>5. e \in Log /\ e.status = outcome /\ e.calls = 1
      /\ e.accepted = logs[l].accepted
  BY <1>4 DEF Log
<1>6. logs' = [logs EXCEPT ![l] = e]
  BY <1>2
<1> HIDE DEF e
<1>7. logs' \in Seq(Log) /\ Len(logs') = Len(logs) /\ logs'[l] = e
      /\ \A k \in 1..Len(logs) : k # l => logs'[k] = logs[k]
  BY <1>4, <1>5, <1>6, ExceptSeq
<1>8. Shape'
  <2>1. Len(logs) <= Len(logs') /\ Idle.log = 0
    BY <1>4, <1>7 DEF Idle
  <2> QED
    BY <1>1, <1>2, <1>7, <2>1, IdleOK, LogStep DEF Finish
<1>9. /\ logs'[l].calls = 1 /\ logs'[l].status # "pending"
      /\ logs'[l].status = "sent" => logs'[l].accepted
  BY <1>2, <1>4, <1>5, <1>7, Zenon
<1> QED
  BY <1>2, <1>4, <1>7, <1>8, <1>9

(***************************************************************************)
(* Every action keeps the shape: templates.                                *)
(***************************************************************************)
LEMMA CreateCheckOK ==
    ASSUME Shape, NEW r \in Req, NEW slug \in EditableSlugs, CreateCheck(r, slug)
    PROVE  Shape'
<1> DEFINE q == [Idle EXCEPT !.pc = "create", !.slug = slug]
<1>1. slug \in Slugs
  BY ConstantsAssumption
<1>2. q \in Request /\ q.pc = "create" /\ q.slug = slug
      /\ q.log = 0
  BY <1>1 DEF Idle, Request, Languages, DEFAULT_LANGUAGE
<1>3. SlotOK(q, templates, logs)
  <2> HIDE DEF q
  <2> QED BY <1>1, <1>2 DEF SlotOK, HasText
<1> QED
  BY <1>2, <1>3, BeginStep DEF CreateCheck

LEMMA UpdateLookupOK ==
    ASSUME Shape, NEW r \in Req, NEW slug \in EditableSlugs,
           NEW target \in EditableSlugs, NEW active \in BOOLEAN,
           UpdateLookup(r, slug, target, active)
    PROVE  Shape'
<1> DEFINE q == [Idle EXCEPT !.pc = "update", !.slug = slug, !.target = target,
                             !.active = active,
                             !.version = templates[slug].version + 1]
<1>1. slug \in Slugs /\ target \in Slugs
  BY ConstantsAssumption
<1>2. templates[slug] # Absent /\ templates[slug] \in Template
  BY <1>1, TemplateAbsent DEF UpdateLookup, existsBySlug, Shape, TypeOK
<1>3. PICK n \in Nat : n = templates[slug].version + 1
  BY <1>2 DEF Template
<1>4. q \in Request
  BY <1>1, <1>3 DEF Idle, Request, Languages, DEFAULT_LANGUAGE
<1>5. q.pc = "update" /\ q.slug = slug
      /\ q.target = target /\ q.version = n /\ q.log = 0
  BY <1>3 DEF Idle
<1>6. SlotOK(q, templates, logs)
  <2> HIDE DEF q
  <2> QED BY <1>1, <1>2, <1>3, <1>4, <1>5 DEF SlotOK, HasText
<1> QED
  BY <1>5, <1>6, BeginStep DEF UpdateLookup

\* A step that writes templates and leaves q, without a log, in slot r.
LEMMA TemplateWrite ==
    ASSUME Shape, NEW r \in Req, NEW q, q.log = 0, SlotOK(q, templates', logs),
           templates' \in Templates, started' \in 0..MaxStarts,
           UNCHANGED <<logs, notFound, lost>>,
           req' \in [Req -> Request], req'[r] = q,
           \A s \in Req : s # r =>
             \/ req'[s] = [req[s] EXCEPT !.stale = TRUE]
             \/ /\ req'[s] = req[s]
                /\ req[s].pc = "update" /\ ~req[s].stale
                   => templates'[req[s].slug] = templates[req[s].slug]
    PROVE  Shape'
<1>1. Typed
  BY DEF Typed, Shape, TypeOK
<1>2. ASSUME NEW s \in Req, s # r
      PROVE  req'[s].log = req[s].log /\ SlotOK(req'[s], templates', logs)
  <2>1. SlotOK(req[s], templates, logs) /\ req[s] \in Request
    BY Held
  <2>2. CASE req'[s] = [req[s] EXCEPT !.stale = TRUE]
    <3> DEFINE p == [req[s] EXCEPT !.stale = TRUE]
    <3>1. /\ p \in Request /\ p.pc = req[s].pc /\ p.text = req[s].text
          /\ p.slug = req[s].slug /\ p.next = req[s].next
          /\ p.target = req[s].target /\ p.log = req[s].log
          /\ p.stale = TRUE
      BY <2>1 DEF Request
    <3>2. p.success = req[s].success
      BY <2>1, Zenon DEF Request
    <3>3. SlotOK(p, templates', logs)
      <4> HIDE DEF p
      <4> QED BY <2>1, <3>1, <3>2 DEF SlotOK, HasText
    <3> QED
      BY <2>2, <3>1, <3>3
  <2>3. CASE /\ req'[s] = req[s]
             /\ req[s].pc = "update" /\ ~req[s].stale
                => templates'[req[s].slug] = templates[req[s].slug]
    BY <2>1, <2>3 DEF SlotOK
  <2> QED
    BY <1>2, <2>2, <2>3
<1>3. \A s \in Req : SlotOK(req'[s], templates', logs')
  BY <1>2
<1> QED
  BY <1>1, <1>2, <1>3, SlotStep

\* A step that inserts a template: whoever is updating that slug read one that
\* has gone.
LEMMA InsertStep ==
    ASSUME Shape, NEW r \in Req, NEW slug \in Slugs, NEW t \in Template,
           ~existsBySlug(slug), templates' = [templates EXCEPT ![slug] = t],
           UNCHANGED <<logs, notFound, lost>>,
           NEW q, Goto(r, q), q.log = 0, SlotOK(q, templates', logs)
    PROVE  Shape'
<1>1. templates' \in Templates
  BY DEF Shape, TypeOK, Templates
<1>2. req' \in [Req -> Request] /\ req'[r] = q /\ started' \in 0..MaxStarts
  BY Going DEF Shape, TypeOK, SlotOK
<1>3. ASSUME NEW s \in Req, s # r
      PROVE  /\ req'[s] = req[s]
             /\ req[s].pc = "update" /\ ~req[s].stale
                => templates'[req[s].slug] = templates[req[s].slug]
  <2>1. SlotOK(req[s], templates, logs)
    BY Held
  <2> QED
    BY <1>3, <2>1, Going DEF SlotOK, existsBySlug, Shape, TypeOK
<1> QED
  BY <1>1, <1>2, <1>3, TemplateWrite

LEMMA ShippedType == Shipped \in Template /\ [Shipped EXCEPT !.edited = TRUE] \in Template
BY DEF Shipped, Template

LEMMA CreateTemplateOK ==
    ASSUME Shape, NEW r \in Req, CreateTemplate(r)
    PROVE  Shape'
<1>1. req[r].pc = "create" /\ UNCHANGED <<logs, notFound, lost>> /\ Finish(r)
  BY DEF CreateTemplate
<1>2. PICK slug \in Slugs : slug = req[r].slug
  BY <1>1, Held DEF SlotOK
<1>3. CASE UNCHANGED templates
  BY <1>1, <1>3, FinishStep DEF Shape, TypeOK
<1>4. CASE /\ ~existsBySlug(slug)
           /\ templates' = [templates EXCEPT
                              ![slug] = [Shipped EXCEPT !.edited = TRUE]]
  <2>1. Idle.log = 0 /\ SlotOK(Idle, templates', logs)
    BY IdleOK DEF Idle
  <2> QED
    BY <1>1, <1>4, <2>1, ShippedType, InsertStep DEF Finish
<1> QED
  BY <1>2, <1>3, <1>4 DEF CreateTemplate

LEMMA SeedCreateOK ==
    ASSUME Shape, NEW r \in Req, SeedCreate(r)
    PROVE  Shape'
<1>1. req[r].pc = "seedCreate" /\ UNCHANGED <<logs, notFound, lost>>
  BY DEF SeedCreate
<1>2. PICK slug \in Slugs : slug = req[r].slug
  BY <1>1, Held DEF SlotOK
<1>3. CASE Finish(r) /\ UNCHANGED templates
  BY <1>1, <1>3, FinishStep DEF Shape, TypeOK
<1>4. CASE /\ ~existsBySlug(slug)
           /\ templates' = [templates EXCEPT ![slug] = Shipped]
           /\ Goto(r, [req[r] EXCEPT !.pc = "seed", !.slug = Absent,
                                     !.next = @ + 1])
  <2>1. SlotOK(req[r], templates, logs) /\ req[r] \in Request
    BY Held
  <2>2. PICK n \in Nat : n = req[r].next + 1
    BY <2>1 DEF Request
  <2> DEFINE q == [req[r] EXCEPT !.pc = "seed", !.slug = Absent, !.next = n]
  <2>3. q \in Request /\ q.pc = "seed" /\ q.log = 0
    BY <1>1, <2>1, <2>2 DEF Request, SlotOK
  <2>4. SlotOK(q, templates', logs)
    <3> HIDE DEF q
    <3> QED BY <2>3 DEF SlotOK, HasText
  <2>5. Goto(r, q)
    BY <1>4, <2>2
  <2> QED
    BY <1>1, <1>4, <2>3, <2>4, <2>5, ShippedType, InsertStep
<1> QED
  BY <1>2, <1>3, <1>4 DEF SeedCreate

LEMMA UpdatedType ==
    ASSUME NEW q \in Request, q.slug \in Slugs, templates \in Templates,
           existsBySlug(q.slug)
    PROVE  /\ Updated(q) \in Template
           /\ Updated(q).version = q.version
           /\ Updated(q).edits = templates[q.slug].edits + 1
           /\ ~Updated(q).overlapped =>
                ~templates[q.slug].overlapped /\ ~q.stale
<1>1. PICK t \in Template : t = templates[q.slug]
  BY TemplateAbsent DEF existsBySlug, Templates
<1>2. PICK n \in Nat : n = t.edits + 1
  BY <1>1 DEF Template
<1>3. PICK o \in BOOLEAN : o <=> t.overlapped \/ q.stale
  OBVIOUS
<1>4. Updated(q) = [t EXCEPT !.version = q.version, !.active = q.active,
                             !.edited = TRUE, !.edits = n, !.overlapped = o]
  BY <1>1, <1>2, <1>3, Zenon DEF Updated, Request, Template
<1>5. Updated(q) \in Template /\ Updated(q).version = q.version
      /\ Updated(q).edits = n
  BY <1>1, <1>4 DEF Request, Template
<1>6. Updated(q).overlapped = o
  BY <1>1, <1>4, Zenon DEF Template
<1> QED
  BY <1>1, <1>2, <1>3, <1>5, <1>6

LEMMA UpdateTemplateOK ==
    ASSUME Shape, NEW r \in Req, UpdateTemplate(r)
    PROVE  Shape'
<1>1. req[r].pc = "update" /\ UNCHANGED <<logs, notFound, lost>>
  BY DEF UpdateTemplate
<1>2. req[r] \in Request /\ req[r].slug \in Slugs /\ req[r].target \in Slugs
  BY <1>1, Held DEF SlotOK
<1>3. CASE Finish(r) /\ UNCHANGED templates
  BY <1>1, <1>3, FinishStep DEF Shape, TypeOK
<1>4. CASE /\ existsBySlug(req[r].slug)
           /\ req[r].target = req[r].slug \/ ~existsBySlug(req[r].target)
           /\ templates' = [s \in Slugs |->
                              IF s = req[r].target THEN Updated(req[r])
                              ELSE IF s = req[r].slug THEN Absent
                              ELSE templates[s]]
           /\ req' = [Overtaken(req[r].slug) EXCEPT ![r] = Idle]
           /\ UNCHANGED started
  <2>1. Idle.log = 0 /\ SlotOK(Idle, templates', logs)
    BY IdleOK DEF Idle
  <2>2. templates' \in Templates
    BY <1>2, <1>4, UpdatedType DEF Templates, Shape, TypeOK
  <2>3. Idle \in Request /\ \A s \in Req : req[s] \in Request
    BY <2>1, Held DEF SlotOK
  <2>4. \A s \in Req : [req[s] EXCEPT !.stale = TRUE] \in Request
    BY <2>3 DEF Request
  <2>5. req' \in [Req -> Request] /\ req'[r] = Idle
    BY <1>4, <2>3, <2>4 DEF Overtaken
  <2>6. ASSUME NEW s \in Req, s # r
        PROVE  \/ req'[s] = [req[s] EXCEPT !.stale = TRUE]
               \/ /\ req'[s] = req[s]
                  /\ req[s].pc = "update" /\ ~req[s].stale
                     => templates'[req[s].slug] = templates[req[s].slug]
    <3>1. CASE req[s].pc = "update" /\ req[s].slug = req[r].slug
      BY <1>4, <2>6, <3>1 DEF Overtaken
    <3>2. CASE ~(req[s].pc = "update" /\ req[s].slug = req[r].slug)
      <4>1. req'[s] = req[s]
        BY <1>4, <2>6, <3>2 DEF Overtaken
      <4>2. ASSUME req[s].pc = "update", ~req[s].stale
            PROVE  templates'[req[s].slug] = templates[req[s].slug]
        <5>1. req[s].slug \in Slugs /\ existsBySlug(req[s].slug)
          BY <4>2, Held DEF SlotOK, existsBySlug
        <5>2. req[s].slug # req[r].slug /\ req[s].slug # req[r].target
          BY <1>4, <3>2, <4>2, <5>1
        <5> QED
          BY <1>4, <5>1, <5>2
      <4> QED
        BY <4>1, <4>2
    <3> QED
      BY <3>1, <3>2
  <2>7. started' \in 0..MaxStarts
    BY <1>4 DEF Shape, TypeOK
  <2> QED
    BY <1>1, <2>1, <2>2, <2>5, <2>6, <2>7, TemplateWrite
<1> QED
  BY <1>3, <1>4 DEF UpdateTemplate

LEMMA DeleteTemplateOK ==
    ASSUME Shape, NEW r \in Req, NEW slug \in EditableSlugs,
           DeleteTemplate(r, slug)
    PROVE  Shape'
<1>1. /\ req[r].pc = "idle" /\ slug \in Slugs
      /\ templates' = [templates EXCEPT ![slug] = Absent]
      /\ req' = Overtaken(slug) /\ UNCHANGED <<logs, notFound, lost>>
  BY ConstantsAssumption DEF DeleteTemplate
<1>2. started' \in 0..MaxStarts
  BY ConstantsAssumption DEF DeleteTemplate, Shape, TypeOK
<1>3. templates' \in Templates
  BY <1>1 DEF Templates, Shape, TypeOK
<1>4. \A s \in Req : req[s] \in Request
  BY Held
<1>5. \A s \in Req : [req[s] EXCEPT !.stale = TRUE] \in Request
  BY <1>4 DEF Request
<1>6. req' \in [Req -> Request] /\ req'[r] = req[r]
  BY <1>1, <1>4, <1>5 DEF Overtaken
<1>7. req[r].log = 0 /\ SlotOK(req[r], templates', logs)
  BY <1>1, Held DEF SlotOK
<1>8. ASSUME NEW s \in Req, s # r
      PROVE  \/ req'[s] = [req[s] EXCEPT !.stale = TRUE]
             \/ /\ req'[s] = req[s]
                /\ req[s].pc = "update" /\ ~req[s].stale
                   => templates'[req[s].slug] = templates[req[s].slug]
  <2>1. CASE req[s].pc = "update" /\ req[s].slug = slug
    BY <1>1, <2>1 DEF Overtaken
  <2>2. CASE ~(req[s].pc = "update" /\ req[s].slug = slug)
    <3>1. req[s].pc = "update" => req[s].slug \in Slugs
      BY Held DEF SlotOK
    <3> QED
      BY <1>1, <2>2, <3>1 DEF Overtaken, Shape, TypeOK
  <2> QED
    BY <2>1, <2>2
<1> QED
  BY <1>1, <1>2, <1>3, <1>6, <1>7, <1>8, TemplateWrite

LEMMA SeedDefaultsOK ==
    ASSUME Shape, NEW r \in Req, SeedDefaults(r)
    PROVE  Shape'
<1> DEFINE q == [Idle EXCEPT !.pc = "seed", !.next = 1]
<1>1. q \in Request /\ q.pc = "seed" /\ q.log = 0
  BY DEF Idle, Request, Languages, DEFAULT_LANGUAGE
<1>2. SlotOK(q, templates, logs)
  <2> HIDE DEF q
  <2> QED BY <1>1 DEF SlotOK, HasText
<1> QED
  BY <1>1, <1>2, BeginStep DEF SeedDefaults

LEMMA SeedNextOK ==
    ASSUME Shape, NEW r \in Req, SeedNext(r)
    PROVE  Shape'
<1>1. req[r].pc = "seed" /\ UNCHANGED <<templates, logs, notFound, lost>>
  BY DEF SeedNext
<1>2. notFound' \subseteq Slugs /\ lost' \subseteq 1..Len(logs)
  BY <1>1 DEF Shape, TypeOK
<1>3. SlotOK(req[r], templates, logs) /\ req[r] \in Request
      /\ req[r].log = 0
  BY <1>1, Held DEF SlotOK
<1>4. CASE Finish(r)
  BY <1>1, <1>2, <1>4, FinishStep
<1>5. CASE Goto(r, [req[r] EXCEPT !.next = @ + 1])
  <2>1. PICK n \in Nat : n = req[r].next + 1
    BY <1>3 DEF Request
  <2> DEFINE q == [req[r] EXCEPT !.next = n]
  <2>2. q \in Request /\ q.pc = "seed" /\ q.log = 0
    BY <1>1, <1>3 DEF Request
  <2>3. SlotOK(q, templates, logs)
    <3> HIDE DEF q
    <3> QED BY <2>2 DEF SlotOK, HasText
  <2>4. Goto(r, q)
    BY <1>5, <2>1
  <2> QED
    BY <1>1, <1>2, <2>2, <2>3, <2>4, GotoStep
<1>6. CASE /\ req[r].next \in 1..7
           /\ Goto(r, [req[r] EXCEPT !.pc = "seedCreate",
                          !.slug = DEFAULT_TEMPLATES[req[r].next]])
  <2>1. PICK s \in Slugs : s = DEFAULT_TEMPLATES[req[r].next]
    BY <1>6, DefaultSlug
  <2> DEFINE q == [req[r] EXCEPT !.pc = "seedCreate", !.slug = s]
  <2>2. q \in Request /\ q.pc = "seedCreate" /\ q.log = 0
        /\ q.slug = s /\ q.next = req[r].next
    BY <1>1, <1>3 DEF Request
  <2>3. SlotOK(q, templates, logs)
    <3> HIDE DEF q
    <3> QED BY <1>6, <2>2 DEF SlotOK, HasText
  <2>4. Goto(r, q)
    BY <1>6, <2>1
  <2> QED
    BY <1>1, <1>2, <2>2, <2>3, <2>4, GotoStep
<1> QED
  BY <1>4, <1>5, <1>6 DEF SeedNext

LEMMA RequestFailsOK ==
    ASSUME Shape, NEW r \in Req, RequestFails(r)
    PROVE  Shape'
<1>1. Finish(r) /\ UNCHANGED <<templates, logs, notFound>>
      /\ lost' = IF req[r].log # 0 THEN lost \cup {req[r].log} ELSE lost
  BY DEF RequestFails
<1>2. req[r].log # 0 => req[r].log \in 1..Len(logs)
  BY Held DEF SlotOK
<1>3. notFound' \subseteq Slugs /\ lost' \subseteq 1..Len(logs)
  BY <1>1, <1>2 DEF Shape, TypeOK
<1> QED
  BY <1>1, <1>3, FinishStep

LEMMA InitOK == Init => Shape
<1> SUFFICES ASSUME Init PROVE Shape
  OBVIOUS
<1>1. TypeOK
  BY ShippedType, ConstantsAssumption, IdleOK, EmptySeq
     DEF Init, TypeOK, SlotOK
<1>2. SlotsOK
  BY IdleOK DEF Init, SlotsOK
<1>3. LogsOwned
  BY DEF Init, LogsOwned, Idle
<1> QED
  BY <1>1, <1>2, <1>3 DEF Shape

LEMMA NextOK == Shape /\ [Next]_vars => Shape'
<1> SUFFICES ASSUME Shape, [Next]_vars PROVE Shape'
  OBVIOUS
<1>1. CASE UNCHANGED vars
  BY <1>1 DEF vars, Shape, TypeOK, SlotsOK, LogsOwned
<1>2. ASSUME NEW r \in Req, MailStep(r) PROVE Shape'
  BY <1>2, ResolveOK, CreateLogOK, SendOK, RecordOutcomeOK DEF MailStep
<1>3. ASSUME NEW r \in Req, TemplateStep(r) PROVE Shape'
  BY <1>3, CreateTemplateOK, UpdateTemplateOK, SeedNextOK, SeedCreateOK
     DEF TemplateStep
<1>4. ASSUME NEW r \in Req,
             RequestFails(r) \/ SendDirect(r) \/ SeedDefaults(r)
      PROVE  Shape'
  BY <1>4, RequestFailsOK, SendDirectOK, SeedDefaultsOK
<1>5. ASSUME NEW r \in Req, NEW lang \in Langs,
             \/ \E event \in Events : HandleEvent(r, event, lang)
             \/ \E slug \in EditableSlugs : SendBySlug(r, slug, lang)
      PROVE  Shape'
  BY <1>5, HandleEventOK, SendBySlugOK
<1>6. ASSUME NEW r \in Req, NEW slug \in EditableSlugs,
             CreateCheck(r, slug) \/ DeleteTemplate(r, slug)
      PROVE  Shape'
  BY <1>6, CreateCheckOK, DeleteTemplateOK
<1>7. ASSUME NEW r \in Req, NEW slug \in EditableSlugs,
             NEW target \in EditableSlugs, NEW active \in BOOLEAN,
             UpdateLookup(r, slug, target, active)
      PROVE  Shape'
  BY <1>7, UpdateLookupOK
<1> QED
  BY <1>1, <1>2, <1>3, <1>4, <1>5, <1>6, <1>7 DEF Next

\* The shape of a slot holds in every reachable state.
THEOREM Shaped == Spec => []Shape
BY InitOK, NextOK, PTL DEF Spec

\* The types of the collections, the slots and the history
\* (email-template.entity.ts, email-log.entity.ts).
THEOREM TypeCorrect == Spec => []TypeOK
<1>1. Shape => TypeOK
  BY DEF Shape
<1> QED
  BY <1>1, Shaped, PTL

(***************************************************************************)
(* Texts.  A mail of the application always finds one: only Resolve writes *)
(* notFound, and never with a shipped slug.                                *)
(***************************************************************************)
LEMMA SendableNext == DefaultAlwaysSendable /\ [Next]_vars => DefaultAlwaysSendable'
<1> SUFFICES ASSUME DefaultAlwaysSendable, [Next]_vars
             PROVE  DefaultAlwaysSendable'
  OBVIOUS
<1>1. CASE UNCHANGED notFound
  BY <1>1 DEF DefaultAlwaysSendable
<1>2. ASSUME NEW r \in Req, Resolve(r)
      PROVE  DefaultAlwaysSendable'
  BY <1>2 DEF Resolve, ResolveStoredOnly, DefaultAlwaysSendable
<1>3. ASSUME NEW r \in Req,
             CreateLog(r) \/ Send(r) \/ RecordOutcome(r) \/ TemplateStep(r)
      PROVE  UNCHANGED notFound
  BY <1>3 DEF CreateLog, Send, RecordOutcome, TemplateStep, CreateTemplate,
              UpdateTemplate, SeedNext, SeedCreate
<1>4. ASSUME NEW r \in Req,
             RequestFails(r) \/ SendDirect(r) \/ SeedDefaults(r)
      PROVE  UNCHANGED notFound
  BY <1>4 DEF RequestFails, SendDirect, SeedDefaults
<1>5. ASSUME NEW r \in Req, NEW lang \in Langs,
             \/ \E event \in Events : HandleEvent(r, event, lang)
             \/ \E slug \in EditableSlugs : SendBySlug(r, slug, lang)
      PROVE  UNCHANGED notFound
  BY <1>5 DEF HandleEvent, SendBySlug
<1>6. ASSUME NEW r \in Req, NEW slug \in EditableSlugs,
             \/ CreateCheck(r, slug) \/ DeleteTemplate(r, slug)
             \/ \E target \in EditableSlugs, active \in BOOLEAN :
                  UpdateLookup(r, slug, target, active)
      PROVE  UNCHANGED notFound
  BY <1>6 DEF CreateCheck, DeleteTemplate, UpdateLookup
<1> QED
  BY <1>1, <1>2, <1>3, <1>4, <1>5, <1>6 DEF Next, MailStep, vars

\* No mail of the application is dropped for want of a template, whatever the
\* administrators do to them (email-template.service.ts:155-189).
THEOREM Sendable == Spec => []DefaultAlwaysSendable
<1>1. Init => DefaultAlwaysSendable
  BY DEF Init, DefaultAlwaysSendable
<1> QED
  BY <1>1, SendableNext, PTL DEF Spec

(***************************************************************************)
(* Versions.  A template in the collection is kept, is inserted at version *)
(* 1 with no update, or is updated by a request whose slot says from which *)
(* version.                                                                *)
(***************************************************************************)
Counted(t) == ~t.overlapped => t.version = 1 + t.edits

LEMMA ShippedCounted == Counted(Shipped) /\ Counted([Shipped EXCEPT !.edited = TRUE])
BY DEF Counted, Shipped

LEMMA UpdatedCounted ==
    ASSUME Shape, VersionCountsEdits, NEW r \in Req, req[r].pc = "update",
           existsBySlug(req[r].slug)
    PROVE  Counted(Updated(req[r]))
<1>1. SlotOK(req[r], templates, logs) /\ req[r] \in Request /\ req[r].slug \in Slugs
  BY Held DEF SlotOK
<1>2. templates[req[r].slug] \in Template /\ templates \in Templates
  BY <1>1 DEF existsBySlug, Shape, TypeOK, Templates
<1>3. PICK t \in Template : t = templates[req[r].slug]
  BY <1>2
<1>4. t.overlapped \/ t.version = 1 + t.edits
  BY <1>1, <1>3 DEF VersionCountsEdits
<1>5. req[r].stale \/ req[r].version = t.version + 1
  BY <1>1, <1>3 DEF SlotOK
<1>6. /\ Updated(req[r]).version = req[r].version
      /\ Updated(req[r]).edits = t.edits + 1
      /\ ~Updated(req[r]).overlapped => ~t.overlapped /\ ~req[r].stale
  BY <1>1, <1>2, <1>3, UpdatedType
<1>7. t.version \in Nat /\ t.edits \in Nat
  BY <1>3 DEF Template
<1> QED
  BY <1>4, <1>5, <1>6, <1>7 DEF Counted

\* A step each of whose templates is kept, absent or counted.
LEMMA VersionStep ==
    ASSUME VersionCountsEdits,
           \A s \in Slugs : \/ templates'[s] = templates[s]
                            \/ templates'[s] = Absent
                            \/ Counted(templates'[s])
    PROVE  VersionCountsEdits'
BY DEF VersionCountsEdits, Counted, existsBySlug

LEMMA CreateTemplateCounted ==
    ASSUME Shape, VersionCountsEdits, NEW r \in Req,
           CreateTemplate(r) \/ SeedCreate(r)
    PROVE  VersionCountsEdits'
<1>1. \/ UNCHANGED templates
      \/ templates' = [templates EXCEPT ![req[r].slug] = Shipped]
      \/ templates' = [templates EXCEPT
                         ![req[r].slug] = [Shipped EXCEPT !.edited = TRUE]]
  BY DEF CreateTemplate, SeedCreate
<1> DEFINE new == [Shipped EXCEPT !.edited = TRUE]
<1>2. Counted(new) /\ Counted(Shipped)
  BY ShippedCounted
<1>3. \A s \in Slugs : \/ templates'[s] = templates[s]
                       \/ templates'[s] = new \/ templates'[s] = Shipped
  <2> HIDE DEF new
  <2> QED BY <1>1 DEF Shape, TypeOK, new
<1> QED
  <2> HIDE DEF new
  <2>1. \A s \in Slugs : templates'[s] = templates[s] \/ Counted(templates'[s])
    BY <1>2, <1>3
  <2> QED
    BY <2>1, VersionStep

LEMMA UpdateTemplateCounted ==
    ASSUME Shape, VersionCountsEdits, NEW r \in Req, UpdateTemplate(r)
    PROVE  VersionCountsEdits'
<1>1. CASE UNCHANGED templates
  BY <1>1, VersionStep
<1>2. CASE /\ existsBySlug(req[r].slug)
           /\ templates' = [s \in Slugs |->
                              IF s = req[r].target THEN Updated(req[r])
                              ELSE IF s = req[r].slug THEN Absent
                              ELSE templates[s]]
  <2>1. Counted(Updated(req[r]))
    BY <1>2, UpdatedCounted DEF UpdateTemplate
  <2>2. \A s \in Slugs : \/ templates'[s] = templates[s]
                         \/ templates'[s] = Absent
                         \/ templates'[s] = Updated(req[r])
    BY <1>2
  <2>3. \A s \in Slugs : \/ templates'[s] = templates[s]
                         \/ templates'[s] = Absent \/ Counted(templates'[s])
    BY <2>1, <2>2
  <2> QED
    BY <2>3, VersionStep
<1> QED
  BY <1>1, <1>2 DEF UpdateTemplate

LEMMA VersionNext ==
    Shape /\ VersionCountsEdits /\ [Next]_vars => VersionCountsEdits'
<1> SUFFICES ASSUME Shape, VersionCountsEdits, [Next]_vars
             PROVE  VersionCountsEdits'
  OBVIOUS
<1>1. CASE UNCHANGED templates
  BY <1>1, VersionStep
<1>2. ASSUME NEW r \in Req, MailStep(r) \/ SeedNext(r) \/ RequestFails(r)
                            \/ SendDirect(r) \/ SeedDefaults(r)
      PROVE  UNCHANGED templates
  BY <1>2 DEF MailStep, Resolve, ResolveStoredOnly, CreateLog, Send,
              RecordOutcome, SeedNext, RequestFails, SendDirect, SeedDefaults
<1>3. ASSUME NEW r \in Req, TemplateStep(r)
      PROVE  VersionCountsEdits'
  BY <1>1, <1>2, <1>3, CreateTemplateCounted, UpdateTemplateCounted
     DEF TemplateStep
<1>4. ASSUME NEW r \in Req, NEW lang \in Langs,
             \/ \E event \in Events : HandleEvent(r, event, lang)
             \/ \E slug \in EditableSlugs : SendBySlug(r, slug, lang)
      PROVE  UNCHANGED templates
  BY <1>4 DEF HandleEvent, SendBySlug
<1>5. ASSUME NEW r \in Req, NEW slug \in EditableSlugs, DeleteTemplate(r, slug)
      PROVE  VersionCountsEdits'
  BY <1>5, VersionStep DEF DeleteTemplate, Shape, TypeOK
<1>6. ASSUME NEW r \in Req, NEW slug \in EditableSlugs,
             \/ CreateCheck(r, slug)
             \/ \E target \in EditableSlugs, active \in BOOLEAN :
                  UpdateLookup(r, slug, target, active)
      PROVE  UNCHANGED templates
  BY <1>6 DEF CreateCheck, UpdateLookup
<1> QED
  BY <1>1, <1>2, <1>3, <1>4, <1>5, <1>6 DEF Next, vars

\* The version of a template counts its updates unless one was computed from a
\* version that had been replaced (email-template.repository.ts:42-49).
THEOREM VersionsCount == Spec => []VersionCountsEdits
<1>1. Init => VersionCountsEdits
  BY DEF Init, VersionCountsEdits, Shipped, existsBySlug
<1> QED
  BY <1>1, Shaped, VersionNext, PTL DEF Spec

(***************************************************************************)
(* Logs.  A log changes only in the hands of the one request that has it,  *)
(* and that request lets go of it by recording an outcome or by dying.     *)
(***************************************************************************)
LEMMA LogsSame ==
    ASSUME LogTruthful, UNCHANGED logs, lost \subseteq lost',
           \A r \in Req, l \in 1..Len(logs) :
             Handling(req[r], l) => l \in lost' \/ Handling(req'[r], l)
    PROVE  LogTruthful'
BY DEF LogTruthful

\* A step of a request that has no log in hand, or dies.
LEMMA LogsKept ==
    ASSUME Shape, LogTruthful, UNCHANGED logs, lost \subseteq lost', NEW r \in Req,
           \A s \in Req : s # r =>
             req'[s] = req[s] \/ req'[s] = [req[s] EXCEPT !.stale = TRUE],
           \A l \in 1..Len(logs) : Handling(req[r], l) => l \in lost'
    PROVE  LogTruthful'
<1>1. ASSUME NEW s \in Req, NEW l \in 1..Len(logs), Handling(req[s], l)
      PROVE  l \in lost' \/ Handling(req'[s], l)
  <2>1. CASE s = r
    BY <1>1, <2>1
  <2>2. CASE s # r /\ req'[s] = req[s]
    BY <1>1, <2>2
  <2>3. CASE req'[s] = [req[s] EXCEPT !.stale = TRUE]
    <3>1. req[s] \in Request
      BY Held
    <3>2. req'[s].log = req[s].log /\ req'[s].pc = req[s].pc
      BY <2>3, <3>1 DEF Request
    <3> QED
      BY <1>1, <3>2 DEF Handling
  <2> QED
    BY <2>1, <2>2, <2>3
<1> QED
  BY <1>1, LogsSame

LEMMA SlotOnly ==
    ASSUME Shape, NEW r \in Req, NEW q, Begin(r, q) \/ Goto(r, q)
    PROVE  \A s \in Req : s # r => req'[s] = req[s]
BY DEF Begin, Goto, Shape, TypeOK

LEMMA NotHandling ==
    ASSUME Shape, NEW r \in Req, req[r].pc \notin {"send", "record"}
    PROVE  \A l \in 1..Len(logs) : ~Handling(req[r], l)
BY DEF Handling

LEMMA CreateLogTruthful ==
    ASSUME Shape, LogTruthful, NEW r \in Req, CreateLog(r)
    PROVE  LogTruthful'
<1>1. /\ Len(logs') = Len(logs) + 1 /\ Len(logs) \in Nat
      /\ \A l \in 1..Len(logs) : logs'[l] = logs[l]
      /\ logs'[Len(logs')] = [status |-> "pending", calls |-> 0,
                              accepted |-> FALSE]
      /\ Handling(req'[r], Len(logs'))
  BY CreateLogOK DEF Shape, TypeOK
<1>2. lost' = lost /\ req[r].pc = "log"
      /\ \A s \in Req : s # r => req'[s] = req[s]
  BY SlotOnly DEF CreateLog
<1>3. ASSUME NEW l \in 1..Len(logs'), l = Len(logs')
      PROVE  /\ logs'[l].calls =< 1 /\ logs'[l].status = "pending"
             /\ \E s \in Req : Handling(req'[s], l)
  BY <1>1, <1>3
<1>4. ASSUME NEW l \in 1..Len(logs'), l # Len(logs')
      PROVE  /\ l \in 1..Len(logs) /\ logs'[l] = logs[l]
             /\ \A s \in Req : Handling(req[s], l) => Handling(req'[s], l)
  <2>1. l \in 1..Len(logs)
    BY <1>1, <1>4
  <2> QED
    BY <1>1, <1>2, <2>1, NotHandling
<1> QED
  BY <1>2, <1>3, <1>4 DEF LogTruthful

LEMMA SendTruthful ==
    ASSUME Shape, LogTruthful, NEW r \in Req, Send(r)
    PROVE  LogTruthful'
<1>1. PICK n \in 1..Len(logs) :
        /\ n = req[r].log
        /\ Len(logs') = Len(logs)
        /\ \A k \in 1..Len(logs) : k # n => logs'[k] = logs[k]
        /\ logs'[n].calls = 1 /\ logs'[n].status = "pending"
        /\ Handling(req'[r], n)
  BY SendOK
<1>2. lost' = lost /\ \A s \in Req : s # r => req'[s] = req[s]
  BY SlotOnly DEF Send
<1>3. ASSUME NEW l \in 1..Len(logs'), l # n
      PROVE  /\ l \in 1..Len(logs) /\ logs'[l] = logs[l]
             /\ \A s \in Req : Handling(req[s], l) => Handling(req'[s], l)
  BY <1>1, <1>2, <1>3 DEF Handling
<1> QED
  BY <1>1, <1>2, <1>3 DEF LogTruthful

LEMMA RecordOutcomeTruthful ==
    ASSUME Shape, LogTruthful, NEW r \in Req, RecordOutcome(r)
    PROVE  LogTruthful'
<1>1. PICK n \in 1..Len(logs) :
        /\ n = req[r].log
        /\ Len(logs') = Len(logs)
        /\ \A k \in 1..Len(logs) : k # n => logs'[k] = logs[k]
        /\ logs'[n].calls = 1 /\ logs'[n].status # "pending"
        /\ logs'[n].status = "sent" => logs'[n].accepted
  BY RecordOutcomeOK
<1>2. lost' = lost /\ \A s \in Req : s # r => req'[s] = req[s]
  BY SlotOnly DEF RecordOutcome, Finish
<1>3. ASSUME NEW l \in 1..Len(logs'), l # n
      PROVE  /\ l \in 1..Len(logs) /\ logs'[l] = logs[l]
             /\ \A s \in Req : Handling(req[s], l) => Handling(req'[s], l)
  BY <1>1, <1>2, <1>3 DEF Handling
<1> QED
  BY <1>1, <1>2, <1>3 DEF LogTruthful

LEMMA TemplateStepTruthful ==
    ASSUME Shape, LogTruthful, NEW r \in Req,
           \/ TemplateStep(r)
           \/ \E slug \in EditableSlugs : DeleteTemplate(r, slug)
    PROVE  LogTruthful'
<1>1. UNCHANGED <<logs, lost>>
  BY DEF TemplateStep, CreateTemplate, UpdateTemplate, SeedNext, SeedCreate,
         DeleteTemplate
<1>2. req[r].pc \in {"create", "update", "seed", "seedCreate", "idle"}
  BY DEF TemplateStep, CreateTemplate, UpdateTemplate, SeedNext, SeedCreate,
         DeleteTemplate
<1>3. \A s \in Req : s # r =>
        req'[s] = req[s] \/ req'[s] = [req[s] EXCEPT !.stale = TRUE]
  <2>1. CASE CreateTemplate(r) \/ SeedNext(r) \/ SeedCreate(r)
    BY <2>1, SlotOnly DEF CreateTemplate, SeedNext, SeedCreate, Finish
  <2>2. CASE UpdateTemplate(r)
    BY <2>2, SlotOnly DEF UpdateTemplate, Finish, Overtaken
  <2>3. ASSUME NEW slug \in EditableSlugs, DeleteTemplate(r, slug)
        PROVE  \A s \in Req : s # r =>
                 req'[s] = req[s] \/ req'[s] = [req[s] EXCEPT !.stale = TRUE]
    BY <2>3 DEF DeleteTemplate, Overtaken
  <2> QED
    BY <2>1, <2>2, <2>3 DEF TemplateStep
<1> QED
  BY <1>1, <1>2, <1>3, NotHandling, LogsKept

LEMMA SlotStepTruthful ==
    ASSUME Shape, LogTruthful, NEW r \in Req, NEW q, Begin(r, q) \/ Goto(r, q),
           req[r].pc \notin {"send", "record"}, UNCHANGED <<logs, lost>>
    PROVE  LogTruthful'
BY SlotOnly, NotHandling, LogsKept

LEMMA RequestFailsTruthful ==
    ASSUME Shape, LogTruthful, NEW r \in Req, RequestFails(r)
    PROVE  LogTruthful'
<1>1. UNCHANGED logs /\ Finish(r)
      /\ lost' = IF req[r].log # 0 THEN lost \cup {req[r].log} ELSE lost
  BY DEF RequestFails
<1>2. \A s \in Req : s # r => req'[s] = req[s]
  BY <1>1, SlotOnly DEF Finish
<1>3. \A l \in 1..Len(logs) : Handling(req[r], l) => l \in lost'
  BY <1>1 DEF Handling
<1> QED
  BY <1>1, <1>2, <1>3, LogsKept

LEMMA TruthfulNext == Shape /\ LogTruthful /\ [Next]_vars => LogTruthful'
<1> SUFFICES ASSUME Shape, LogTruthful, [Next]_vars PROVE LogTruthful'
  OBVIOUS
<1>1. CASE UNCHANGED vars
  BY <1>1, LogsSame DEF vars
<1>2. ASSUME NEW r \in Req, Resolve(r) PROVE LogTruthful'
  BY <1>2, SlotStepTruthful DEF Resolve, ResolveStoredOnly, Finish
<1>3. ASSUME NEW r \in Req, SendDirect(r) \/ SeedDefaults(r) PROVE LogTruthful'
  BY <1>3, SlotStepTruthful DEF SendDirect, SeedDefaults, Begin
<1>4. ASSUME NEW r \in Req, NEW lang \in Langs,
             \/ \E event \in Events : HandleEvent(r, event, lang)
             \/ \E slug \in EditableSlugs : SendBySlug(r, slug, lang)
      PROVE  LogTruthful'
  BY <1>4, SlotStepTruthful DEF HandleEvent, SendBySlug, Begin
<1>5. ASSUME NEW r \in Req, NEW slug \in EditableSlugs,
             \/ CreateCheck(r, slug)
             \/ \E target \in EditableSlugs, active \in BOOLEAN :
                  UpdateLookup(r, slug, target, active)
      PROVE  LogTruthful'
  BY <1>5, SlotStepTruthful DEF CreateCheck, UpdateLookup, Begin
<1> QED
  BY <1>1, <1>2, <1>3, <1>4, <1>5, CreateLogTruthful, SendTruthful,
     RecordOutcomeTruthful, TemplateStepTruthful, RequestFailsTruthful
     DEF Next, MailStep

\* A log says what happened to its mail, and no mail is handed over twice
\* (email.service.ts:94-108).
THEOREM Truthful == Spec => []LogTruthful
<1>1. Init => LogTruthful
  BY DEF Init, LogTruthful
<1> QED
  BY <1>1, Shaped, TruthfulNext, PTL DEF Spec
=============================================================================
