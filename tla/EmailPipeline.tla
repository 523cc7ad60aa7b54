--------------------------- MODULE EmailPipeline ---------------------------
(***************************************************************************)
(* Outgoing mail: the listener that turns domain events into mails, the    *)
(* templates administrators edit and every start-up seeds, the log of each *)
(* mail and its delivery (src/email).                                      *)
(*                                                                         *)
(*   templates   the template collection, by slug                          *)
(*   logs        the log collection, in the order it was written           *)
(*   req         one record per mail or template request in flight; one    *)
(*               action per awaited operation                              *)
(*                                                                         *)
(* Nobody waits for a mail: the domain event and "email.send" are emitted  *)
(* in the process, an error is logged and nothing is tried again.          *)
(*                                                                         *)
(* Abstractions.  A template is its version, whether it is active and      *)
(* whether its text is still the shipped one; an update always changes the *)
(* text.  The variables a handler fills are left out.  The template cache  *)
(* that mutations invalidate does not exist yet.                           *)
(***************************************************************************)
EXTENDS Integers, Sequences

CONSTANTS
    Req,            \* slots for concurrent mails and requests
    CustomSlugs,    \* slugs of templates that are not shipped
    EditableSlugs,  \* the slugs administrators touch in this instance
    Events, Langs,  \* the domain events and languages of this instance
    Absent,         \* no such document, slug or event
    MayFail,        \* whether a request may die between two steps
    MaxLog, MaxStarts   \* bounds of the instance

DEFAULT_LANGUAGE == "es"
Languages == {"es", "en", "pt"}

\* The slugs of the shipped templates, in the order they are seeded.
DEFAULT_TEMPLATES ==
    <<"welcome", "password-reset", "email-change", "password-changed",
      "email-change-code", "email-change-old-notice", "email-change-reverted">>

DefaultSlugs == {DEFAULT_TEMPLATES[k] : k \in 1..7}

\* The template that each handler of the listener sends.
EmailListener ==
    [USER_REGISTERED             |-> "welcome",
     RESEND_VERIFICATION         |-> "welcome",
     FORGOT_PASSWORD             |-> "password-reset",
     PASSWORD_CHANGED            |-> "password-changed",
     EMAIL_CHANGE_CONFIRMED      |-> "password-changed",
     EMAIL_CHANGE_REQUESTED      |-> "email-change",
     EMAIL_CHANGE_CODE_REQUESTED |-> "email-change-code",
     EMAIL_CHANGE_REQUESTED_OLD  |-> "email-change-old-notice",
     EMAIL_CHANGE_REVERTED       |-> "email-change-reverted"]

Slugs == DefaultSlugs \cup CustomSlugs

ASSUME ConstantsAssumption ==
    /\ CustomSlugs \cap DefaultSlugs = {}
    /\ EditableSlugs \subseteq Slugs
    /\ Events \subseteq DOMAIN EmailListener /\ Langs \subseteq Languages
    /\ MayFail \in BOOLEAN
    /\ MaxLog \in Nat /\ MaxStarts \in Nat
    /\ Absent \notin Slugs
    /\ Absent \notin [version : Nat, active : BOOLEAN, edited : BOOLEAN,
                      edits : Nat, overlapped : BOOLEAN]

VARIABLES templates, logs, req

\* History: the requests begun; the slugs for which no template was found; the
\* logs whose mail died with its process or with a failing write.  In a
\* template, the updates it has had and whether one of them was computed from
\* what another request had replaced; in a log, the calls of the provider and
\* whether it took the mail.
VARIABLES started, notFound, lost

vars == <<templates, logs, req, started, notFound, lost>>

-----------------------------------------------------------------------------

Template == [version : Nat, active : BOOLEAN, edited : BOOLEAN,
             edits : Nat, overlapped : BOOLEAN]

Log == [status : {"pending", "sent", "failed"}, calls : Nat,
        accepted : BOOLEAN]

\* stale: another request has written the template since this one read it.
Request == [pc : {"idle", "resolve", "log", "send", "record", "create",
                  "update", "seed", "seedCreate"},
            slug : Slugs \cup {Absent}, lang : Languages,
            text : {"none", "given", "edited", "shipped"}, log : Nat,
            success : BOOLEAN, target : Slugs \cup {Absent}, active : BOOLEAN,
            version : Nat, stale : BOOLEAN, next : Nat]

Idle == [pc |-> "idle", slug |-> Absent,
         lang |-> DEFAULT_LANGUAGE, text |-> "none", log |-> 0,
         success |-> FALSE, target |-> Absent, active |-> FALSE,
         version |-> 0, stale |-> FALSE, next |-> 0]

Shipped == [version |-> 1, active |-> TRUE, edited |-> FALSE,
            edits |-> 0, overlapped |-> FALSE]

\* The first start-up has seeded the templates.
Init ==
    /\ templates = [s \in Slugs |-> IF s \in DefaultSlugs THEN Shipped
                                    ELSE Absent]
    /\ logs = <<>>
    /\ req = [r \in Req |-> Idle]
    /\ started = 0 /\ notFound = {} /\ lost = {}

existsBySlug(slug) == templates[slug] # Absent

Begin(r, state) ==
    /\ req[r].pc = "idle" /\ started < MaxStarts
    /\ started' = started + 1
    /\ req' = [req EXCEPT ![r] = state]

Goto(r, state) == req' = [req EXCEPT ![r] = state] /\ UNCHANGED started

Finish(r) == Goto(r, Idle)

\* Requests about to update a template that another one has just written.
Overtaken(slug) ==
    [q \in Req |-> IF req[q].pc = "update" /\ req[q].slug = slug
                   THEN [req[q] EXCEPT !.stale = TRUE] ELSE req[q]]

-----------------------------------------------------------------------------
(* A mail: resolve its template, log it, hand it over, record the outcome  *)

\* A handler of the listener calls sendBySlug; without a language in the event,
\* it is the language of the request.
HandleEvent(r, event, lang) ==
    /\ Begin(r, [Idle EXCEPT !.pc = "resolve", !.lang = lang,
                             !.slug = EmailListener[event]])
    /\ UNCHANGED <<templates, logs, notFound, lost>>

\* POST /email/send, with variables of the administrator's choice.
SendBySlug(r, slug, lang) ==
    /\ Begin(r, [Idle EXCEPT !.pc = "resolve", !.slug = slug, !.lang = lang])
    /\ UNCHANGED <<templates, logs, notFound, lost>>

\* POST /email/send-direct: no template.
SendDirect(r) ==
    /\ Begin(r, [Idle EXCEPT !.pc = "log", !.text = "given"])
    /\ UNCHANGED <<templates, logs, notFound, lost>>

\* findBySlug of the repository sees active templates only.
StoredText(q) ==
    IF existsBySlug(q.slug) /\ templates[q.slug].active
       /\ q.lang = DEFAULT_LANGUAGE
    THEN IF templates[q.slug].edited THEN "edited" ELSE "shipped"
    ELSE "none"

\* resolve and render.  Mutant of Resolve: nothing behind the collection.
ResolveStoredOnly(r) ==
    /\ req[r].pc = "resolve"
    /\ IF StoredText(req[r]) = "none"
       THEN Finish(r) /\ notFound' = notFound \cup {req[r].slug}
       ELSE /\ Goto(r, [req[r] EXCEPT !.pc = "log",
                                      !.text = StoredText(req[r])])
            /\ UNCHANGED notFound
    /\ UNCHANGED <<templates, logs, lost>>

\* Mutant of Resolve: a template that is not found is rendered all the same.
ResolveBlank(r) ==
    /\ req[r].pc = "resolve"
    /\ \E text \in {"none", "edited", "shipped"} :
        /\ text = IF StoredText(req[r]) = "none" /\ req[r].slug \in DefaultSlugs
                  THEN "shipped" ELSE StoredText(req[r])
        /\ Goto(r, [req[r] EXCEPT !.pc = "log", !.text = text])
    /\ UNCHANGED <<templates, logs, notFound, lost>>

\* The stored text in the default language; in the others, and when none is
\* stored, the text shipped for the slug; else TEMPLATE_NOT_FOUND.
Resolve(r) ==
    \/ /\ req[r].pc = "resolve"
       /\ StoredText(req[r]) # "none" \/ req[r].slug \notin DefaultSlugs
       /\ ResolveStoredOnly(r)
    \/ /\ req[r].pc = "resolve"
       /\ StoredText(req[r]) = "none" /\ req[r].slug \in DefaultSlugs
       /\ Goto(r, [req[r] EXCEPT !.pc = "log", !.text = "shipped"])
       /\ UNCHANGED <<templates, logs, notFound, lost>>

\* logRepository.create, then the event whose handler calls the provider.
CreateLog(r) ==
    /\ req[r].pc = "log" /\ Len(logs) < MaxLog
    /\ logs' = Append(logs, [status |-> "pending", calls |-> 0,
                             accepted |-> FALSE])
    /\ Goto(r, [req[r] EXCEPT !.pc = "send", !.log = Len(logs) + 1])
    /\ UNCHANGED <<templates, notFound, lost>>

\* The provider is called for the mail of a log.
Called(log, accepted) ==
    [log EXCEPT !.calls = log.calls + 1, !.accepted = accepted]

\* Mutant of Send: the log is written before the provider has answered.
SendOptimistic(r) ==
    /\ req[r].pc = "send"
    /\ \E l \in DOMAIN logs :
        /\ l = req[r].log
        /\ logs' = [logs EXCEPT ![l] = [Called(logs[l], FALSE)
                                            EXCEPT !.status = "sent"]]
    /\ Goto(r, [req[r] EXCEPT !.pc = "record", !.success = TRUE])
    /\ UNCHANGED <<templates, notFound, lost>>

\* provider.send: never throws.  It reports success only for a mail it took;
\* the answer to one it took may be lost.
Send(r) ==
    /\ req[r].pc = "send"
    /\ \E l \in DOMAIN logs, accepted, success \in BOOLEAN :
        /\ l = req[r].log
        /\ success => accepted
        /\ logs' = [logs EXCEPT ![l] = Called(logs[l], accepted)]
        /\ Goto(r, [req[r] EXCEPT !.pc = "record", !.success = success])
    /\ UNCHANGED <<templates, notFound, lost>>

\* Mutant of RecordOutcome: a failure is not written.
RecordSuccess(r) ==
    /\ req[r].pc = "record"
    /\ \E l \in DOMAIN logs :
        /\ l = req[r].log
        /\ logs' = IF req[r].success
                   THEN [logs EXCEPT ![l].status = "sent"] ELSE logs
    /\ Finish(r)
    /\ UNCHANGED <<templates, notFound, lost>>

\* logRepository.update with the outcome.
RecordOutcome(r) ==
    /\ req[r].pc = "record"
    /\ \E l \in DOMAIN logs, outcome \in {"sent", "failed"} :
        /\ l = req[r].log
        /\ req[r].success <=> outcome = "sent"
        /\ logs' = [logs EXCEPT ![l] = [@ EXCEPT !.status = outcome]]
    /\ Finish(r)
    /\ UNCHANGED <<templates, notFound, lost>>

-----------------------------------------------------------------------------
(* Templates                                                               *)

\* create: refused if the slug exists.
CreateCheck(r, slug) ==
    /\ ~existsBySlug(slug)
    /\ Begin(r, [Idle EXCEPT !.pc = "create", !.slug = slug])
    /\ UNCHANGED <<templates, logs, notFound, lost>>

\* save(): the unique index on slug refuses a second one.
CreateTemplate(r) ==
    /\ req[r].pc = "create"
    /\ IF existsBySlug(req[r].slug)
       THEN Finish(r) /\ UNCHANGED templates
       ELSE /\ templates' = [templates EXCEPT
                  ![req[r].slug] = [Shipped EXCEPT !.edited = TRUE]]
            /\ Finish(r)
    /\ UNCHANGED <<logs, notFound, lost>>

\* Mutant of UpdateLookup: the version that was read is stored again.
UpdateLookupKeeps(r, slug, target, active) ==
    /\ existsBySlug(slug)
    /\ Begin(r, [Idle EXCEPT !.pc = "update", !.slug = slug,
                             !.target = target, !.active = active,
                             !.version = templates[slug].version])
    /\ UNCHANGED <<templates, logs, notFound, lost>>

\* updateBySlug reads the version; the update may rename, activate, deactivate.
UpdateLookup(r, slug, target, active) ==
    /\ existsBySlug(slug)
    /\ Begin(r, [Idle EXCEPT !.pc = "update", !.slug = slug,
                             !.target = target, !.active = active,
                             !.version = templates[slug].version + 1])
    /\ UNCHANGED <<templates, logs, notFound, lost>>

Updated(q) ==
    [templates[q.slug] EXCEPT !.version = q.version, !.active = q.active,
                              !.edited = TRUE, !.edits = @ + 1,
                              !.overlapped = @ \/ q.stale]

\* findOneAndUpdate by slug: not found if it has gone, refused by the index if
\* the new slug is another template's.
UpdateTemplate(r) ==
    LET q == req[r]
    IN  /\ q.pc = "update"
        /\ IF existsBySlug(q.slug)
              /\ (q.target = q.slug \/ ~existsBySlug(q.target))
           THEN /\ templates' = [s \in Slugs |->
                                   IF s = q.target THEN Updated(q)
                                   ELSE IF s = q.slug THEN Absent
                                   ELSE templates[s]]
                /\ req' = [Overtaken(q.slug) EXCEPT ![r] = Idle]
                /\ UNCHANGED started
           ELSE Finish(r) /\ UNCHANGED templates
        /\ UNCHANGED <<logs, notFound, lost>>

\* deleteOne: one operation.
DeleteTemplate(r, slug) ==
    /\ req[r].pc = "idle" /\ started < MaxStarts
    /\ existsBySlug(slug)
    /\ templates' = [templates EXCEPT ![slug] = Absent]
    /\ req' = Overtaken(slug)
    /\ started' = started + 1
    /\ UNCHANGED <<logs, notFound, lost>>

-----------------------------------------------------------------------------
(* Start-up of a process, and the seed script: seedDefaults                *)

SeedDefaults(r) ==
    /\ Begin(r, [Idle EXCEPT !.pc = "seed", !.next = 1])
    /\ UNCHANGED <<templates, logs, notFound, lost>>

\* existsBySlug of the next default.
SeedNext(r) ==
    /\ req[r].pc = "seed"
    /\ IF req[r].next \notin 1..7
       THEN Finish(r)
       ELSE IF existsBySlug(DEFAULT_TEMPLATES[req[r].next])
       THEN Goto(r, [req[r] EXCEPT !.next = @ + 1])
       ELSE Goto(r, [req[r] EXCEPT !.pc = "seedCreate",
                        !.slug = DEFAULT_TEMPLATES[req[r].next]])
    /\ UNCHANGED <<templates, logs, notFound, lost>>

\* The insert; if the slug is there by now, the index refuses and the start-up
\* fails.
SeedCreate(r) ==
    /\ req[r].pc = "seedCreate"
    /\ IF existsBySlug(req[r].slug)
       THEN Finish(r) /\ UNCHANGED templates
       ELSE /\ templates' = [templates EXCEPT ![req[r].slug] = Shipped]
            /\ Goto(r, [req[r] EXCEPT !.pc = "seed", !.slug = Absent,
                                      !.next = @ + 1])
    /\ UNCHANGED <<logs, notFound, lost>>

-----------------------------------------------------------------------------

\* A store operation throws, or the process stops.
RequestFails(r) ==
    /\ MayFail /\ req[r].pc # "idle"
    /\ lost' = IF req[r].log # 0 THEN lost \cup {req[r].log} ELSE lost
    /\ Finish(r)
    /\ UNCHANGED <<templates, logs, notFound>>

MailStep(r) == Resolve(r) \/ CreateLog(r) \/ Send(r) \/ RecordOutcome(r)

TemplateStep(r) ==
    CreateTemplate(r) \/ UpdateTemplate(r) \/ SeedNext(r) \/ SeedCreate(r)

Next ==
    \E r \in Req :
        \/ MailStep(r) \/ TemplateStep(r) \/ RequestFails(r)
        \/ SendDirect(r) \/ SeedDefaults(r)
        \/ \E lang \in Langs :
            \/ \E event \in Events : HandleEvent(r, event, lang)
            \/ \E slug \in EditableSlugs : SendBySlug(r, slug, lang)
        \/ \E slug \in EditableSlugs :
            \/ CreateCheck(r, slug) \/ DeleteTemplate(r, slug)
            \/ \E target \in EditableSlugs, active \in BOOLEAN :
                UpdateLookup(r, slug, target, active)

Spec == Init /\ [][Next]_vars

\* The driver answers every call and the event loop runs every handler that is
\* due; a provider call ends, as sendMail and emails.send have time limits.
FairSpec == Spec /\ \A r \in Req : WF_vars(MailStep(r))

-----------------------------------------------------------------------------
(* Properties                                                              *)

\* What is logged and handed over has a text.
HasText(q) == q.pc \in {"log", "send", "record"} => q.text # "none"

TypeOK ==
    /\ templates \in [Slugs -> Template \cup {Absent}]
    /\ logs \in Seq(Log)
    /\ req \in [Req -> Request] /\ \A r \in Req : HasText(req[r])
    /\ started \in 0..MaxStarts /\ notFound \subseteq Slugs
    /\ lost \subseteq 1..Len(logs)

Handling(q, l) == q.log = l /\ q.pc \in {"send", "record"}

\* A log says what happened to its mail: "sent" only for a mail the provider
\* took, an outcome only after exactly one call of the provider, and "pending"
\* only while a handler has it in hand or after that handler died; no mail is
\* handed over twice (email.service.ts:30-37, email.service.ts:94-108).
LogTruthful ==
    \A l \in 1..Len(logs) :
        /\ logs[l].calls =< 1
        /\ logs[l].status = "sent" => logs[l].accepted
        /\ logs[l].status # "pending" => logs[l].calls = 1
        /\ logs[l].status = "pending"
           => l \in lost \/ \E r \in Req : Handling(req[r], l)

\* Whatever administrators delete, rename or deactivate, and whenever, a mail
\* the application itself sends finds a text (email-template.service.ts:155-189).
DefaultAlwaysSendable == notFound \cap DefaultSlugs = {}

\* The version of a template counts its updates, unless one of them was
\* computed from a version another request had replaced
\* (email-template.repository.ts:42-49).
VersionCountsEdits ==
    \A s \in Slugs :
        existsBySlug(s) /\ ~templates[s].overlapped
        => templates[s].version = 1 + templates[s].edits

\* A logged mail does not stay "pending" unless its handler died.
PendingSettles ==
    \A l \in 1..MaxLog :
        l =< Len(logs)
        ~> (l \in lost \/ (l =< Len(logs) /\ logs[l].status # "pending"))

=============================================================================
