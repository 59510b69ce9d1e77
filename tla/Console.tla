-------------------------------- MODULE Console --------------------------------
(***************************************************************************)
(* The admin web console (web/src): the settings bar and the tabs of       *)
(* App.tsx, the data hook useAsync behind the document and statistics      *)
(* pages, the run list of the connectors page and the two delete cards of  *)
(* the danger zone.  Requests are answered in any order; an answer reaches *)
(* the component that asked only while it is mounted.  A render and the    *)
(* effects it causes are one step.                                         *)
(***************************************************************************)
EXTENDS Naturals, FiniteSets

CONSTANTS
    Tags,           \* bot_tag scopes
    Servers,        \* connections the operator may apply
    Docs,           \* documents to open and delete
    None,           \* no server, no document, nothing typed
    MaxCalls,       \* bound: requests sent
    MaxVisits       \* bound: changes of the scope

ASSUME NoneNoServer == None \notin Servers

VARIABLES
    tab,        \* the page that is shown
    tag,        \* the bot_tag scope
    server,     \* the server of the client, or None: not configured
    list,       \* the hook of the documents or the statistics page
    selected,   \* the document whose detail panel is open
    detail,     \* the hook of the detail panel
    runs,       \* the run list of the connectors page
    cards,      \* the two cards of the danger zone
    pending,    \* the requests whose answer somebody waits for
    sent,       \* the number of requests so far: each has its number
    visit       \* history: how often the scope changed

page == <<list, selected, detail, runs, cards>>
pageVars == <<tab, tag, server, page, pending, sent, visit>>

-----------------------------------------------------------------------------
\* What an answer shows: the request it answers.  Only the newest request of a
\* hook may set its state.
Nothing == [no |-> 0]
Idle == [data |-> Nothing, error |-> Nothing, loading |-> FALSE, latest |-> 0]

\* useAsync: run() and, by the effect's cleanup, what invalidates its request.
Rerun(hook, no) == [hook EXCEPT !.loading = TRUE, !.error = Nothing, !.latest = no]

\* Faulty form: whichever request is answered sets the state.
SettleAny(hook, call, ok) ==
    [hook EXCEPT !.data = IF ok THEN call ELSE Nothing,
                 !.error = IF ok THEN Nothing ELSE call, !.loading = FALSE]

Settle(hook, call, ok) ==
    IF hook.latest # call.no THEN hook
    ELSE [hook EXCEPT !.data = IF ok THEN call ELSE Nothing,
                      !.error = IF ok THEN Nothing ELSE call, !.loading = FALSE]

NoRuns == [data |-> Nothing, error |-> Nothing, initial |-> TRUE, latest |-> 0,
           trigger |-> "idle", reload |-> 0]

\* Faulty form: an older answer of the run list is applied too.
SettleRunsAny(state, call, ok) ==
    LET seen == [state EXCEPT !.initial = FALSE] IN
    IF ok THEN [seen EXCEPT !.data = call, !.error = Nothing]
    ELSE [seen EXCEPT !.error = call]

\* loadRuns keeps the list it has when a newer request failed.
SettleRuns(state, call, ok) ==
    LET seen == [state EXCEPT !.initial = FALSE] IN
    IF state.latest # call.no THEN seen
    ELSE IF ok THEN [seen EXCEPT !.data = call, !.error = Nothing]
    ELSE [seen EXCEPT !.error = call]

\* Faulty form: only the answer to the newest request ends a trigger.
EndedByNewest(state, call) ==
    IF state.trigger = "reloading" /\ state.latest = call.no /\ state.reload = call.no
    THEN [state EXCEPT !.trigger = "idle"] ELSE state

\* The list a trigger reloads also ends the trigger, superseded or not.
Ended(state, call) ==
    IF state.trigger = "reloading" /\ state.reload = call.no
    THEN [state EXCEPT !.trigger = "idle"] ELSE state

NewCard == [typed |-> None, checked |-> FALSE, busy |-> FALSE, shown |-> Nothing, since |-> 0]

\* Faulty form: what was typed and ticked stays across scopes.
ResetResultOnly(card) == [card EXCEPT !.shown = Nothing]

\* The scope-change effect of the cards; a request on its way goes on.
Reset(card) == [card EXCEPT !.typed = None, !.checked = FALSE, !.shown = Nothing]

\* The document card wants an id, the tenant card its tag typed and ticked.
Armed(kind) ==
    /\ cards[kind].typed # None
    /\ kind = "tenant" => cards[kind].checked /\ cards[kind].typed = tag

Clickable(kind) == ~cards[kind].busy /\ Armed(kind)

-----------------------------------------------------------------------------
Call(kind, no, tg, srv, doc) == [kind |-> kind, no |-> no, tag |-> tg, server |-> srv, doc |-> doc]

Hooked(t) == t \in {"documents", "stats"}

FreshCards == [kind \in {"document", "tenant"} |-> NewCard]

\* A page is mounted: its state is new and its first request goes out.  The answers to
\* what the page before it has sent find nobody; its deletes are carried out all the same.
Mount(t, tg, srv) ==
    LET no == sent + 1
        asks == srv # None /\ t # "danger" IN
    /\ list' = IF asks /\ Hooked(t) THEN Rerun(Idle, no) ELSE Idle
    /\ runs' = IF asks /\ t = "connectors" THEN [NoRuns EXCEPT !.latest = no] ELSE NoRuns
    /\ pending' = IF asks THEN {Call(IF Hooked(t) THEN "list" ELSE "runs", no, tg, srv, None)} ELSE {}
    /\ sent' = IF asks THEN no ELSE sent
    /\ selected' = None /\ detail' = Idle
    /\ cards' = FreshCards

PageInit ==
    /\ tab = "documents" /\ tag \in Tags /\ server = None
    /\ list = Idle /\ selected = None /\ detail = Idle /\ runs = NoRuns /\ cards = FreshCards
    /\ pending = {} /\ sent = 0 /\ visit = 0

MayVisit(tg) == tg = tag \/ visit < MaxVisits

Open(t) ==
    /\ t # tab /\ server # None /\ sent < MaxCalls
    /\ tab' = t
    /\ Mount(t, tag, server)
    /\ UNCHANGED <<tag, server, visit>>

\* Disconnecting takes the tag as it stands in the settings bar.
Disconnect(tg) ==
    /\ server # None /\ MayVisit(tg)
    /\ server' = None /\ tag' = tg
    /\ visit' = IF tg # tag THEN visit + 1 ELSE visit
    /\ Mount(tab, tg, None)
    /\ UNCHANGED tab

Connect(tg, srv) ==
    /\ server = None /\ sent < MaxCalls /\ MayVisit(tg)
    /\ server' = srv /\ tag' = tg
    /\ visit' = IF tg # tag THEN visit + 1 ELSE visit
    /\ Mount(tab, tg, srv)
    /\ UNCHANGED tab

-----------------------------------------------------------------------------
\* Settings are applied while a page is open.  The hook looks at the scope, not
\* at the client; the panel's own request for the new scope goes out before
\* the page closes the panel.  The run list looks at the client, which is new
\* with every apply; the cards look at the scope.
ListReruns(tg) == Hooked(tab) /\ tg # tag

PanelReruns(tg) == tab = "documents" /\ selected # None /\ tg # tag

Apply(tg, srv) ==
    /\ server # None /\ sent + 1 < MaxCalls /\ MayVisit(tg)
    /\ tag' = tg /\ server' = srv
    /\ visit' = IF tg # tag THEN visit + 1 ELSE visit
    /\ LET no == sent + 1 IN
       /\ list' = IF ListReruns(tg) THEN Rerun(list, no) ELSE list
       /\ runs' = IF tab = "connectors" THEN [runs EXCEPT !.latest = no] ELSE runs
       /\ pending' =
            {c \in pending : ~(c.kind = "detail" /\ tg # tag)}
              \cup (IF ListReruns(tg) THEN {Call("list", no, tg, srv, None)} ELSE {})
              \cup (IF tab = "connectors" THEN {Call("runs", no, tg, srv, None)} ELSE {})
       /\ sent' = sent + (IF ListReruns(tg) \/ tab = "connectors" THEN 1 ELSE 0)
                       + (IF PanelReruns(tg) THEN 1 ELSE 0)
    /\ selected' = IF tg # tag THEN None ELSE selected
    /\ detail' = IF tg # tag THEN Idle ELSE detail
    /\ cards' = [kind \in DOMAIN cards |-> IF tg # tag THEN Reset(cards[kind]) ELSE cards[kind]]
    /\ UNCHANGED tab

Sends(call) ==
    /\ server # None /\ sent < MaxCalls
    /\ pending' = pending \cup {call}
    /\ sent' = sent + 1

\* Refresh, or retry after an error.
Reload ==
    /\ Hooked(tab)
    /\ Sends(Call("list", sent + 1, tag, server, None))
    /\ list' = Rerun(list, sent + 1)
    /\ UNCHANGED <<tab, tag, server, selected, detail, runs, cards, visit>>

\* The panel is mounted by the first document and looks at the next one.
Select(d) ==
    /\ tab = "documents" /\ list.data # Nothing /\ d # selected
    /\ Sends(Call("detail", sent + 1, tag, server, d))
    /\ selected' = d
    /\ detail' = Rerun(detail, sent + 1)
    /\ UNCHANGED <<tab, tag, server, list, runs, cards, visit>>

RetryPanel ==
    /\ detail.error # Nothing
    /\ Sends(Call("detail", sent + 1, tag, server, selected))
    /\ detail' = Rerun(detail, sent + 1)
    /\ UNCHANGED <<tab, tag, server, list, selected, runs, cards, visit>>

ClosePanel ==
    /\ selected # None
    /\ selected' = None /\ detail' = Idle
    /\ pending' = {c \in pending : c.kind # "detail"}
    /\ UNCHANGED <<tab, tag, server, list, runs, cards, sent, visit>>

\* The poll interval, or "Refresh now".
LoadRuns ==
    /\ tab = "connectors"
    /\ Sends(Call("runs", sent + 1, tag, server, None))
    /\ runs' = [runs EXCEPT !.latest = sent + 1]
    /\ UNCHANGED <<tab, tag, server, list, selected, detail, cards, visit>>

Trigger ==
    /\ tab = "connectors" /\ runs.trigger = "idle"
    /\ Sends(Call("trigger", sent + 1, tag, server, None))
    /\ runs' = [runs EXCEPT !.trigger = "posting"]
    /\ UNCHANGED <<tab, tag, server, list, selected, detail, cards, visit>>

\* An operator types into a card, ticks its box if it has one and, having confirmed the dialog, deletes.
Fill(kind, text) ==
    /\ tab = "danger" /\ server # None
    /\ text # cards[kind].typed
    /\ cards' = [cards EXCEPT ![kind].typed = text, ![kind].checked = (kind = "tenant"),
                              ![kind].since = visit]
    /\ UNCHANGED <<tab, tag, server, list, selected, detail, runs, pending, sent, visit>>

Delete(kind) ==
    /\ tab = "danger" /\ Clickable(kind)
    /\ Sends(Call(kind, sent + 1, tag, server, cards[kind].typed))
    /\ cards' = [cards EXCEPT ![kind].busy = TRUE, ![kind].shown = Nothing]
    /\ UNCHANGED <<tab, tag, server, list, selected, detail, runs, visit>>

-----------------------------------------------------------------------------
\* Answers.
HookAnswered(call, ok) ==
    /\ call.kind \in {"list", "detail"}
    /\ list' = IF call.kind = "list" THEN Settle(list, call, ok) ELSE list
    /\ detail' = IF call.kind = "detail" THEN Settle(detail, call, ok) ELSE detail
    /\ pending' = pending \ {call}
    /\ UNCHANGED <<runs, cards, sent>>

RunsAnswered(call, ok) ==
    /\ call.kind = "runs"
    /\ runs' = Ended(SettleRuns(runs, call, ok), call)
    /\ pending' = pending \ {call}
    /\ UNCHANGED <<list, detail, cards, sent>>

\* An accepted trigger reloads the list with the client it was posted with.
TriggerAnswered(call, ok) ==
    /\ call.kind = "trigger"
    /\ IF ok
       THEN LET no == sent + 1 IN
            /\ runs' = [runs EXCEPT !.trigger = "reloading", !.reload = no, !.latest = no]
            /\ pending' = (pending \ {call}) \cup {Call("runs", no, tag, call.server, None)}
            /\ sent' = no
       ELSE /\ runs' = [runs EXCEPT !.trigger = "idle"]
            /\ pending' = pending \ {call}
            /\ UNCHANGED sent
    /\ UNCHANGED <<list, detail, cards>>

\* The card shows what came back; a deleted tenant clears the confirmation.
DeleteAnswered(call, ok) ==
    /\ call.kind \in DOMAIN cards
    /\ LET shown == [cards[call.kind] EXCEPT !.busy = FALSE, !.shown = call] IN
       cards' = [cards EXCEPT ![call.kind] =
                   IF ok /\ call.kind = "tenant"
                   THEN [shown EXCEPT !.typed = None, !.checked = FALSE] ELSE shown]
    /\ pending' = pending \ {call}
    /\ UNCHANGED <<list, detail, runs, sent>>

Answered(call, ok) ==
    /\ HookAnswered(call, ok) \/ RunsAnswered(call, ok)
       \/ TriggerAnswered(call, ok) \/ DeleteAnswered(call, ok)
    /\ UNCHANGED <<tab, tag, server, selected, visit>>

AnswerOf(call) == \E ok \in BOOLEAN : Answered(call, ok)
Answer == \E call \in pending : AnswerOf(call)

Pages == {"documents", "stats", "connectors", "danger"}

Operator ==
    \/ \E t \in Pages : Open(t)
    \/ \E tg \in Tags, srv \in Servers : Connect(tg, srv) \/ Apply(tg, srv)
    \/ \E tg \in Tags : Disconnect(tg) \/ Fill("tenant", tg)
    \/ Reload \/ RetryPanel \/ ClosePanel \/ LoadRuns \/ Trigger
    \/ \E d \in Docs : Select(d) \/ Fill("document", d)
    \/ \E kind \in {"document", "tenant"} : Delete(kind)

PageNext == Operator \/ Answer

\* Every request is answered, or fails, in the end.
PageSpec == PageInit /\ [][PageNext]_pageVars /\ WF_pageVars(Answer)

-----------------------------------------------------------------------------
\* Types.
PageTyped ==
    /\ tab \in Pages /\ tag \in Tags /\ server \in Servers \cup {None}
    /\ \A hook \in {list, detail} :
         hook.loading \in BOOLEAN /\ hook.latest \in 0..sent /\ hook.data.no \in 0..sent
    /\ runs.latest \in 0..sent /\ runs.trigger \in {"idle", "posting", "reloading"}
    /\ runs.trigger = "posting" => \E c \in pending : c.kind = "trigger"
    /\ runs.trigger = "reloading" => \E c \in pending : c.no = runs.reload
    /\ \A c \in pending : c.no \in 1..sent
    /\ server = None => pending = {}

\* A list that is not loading shows the scope in the header, and the panel the
\* document it was opened for (useAsync.ts, DocumentsPage.tsx).
ShownIsOfScope ==
    /\ ~list.loading /\ list.data # Nothing => list.data.tag = tag
    /\ ~detail.loading /\ detail.data # Nothing
         => detail.data.tag = tag /\ detail.data.doc = selected

\* A hook that is not loading shows the answer to its newest request: a slower,
\* older one never replaces it ("superseded calls", useAsync.ts).
SettledIsNewest ==
    \A hook \in {list, detail} :
      hook.latest # 0 /\ ~hook.loading => hook.latest \in {hook.data.no, hook.error.no}

\* The run list never goes back: what is shown was asked for after what it
\* replaces ("can't clobber a newer one", ConnectorsPage.tsx).
RunsNeverGoBack ==
    [][tab' = tab /\ None \notin {server, server'}
         => runs'.data = runs.data \/ runs'.data.no > runs.data.no]_pageVars

\* Deletes are confirmed in the scope they are sent for: nothing typed or ticked
\* before a switch of the scope arms a card after it (DangerZonePage.tsx).
ConfirmedInScope ==
    \A kind \in DOMAIN cards : cards[kind].typed # None => cards[kind].since = visit

\* A card waits for one request at a time.  (One that a card of an earlier page has
\* sent may be on its way beside it.)
OneDeleteAtATime ==
    \A kind \in DOMAIN cards : Cardinality({c \in pending : c.kind = kind}) <= 1

\* An operator who stops clicking sees every spinner and busy button end.
PageSettles ==
    <>[](/\ ~list.loading /\ ~detail.loading /\ runs.trigger = "idle"
         /\ \A kind \in DOMAIN cards : ~cards[kind].busy)

\* What settles on the page is the newest answer, and of the scope it stands under.
PageIsCurrent == PageTyped /\ ShownIsOfScope /\ SettledIsNewest

\* A card, as long as it is mounted, waits for one delete at a time, which is for the
\* scope it was confirmed in.
DeletesConfirmed == ConfirmedInScope /\ OneDeleteAtATime

===============================================================================
