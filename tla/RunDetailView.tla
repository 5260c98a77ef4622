--------------------------- MODULE RunDetailView ---------------------------
(***************************************************************************)
(* The dashboard's page of a run (apps/web/src/views/RunDetailView.tsx,    *)
(* useRunDetail() and the panel in which hops are replayed), with the      *)
(* replays that the API runs for it.  The page stays mounted while the     *)
(* address goes from one run to another, and React keeps the card of a     *)
(* hop, with the panel in it, when the other run has a hop of the same     *)
(* index and agent.                                                        *)
(***************************************************************************)
EXTENDS Topology, Explanations, HopReplay

CONSTANTS
    RunsShown,   \* the runs, all complete
    NoRun,       \* is none of them
    HopsOf(_),      \* their edges
    AnalysisOf(_),  \* hop_analysis of their reports: [hop, label, score]
    DomainOf(_),    \* what the id of their workflow says: [id, profile]
    KeySets,     \* the providers that the API may have keys of
    Requests,    \* what other clients of the API ask for
    MaxVisits, MaxOpens, MaxCalls  \* bounds

ASSUME DetailAssumption ==
    /\ NoRun \notin RunsShown
    /\ MaxVisits \in Nat /\ MaxOpens \in Nat /\ MaxCalls \in Nat
    /\ \A r \in RunsShown :
          Len(HopsOf(r)) \in Nat /\ DOMAIN HopsOf(r) = 1..Len(HopsOf(r))
    /\ \A r \in RunsShown : \A i \in DOMAIN HopsOf(r) :
          HopsOf(r)[i].chat # <<>> => HopsOf(r)[i].input = "json"
    /\ \A K \in KeySets : K \subseteq {"openai", "anthropic", "groq"}
    /\ \A r \in RunsShown : \A i, j \in DOMAIN HopsOf(r) : i < j => HopsOf(r)[i].hop <= HopsOf(r)[j].hop
    /\ \A r \in RunsShown : \A i \in DOMAIN HopsOf(r) :
          /\ {"hop", "from", "to", "drift", "score"} \subseteq DOMAIN HopsOf(r)[i]
          /\ HopsOf(r)[i].hop \in Nat
          /\ \E k \in DOMAIN Alphabet : Alphabet[k] = HopsOf(r)[i].from
    /\ DOMAIN Alphabet \subseteq Nat
    /\ \A r \in RunsShown :
          Len(AnalysisOf(r)) \in Nat /\ DOMAIN AnalysisOf(r) = 1..Len(AnalysisOf(r))

NoAnswer == [run |-> NoRun, hop |-> -1]

VARIABLES
    address,   \* the run of the address
    fetching,  \* the run of the address is being fetched
    detail,    \* the run on show: its run and whether its report and its
               \* workspace's profile could be fetched
    tab,       \* which tab
    cards,     \* the open cards of the trace, each with its panel
    calls,     \* the replays under way: [id, panel, card, run, kind, ...]
    replays,   \* the rows of hop_llm_replays
    keys,      \* the providers the API has keys of
    visits, opens, asked  \* history: how many there were

detailVars == <<address, fetching, detail, tab, cards, calls, replays, keys, visits, opens, asked>>

NoDetail == [run |-> NoRun, blamed |-> FALSE, profiled |-> FALSE]

\* buildRunDetail() and edgesToTraceHops(): a hop gets the class that was
\* analysed LAST for its index.
Analysis(d) == IF d.blamed THEN AnalysisOf(d.run) ELSE <<>>
TraceHops(d) ==
    LET rows == Analysis(d)
        Class(h) ==
            LET mine == {i \in DOMAIN rows : rows[i].hop = h}
            IN IF mine = {} THEN NoMl
               ELSE [label |-> rows[LargestOf(mine)].label, score |-> rows[LargestOf(mine)].score]
        Classified(h) == [h EXCEPT !.drift = Class(h.hop).label, !.score = Class(h.hop).score]
    IN [i \in DOMAIN HopsOf(d.run) |-> Classified(HopsOf(d.run)[i])]

Card(h) == <<h.hop, h.from>>
CardsOf(r) == IF r = NoRun THEN {} ELSE {Card(HopsOf(r)[i]) : i \in DOMAIN HopsOf(r)}
HopOf(r, card) == FirstEdge(HopsOf(r), LAMBDA h : Card(h) = card)

DetailInit ==
    /\ address = NoRun /\ fetching = FALSE /\ detail = NoDetail /\ tab = "graph"
    /\ cards = <<>> /\ calls = {} /\ replays = {}
    /\ keys \in KeySets
    /\ visits = 0 /\ opens = 0 /\ asked = 0

-----------------------------------------------------------------------------
\* The address names another run: from a list, whose handler picks the tab,
\* or in the address bar or by several steps through the history, while a
\* run may be on show.  It stays on show until the other has been fetched.
Visit(r, listed) ==
    /\ visits < MaxVisits
    /\ r # address
    /\ listed => address = NoRun
    /\ address' = r /\ fetching' = TRUE
    /\ tab' = IF listed THEN "graph" ELSE tab
    /\ visits' = visits + 1
    /\ UNCHANGED <<detail, cards, calls, replays, keys, opens, asked>>

Leave ==
    /\ address # NoRun
    /\ address' = NoRun /\ fetching' = FALSE /\ detail' = NoDetail /\ cards' = <<>>
    /\ UNCHANGED <<tab, calls, replays, keys, visits, opens, asked>>

\* fetchRunDetail(): the report and the workspace are optional.  Cards of
\* the run that was on show stay if this one has a hop for them.
Fetched(blamed, profiled) ==
    LET kept == {c \in DOMAIN cards : c \in CardsOf(address)} IN
    /\ fetching /\ fetching' = FALSE
    /\ detail' = [run |-> address, blamed |-> blamed, profiled |-> profiled]
    /\ cards' = [c \in kept |-> [cards[c] EXCEPT !.moved = @ \/ detail.run # address]]
    /\ UNCHANGED <<address, tab, calls, replays, keys, visits, opens, asked>>

FetchFailed ==
    /\ fetching /\ fetching' = FALSE
    /\ detail' = NoDetail /\ cards' = <<>>
    /\ UNCHANGED <<address, tab, calls, replays, keys, visits, opens, asked>>

ShowTab(t) ==
    /\ detail.run # NoRun /\ tab # t
    /\ tab' = t /\ cards' = <<>>
    /\ UNCHANGED <<address, fetching, detail, calls, replays, keys, visits, opens, asked>>

\* A panel begins with what its hop was given and gave.
OpenCard(c) ==
    /\ tab = "trace" /\ opens < MaxOpens
    /\ c \in CardsOf(detail.run) \ DOMAIN cards
    /\ opens' = opens + 1
    /\ cards' = With(cards, c, [id |-> opens', from |-> detail.run, edited |-> FALSE, moved |-> FALSE,
                                busy |-> {}, blame |-> NoAnswer, llm |-> NoAnswer])
    /\ UNCHANGED <<address, fetching, detail, tab, calls, replays, keys, visits, asked>>

CloseCard(c) ==
    /\ c \in DOMAIN cards
    /\ cards' = [d \in DOMAIN cards \ {c} |-> cards[d]]
    /\ UNCHANGED <<address, fetching, detail, tab, calls, replays, keys, visits, opens, asked>>

\* Typing over the text of a panel, the hop's of the run on show.
Edit(c) ==
    /\ c \in DOMAIN cards /\ ~cards[c].edited
    /\ cards' = [cards EXCEPT ![c].edited = TRUE, ![c].from = detail.run]
    /\ UNCHANGED <<address, fetching, detail, tab, calls, replays, keys, visits, opens, asked>>

-----------------------------------------------------------------------------
Call(panel, card, run, kind, request, from) ==
    [id |-> asked + 1, panel |-> panel, card |-> card, run |-> run, kind |-> kind,
     request |-> request, from |-> from, stage |-> "asked", result |-> NoAnswer]

\* simulate() and replayLlm(): for the run and the hop of the card, with the
\* text in the panel, one call of a kind at a time.
AskFrom(c, kind, run) ==
    LET p == cards[c]
        text == IF p.edited THEN "edited" ELSE InputField(HopOf(p.from, c))
    IN /\ asked < MaxCalls
       /\ c \in DOMAIN cards /\ kind \notin p.busy
       /\ kind = "llm" => Replayable(HopOf(detail.run, c)) /\ text # "blank"
       /\ asked' = asked + 1
       /\ cards' = [cards EXCEPT ![c].busy = @ \cup {kind}]
       /\ calls' = calls \cup {Call(p.id, c, run, kind,
                                    [input |-> text, messages |-> <<>>, model |-> NoModel], p.from)}
       /\ UNCHANGED <<address, fetching, detail, tab, replays, keys, visits, opens>>

\* Variant of Ask: for the run of the address, which RunDetailView has too.
AskAddressed(c, kind) == AskFrom(c, kind, IF address = NoRun THEN detail.run ELSE address)

Ask(c, kind) == AskFrom(c, kind, detail.run)

\* POST /v1/runs/:id/hops/:hop/replay by anyone else.
AskApi(r, c, request) ==
    /\ asked < MaxCalls
    /\ c \in CardsOf(r) /\ Replayable(HopOf(r, c))
    /\ asked' = asked + 1
    /\ calls' = calls \cup {Call(0, c, r, "llm", request, r)}
    /\ UNCHANGED <<address, fetching, detail, tab, cards, replays, keys, visits, opens>>

\* The first of the edges that have the index of the card's hop.
HopAsked(k) == FirstEdge(HopsOf(k.run), LAMBDA h : h.hop = k.card[1])

\* A row of what two records say.
Joined(f, g) == [x \in DOMAIN f \cup DOMAIN g |-> IF x \in DOMAIN f THEN f[x] ELSE g[x]]

\* replayBlame() answers at once, replayHopLlm() when the provider has: the
\* API finds the hop by its index, so that a sibling's may be replayed, which
\* may not be replayable.
Answer(k, reply) ==
    LET h == HopAsked(k)
        refused == k.kind = "llm" /\ ~Replayable(h)
        result == IF k.kind = "blame" THEN [run |-> k.run, hop |-> k.card[1]]
                  ELSE Joined([id |-> k.id, run |-> k.run, agent |-> h.from, from |-> k.from,
                               panel |-> k.panel, request |-> k.request],
                              ReplayResult(HopsOf(k.run), h, k.request, keys, reply))
    IN /\ k.stage = "asked"
       /\ calls' = (calls \ {k}) \cup
              {[k EXCEPT !.stage = IF refused THEN "refused" ELSE IF k.kind = "blame" THEN "done" ELSE "answered",
                         !.result = IF refused THEN NoAnswer ELSE result]}
       /\ UNCHANGED <<address, fetching, detail, tab, cards, replays, keys, visits, opens, asked>>

\* The replay is saved after the provider has answered; an error then is all
\* that the caller gets.
Save(k, saved) ==
    /\ k.stage = "answered"
    /\ replays' = IF saved THEN replays \cup {k.result} ELSE replays
    /\ calls' = (calls \ {k}) \cup {[k EXCEPT !.stage = IF saved THEN "done" ELSE "refused",
                                              !.result = IF saved THEN @ ELSE NoAnswer]}
    /\ UNCHANGED <<address, fetching, detail, tab, cards, keys, visits, opens, asked>>

\* The answer is for the panel that asked, if it is still there; an error
\* leaves the result of an earlier call in it.
Return(k) ==
    LET there == k.card \in DOMAIN cards /\ cards[k.card].id = k.panel
        Result(kind, old) == IF k.kind = kind /\ k.stage = "done" THEN k.result ELSE old
    IN /\ k.stage \in {"done", "refused"}
       /\ calls' = calls \ {k}
       /\ cards' = IF there
                   THEN [cards EXCEPT ![k.card].busy = @ \ {k.kind},
                                      ![k.card].blame = Result("blame", @),
                                      ![k.card].llm = Result("llm", @)]
                   ELSE cards
       /\ UNCHANGED <<address, fetching, detail, tab, replays, keys, visits, opens, asked>>

DetailNext ==
    \/ \E r \in RunsShown, listed \in BOOLEAN : Visit(r, listed)
    \/ Leave
    \/ \E blamed, profiled \in BOOLEAN : Fetched(blamed, profiled)
    \/ FetchFailed
    \/ \E t \in {"graph", "trace"} : ShowTab(t)
    \/ \E c \in CardsOf(detail.run) : OpenCard(c)
    \/ \E c \in DOMAIN cards :
          \/ CloseCard(c) \/ Edit(c)
          \/ \E kind \in {"blame", "llm"} : Ask(c, kind)
    \/ \E r \in RunsShown : \E c \in CardsOf(r), request \in Requests : AskApi(r, c, request)
    \/ \E k \in calls :
          \/ \E reply \in {"text", "failed"} : Answer(k, reply)
          \/ \E saved \in BOOLEAN : Save(k, saved)
          \/ Return(k)

DetailSpec == DetailInit /\ [][DetailNext]_detailVars

-----------------------------------------------------------------------------
\* How three places tell of a hop: its card in the trace, which leaves out an
\* analysis that found nothing; the graph's tooltip, which only tells the
\* result; and the graph's panel, where explainHopSignals() forgets the profile's domain.  The graph knows
\* the FIRST analysis of an index.
FirstMl(d, h) ==
    LET rows == Analysis(d)
        mine == {i \in DOMAIN rows : rows[i].hop = h.hop}
    IN IF mine = {} THEN NoMl
       ELSE [label |-> rows[SmallestOf(mine)].label, score |-> rows[SmallestOf(mine)].score]

CardMl(h) == IF h.drift \in {Unlabelled, "none"} THEN NoMl ELSE [label |-> h.drift, score |-> h.score]

Profile(d) == IF d.profiled THEN DomainOf(d.run).profile ELSE Unlabelled
InDomain(d, profile) == Incident(DomainOf(d.run).id, profile)
Told(d, h, profile, ml) == Explained(h, ContextFor(TraceHops(d), h, InDomain(d, profile)), ml)

CardTells(d, h) == Told(d, h, Profile(d), CardMl(h))
Brief(told) == [confidence |-> told.confidence, pct |-> told.pct, intent |-> told.intent]
TooltipTells(d, h) == Brief(Told(d, h, Profile(d), FirstMl(d, h)))
\* Variant of PanelTells: of another hop before.
PanelTellsRaw(d, h) == Explained(h, [prior |-> <<>>, goal |-> TRUE, incident |-> FALSE], FirstMl(d, h))
PanelTells(d, h) == Told(d, h, Unlabelled, FirstMl(d, h))

\* The places of the page tell the same of a run.  A hop is explained alike
\* everywhere, unless its index was analysed twice with different results,
\* unless the profile of the workflow says another domain than its id (which
\* only the graph's panel goes by), and except that the trace alone says that
\* meaning was lost on a hop where the analysis found no drift.  The diagrams
\* agree on where its agents are (see DiagramsAgree).
ViewsAgree ==
    LET hops == TraceHops(detail)
        rows == Analysis(detail)
    IN detail.run # NoRun =>
        /\ DiagramsAgree(hops, "none")
        /\ \A a \in SendersOf(hops) :
            LET h == FirstEdge(hops, LAMBDA e : e.from = a)
                card == CardTells(detail, h)
                twice == \E i, j \in DOMAIN rows :
                            rows[i].hop = h.hop /\ rows[j].hop = h.hop /\ rows[i] # rows[j]
                unsaid == IF h.drift = "none" /\ Harm(h) >= 8 THEN {"lost meaning"} ELSE {}
            IN /\ twice \/ TooltipTells(detail, h) = Brief(card)
               /\ \/ PanelTells(detail, h) = [card EXCEPT !.intentFactors = @ \ unsaid]
                  \/ twice \/ InDomain(detail, Profile(detail)) # InDomain(detail, Unlabelled)

\* A panel shows, and asks with, what belongs to the run and the hop of its
\* card, and an answer of an LLM only when its replay is on record; unless the
\* page went to another run under the open panel, or hops share the index.
PanelIsHome ==
    \A c \in DOMAIN cards :
        LET p == cards[c] IN
        /\ \/ p.moved
           \/ /\ p.from = detail.run
              /\ {p.blame.run, p.llm.run} \subseteq {NoRun, detail.run}
              /\ \A k \in calls : k.panel = p.id => k.run = detail.run /\ k.from = detail.run
        /\ p.llm # NoAnswer =>
              /\ p.llm \in replays
              /\ \/ p.llm.agent = c[2]
                 \/ \E h \in CardsOf(p.llm.run) : h[1] = c[1] /\ h # c

\* A replay that has something to say goes to a provider that has the model,
\* unless that one has no key, or the caller named the model; and what the panel replays unedited is
\* what was recorded, unless the hop was given JSON (whose text takes the
\* place of a message), or the panel's text is that of another hop.
ReplaysAreFaithful ==
    \A r \in {s \in replays : s.input # "blank"} :
        LET h == FirstEdge(HopsOf(r.run), LAMBDA e : e.hop = r.hop)
            wanted == IF r.request.model # NoModel THEN r.request.model ELSE h.model
        IN /\ \/ r.provider \in FamiliesOf[r.model]
              \/ r.provider = "local" /\ r.model = LocalModel
              \/ FamiliesOf[wanted] \cap keys = {} /\ (r.provider = "local" => FamiliesOf[r.model] = {})
              \/ r.provider = "local" /\ r.request.model # NoModel
           /\ r.panel # 0 /\ r.request.input # "edited" /\ r.from = r.run =>
              \/ r.body.turns = (IF ParentContext(HopsOf(r.run), h) = <<>> \/ r.provider = "anthropic"
                                 THEN <<>> ELSE <<Said("system", "context")>>)
                                \o <<Said("user", "recorded")>>
              \/ h.input = "json"
              \/ \E c \in CardsOf(r.run) : c[1] = r.hop /\ c # Card(h)
=============================================================================
