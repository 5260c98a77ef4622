--------------------------- MODULE Console_proofs ---------------------------
(***************************************************************************)
(* What the dashboard shows and what its addresses say, for any number of  *)
(* workspaces, runs, queries and requests.                                 *)
(*                                                                         *)
(* Pages.  DashboardIInv has three parts.  Current: what every load has    *)
(* under way and shows; a load of a page (the detail, the settings) only   *)
(* ever asks for what is open, a hook of App only promises that of its     *)
(* newest request, so that `late` and `crossed` name all the ways in which *)
(* a page can be stale.  Switches: a switch never ends with the user's own *)
(* workspace replaced by itself, so a hook that is right before a switch   *)
(* is asked anew by it.  Saving: what the settings form holds.             *)
(*                                                                         *)
(* Every event ends in Effects, and CurrentStep says once what an event    *)
(* must leave for its effects to leave Current; each event then has a      *)
(* lemma of its own.                                                       *)
(*                                                                         *)
(* Addresses.  RouteIInv says of every entry of the history that its       *)
(* address, where one exists, reads as what was on show.                   *)
(***************************************************************************)
EXTENDS Console, SequenceRanges, TLAPS

Spaces == Workspaces \cup {None}
Keys == Queries \cup Runs \cup {None}
PageLoads == {"detail", "settings"}

Request ==
  [key : Keys, ws : Spaces, with : Spaces, newest : BOOLEAN, then : {None, "everything"}]
LoadedType == [ws : Spaces, key : Keys, with : Spaces]
SessionType == [token : Spaces, user : Spaces, at : {"boot", "out", "in"}]
PageType == [view : Views \cup {None}, query : Queries, run : Runs]
SwitchType == [to : Spaces, at : {None, "switch", "me"}]
FeedType == [open : Spaces, events : SUBSET Spaces]
WizardType ==
  [trigger : {None, "workspace-created", "member-joined"},
   shows : {None, "workspace-created", "member-joined", "empty-workspace"},
   done : SUBSET Spaces, misled : BOOLEAN]

(* An event's state, before its effects.                                   *)
StateOk(s) ==
  /\ s.session \in SessionType /\ s.feed \in FeedType /\ s.wizard \in WizardType
  /\ s.requests \in [Loads -> Seq(Request)] /\ s.content \in [Loads -> LoadedType]

(* Effects, whether the onboarding effect runs or not.                     *)
EffectsOf(pg, calls, then, s) ==
  /\ page' = pg /\ session' = s.session
  /\ requests' = [k \in Loads |->
        LET rest == IF Cancels(k, pg) THEN <<>> ELSE s.requests[k]
        IN IF Enabled(k, pg) /\ (Moved(k, pg) \/ k \in calls)
             THEN Sent(rest, k, pg, s.session.token, then) ELSE rest]
  /\ content' = [k \in Loads |-> IF Clears(k, pg) THEN Nothing ELSE s.content[k]]
  /\ feed' = FeedOf(pg, s.feed, content'.metrics, s.session.token)
  /\ wizard' \in {s.wizard, WizardOf(s.session.user, s.wizard, s.waits, content'.metrics)}

LEMMA EffectsAre ==
  ASSUME NEW pg, NEW calls, NEW then, NEW s, NEW woken, Effects(pg, calls, then, s, woken)
  PROVE  EffectsOf(pg, calls, then, s)
<1> DEFINE opens == {k \in Loads : Enabled(k, pg) /\ (Moved(k, pg) \/ k \in calls)}
           kept == [k \in Loads |-> IF Clears(k, pg) THEN Nothing ELSE s.content[k]]
<1>1. /\ page' = pg /\ session' = s.session /\ content' = kept
      /\ feed' = FeedOf(pg, s.feed, kept.metrics, s.session.token)
      /\ wizard' = IF woken THEN WizardOf(s.session.user, s.wizard, s.waits, kept.metrics) ELSE s.wizard
  BY DEF Effects
<1>2. requests' = [k \in Loads |->
              LET rest == IF Cancels(k, pg) THEN <<>> ELSE s.requests[k]
              IN IF k \in opens THEN Sent(rest, k, pg, s.session.token, then) ELSE rest]
  BY DEF Effects
<1>3. ASSUME NEW k \in Loads
      PROVE  (k \in opens) <=> (Enabled(k, pg) /\ (Moved(k, pg) \/ k \in calls))
  OBVIOUS
<1> HIDE DEF opens, kept
<1>4. wizard' \in {s.wizard, WizardOf(s.session.user, s.wizard, s.waits, content'.metrics)}
  BY <1>1
<1>5. requests' = [k \in Loads |->
        LET rest == IF Cancels(k, pg) THEN <<>> ELSE s.requests[k]
        IN IF Enabled(k, pg) /\ (Moved(k, pg) \/ k \in calls)
             THEN Sent(rest, k, pg, s.session.token, then) ELSE rest]
  BY <1>2, <1>3, Zenon
<1> QED BY <1>1, <1>4, <1>5 DEF EffectsOf, kept

(* The request that a load sends, and what sending does to those before.   *)
Asked(k, pg, token, then) ==
  [key |-> KeyOf(k, pg), ws |-> token, with |-> None, newest |-> TRUE, then |-> then]
Aged(r) == [r EXCEPT !.newest = FALSE]

LEMMA AskedType ==
  ASSUME NEW k \in Loads, NEW pg \in PageType, NEW token \in Spaces, NEW then \in {None, "everything"}
  PROVE  Asked(k, pg, token, then) \in Request
<1>1. KeyOf(k, pg) \in Keys BY DEF KeyOf, Keys, PageType
<1> QED BY <1>1 DEF Asked, Request, Spaces

LEMMA AgedType ==
  ASSUME NEW r \in Request
  PROVE  /\ Aged(r) \in Request /\ ~Aged(r).newest
         /\ Aged(r).ws = r.ws /\ Aged(r).key = r.key /\ Aged(r).with = r.with
BY DEF Aged, Request

LEMMA SentIs ==
  ASSUME NEW list \in Seq(Request), NEW k \in Loads, NEW pg \in PageType, NEW token \in Spaces,
         NEW then \in {None, "everything"}
  PROVE  /\ Sent(list, k, pg, token, then) \in Seq(Request) \ {<<>>}
         /\ Range(Sent(list, k, pg, token, then)) =
              {Aged(r) : r \in Range(list)} \cup {Asked(k, pg, token, then)}
<1> DEFINE old == [i \in DOMAIN list |-> [list[i] EXCEPT !.newest = FALSE]]
<1>1. Sent(list, k, pg, token, then) = Append(old, Asked(k, pg, token, then)) BY DEF Sent, Asked
<1>2. \A i \in DOMAIN list : list[i] \in Request OBVIOUS
<1>3. DOMAIN old = DOMAIN list /\ \A i \in DOMAIN list : old[i] = Aged(list[i]) BY DEF Aged
<1>4. DOMAIN list = 1..Len(list) /\ Len(list) \in Nat OBVIOUS
<1>5. old = [i \in 1..Len(list) |-> old[i]] BY <1>4
<1> HIDE DEF old
<1>6. old \in Seq(Request) BY <1>2, <1>3, <1>4, <1>5, AgedType
<1>7. Range(old) = {Aged(r) : r \in Range(list)} BY <1>3 DEF Range
<1> QED BY <1>1, <1>6, <1>7, AskedType, RangeAppend


Sends(k, pg, calls) == Enabled(k, pg) /\ (Moved(k, pg) \/ k \in calls)

(* What the effects of an event do to one load.                            *)
SentAs(k, pg, then, s) ==
  /\ requests'[k] # <<>> /\ Asked(k, pg, s.session.token, then) \in Range(requests'[k])
  /\ \A r \in Range(requests'[k]) :
       \/ r = Asked(k, pg, s.session.token, then)
       \/ ~Cancels(k, pg) /\ \E q \in Range(s.requests[k]) : r = Aged(q)

LoadAs(k, pg, calls, s) ==
  /\ Clears(k, pg) => content'[k] = Nothing
  /\ ~Clears(k, pg) => content'[k] = s.content[k]
  /\ ~Sends(k, pg, calls) /\ Cancels(k, pg) => requests'[k] = <<>>
  /\ ~Sends(k, pg, calls) /\ ~Cancels(k, pg) => requests'[k] = s.requests[k]

LEMMA LoadStep ==
  ASSUME NEW pg \in PageType, NEW calls, NEW then \in {None, "everything"}, NEW s, StateOk(s),
         EffectsOf(pg, calls, then, s)
  PROVE  /\ requests' \in [Loads -> Seq(Request)] /\ content' \in [Loads -> LoadedType]
         /\ \A k \in Loads : LoadAs(k, pg, calls, s) /\ (Sends(k, pg, calls) => SentAs(k, pg, then, s))
<1> DEFINE Rest(j) == IF Cancels(j, pg) THEN <<>> ELSE s.requests[j]
           token == s.session.token
<1>1. token \in Spaces BY DEF StateOk, SessionType
<1>2. \A j \in Loads : Rest(j) \in Seq(Request) BY DEF StateOk
<1>3. requests' = [j \in Loads |-> IF Sends(j, pg, calls) THEN Sent(Rest(j), j, pg, token, then) ELSE Rest(j)]
  BY Zenon DEF EffectsOf, Sends
<1>4. content' = [j \in Loads |-> IF Clears(j, pg) THEN Nothing ELSE s.content[j]] BY DEF EffectsOf
<1>5. Nothing \in LoadedType BY DEF Nothing, LoadedType, Spaces, Keys
<1>6. content' \in [Loads -> LoadedType] BY <1>4, <1>5 DEF StateOk
<1>7. \A j \in Loads : Sent(Rest(j), j, pg, token, then) \in Seq(Request) BY <1>1, <1>2, SentIs
<1>8. requests' \in [Loads -> Seq(Request)]
  <2> HIDE DEF Rest, token
  <2> QED BY <1>2, <1>3, <1>7
<1>9. ASSUME NEW k \in Loads PROVE LoadAs(k, pg, calls, s) /\ (Sends(k, pg, calls) => SentAs(k, pg, then, s))
  <2>1. requests'[k] = IF Sends(k, pg, calls) THEN Sent(Rest(k), k, pg, token, then) ELSE Rest(k)
    <3> HIDE DEF Rest, token
    <3> QED BY <1>3
  <2>2. LoadAs(k, pg, calls, s) BY <1>4, <2>1 DEF LoadAs
  <2>3. ASSUME Sends(k, pg, calls) PROVE SentAs(k, pg, then, s)
    <3>1. requests'[k] = Sent(Rest(k), k, pg, token, then) BY <2>1, <2>3
    <3>2. Rest(k) \in Seq(Request) BY <1>2
    <3>3. /\ requests'[k] # <<>>
          /\ Range(requests'[k]) = {Aged(r) : r \in Range(Rest(k))} \cup {Asked(k, pg, token, then)}
      <4> HIDE DEF Rest, token
      <4> QED BY <1>1, <3>1, <3>2, SentIs
    <3>4. Cancels(k, pg) => Range(Rest(k)) = {} BY RangeEmpty
    <3> QED BY <3>3, <3>4 DEF SentAs
  <2> QED BY <2>2, <2>3
<1> QED BY <1>6, <1>8, <1>9

-----------------------------------------------------------------------------

RightFor(token, pg, k, r) ==
  r.ws = token /\ r.key = KeyOf(k, pg) /\ r.with \in {None, token}

(* A load of a page or a run: everything asked for is right, and so is     *)
(* what is shown once it is there; settings outlive a failing request.     *)
PageLoad(k, token, pg, list, c) ==
  /\ \A r \in Range(list) : RightFor(token, pg, k, r)
  /\ (k = "detail" /\ list # <<>>) \/ c = Nothing \/ RightFor(token, pg, k, c)

(* A hook of App: the newest request is right, and so is what is shown     *)
(* once it was answered, unless an older one was answered later.           *)
HookLoad(k, token, pg, overtaken, list, c) ==
  /\ \A r \in Range(list) : r.newest => RightFor(token, pg, k, r)
  /\ (\E r \in Range(list) : r.newest) \/ k \in overtaken \/ c = Nothing \/ RightFor(token, pg, k, c)

LEMMA ViewsNamed == None \notin Views /\ \A k \in Loads : None \notin EnabledIn[k]
BY DEF Views, EnabledIn, None, Loads, Hooks

LEMMA AskedRight ==
  ASSUME NEW pg, NEW k, NEW token, NEW then
  PROVE  /\ RightFor(token, pg, k, Asked(k, pg, token, then))
         /\ Asked(k, pg, token, then).newest
BY DEF RightFor, Asked

LEMMA AgedRight ==
  ASSUME NEW pg, NEW k, NEW token, NEW r \in Request, RightFor(token, pg, k, r)
  PROVE  RightFor(token, pg, k, Aged(r))
BY AgedType DEF RightFor

LEMMA PageLoadStep ==
  ASSUME NEW pg \in PageType, NEW calls, NEW then \in {None, "everything"}, NEW s, StateOk(s),
         EffectsOf(pg, calls, then, s), NEW k \in PageLoads,
         ~Enabled(k, page) => s.content[k] = Nothing,
         \/ Moved(k, pg) \/ pg.view = None
         \/ PageLoad(k, s.session.token, pg, s.requests[k], s.content[k])
  PROVE  PageLoad(k, session'.token, page', requests'[k], content'[k])
<1> DEFINE token == s.session.token
           asked == Asked(k, pg, token, then)
<1>1. k \in Loads /\ k \notin Hooks BY DEF PageLoads, Loads, Hooks
<1>0. LoadAs(k, pg, calls, s) /\ (Sends(k, pg, calls) => SentAs(k, pg, then, s)) BY <1>1, LoadStep
<1>2. page' = pg /\ session'.token = token BY DEF EffectsOf
<1>3. CASE Sends(k, pg, calls)
  <2>1. /\ requests'[k] # <<>> /\ asked \in Range(requests'[k])
        /\ \A r \in Range(requests'[k]) :
             r = asked \/ (~Cancels(k, pg) /\ \E q \in Range(s.requests[k]) : r = Aged(q))
    BY <1>0, <1>3 DEF SentAs
  <2>2. ASSUME NEW r \in Range(requests'[k]) PROVE RightFor(token, pg, k, r)
    <3>1. CASE r = asked BY <3>1, AskedRight
    <3>2. ASSUME ~Cancels(k, pg), NEW q \in Range(s.requests[k]), r = Aged(q) PROVE RightFor(token, pg, k, r)
      <4>1. PageLoad(k, token, pg, s.requests[k], s.content[k]) BY <1>1, <3>2 DEF Cancels
      <4>2. q \in Request BY <1>1, RangeType DEF StateOk
      <4> QED BY <3>2, <4>1, <4>2, AgedRight DEF PageLoad
    <3> QED BY <2>1, <3>1, <3>2
  <2>3. ASSUME k = "settings" PROVE content'[k] = Nothing \/ RightFor(token, pg, k, content'[k])
    <3>1. pg.view # None BY <1>1, <1>3, ViewsNamed DEF Sends, Enabled
    <3>2. content'[k] = s.content[k] BY <1>0, <1>3, <3>1 DEF LoadAs, Sends, Clears
    <3>3. CASE Moved(k, pg)
      <4>1. KeyOf(k, pg) = KeyOf(k, page) BY <2>3 DEF KeyOf
      <4>2. ~Enabled(k, page) BY <1>3, <3>3, <4>1 DEF Moved, Sends
      <4> QED BY <3>2, <4>2
    <3>4. CASE ~Moved(k, pg) BY <2>3, <3>1, <3>2, <3>4 DEF PageLoad
    <3> QED BY <3>3, <3>4
  <2> QED BY <1>2, <2>1, <2>2, <2>3 DEF PageLoad, PageLoads
<1>4. CASE ~Sends(k, pg, calls) /\ Cancels(k, pg)
  <2>1. Clears(k, pg) BY <1>4, <1>1 DEF Sends, Cancels, Clears
  <2>2. requests'[k] = <<>> /\ content'[k] = Nothing BY <1>0, <1>4, <2>1 DEF LoadAs
  <2> QED BY <2>2, RangeEmpty DEF PageLoad
<1>5. CASE ~Sends(k, pg, calls) /\ ~Cancels(k, pg)
  <2>1. ~Clears(k, pg) /\ ~Moved(k, pg) /\ pg.view # None BY <1>5, <1>1 DEF Sends, Cancels, Clears
  <2>2. requests'[k] = s.requests[k] /\ content'[k] = s.content[k] BY <1>0, <1>5, <2>1 DEF LoadAs
  <2> QED BY <1>2, <2>1, <2>2
<1> QED BY <1>3, <1>4, <1>5

LEMMA HookLoadStep ==
  ASSUME NEW pg \in PageType, NEW calls, NEW then \in {None, "everything"}, NEW s, StateOk(s),
         EffectsOf(pg, calls, then, s), NEW k \in Hooks, Enabled(k, pg), NEW overtaken,
         \/ Moved(k, pg) \/ k \in calls
         \/ HookLoad(k, s.session.token, pg, overtaken, s.requests[k], s.content[k])
  PROVE  HookLoad(k, session'.token, page', overtaken, requests'[k], content'[k])
<1> DEFINE token == s.session.token
           asked == Asked(k, pg, token, then)
<1>1. k \in Loads BY DEF Loads
<1>0. LoadAs(k, pg, calls, s) /\ (Sends(k, pg, calls) => SentAs(k, pg, then, s)) BY <1>1, LoadStep
<1>2. page' = pg /\ session'.token = token BY DEF EffectsOf
<1>3. CASE Sends(k, pg, calls)
  <2>1. /\ asked \in Range(requests'[k])
        /\ \A r \in Range(requests'[k]) :
             r = asked \/ (~Cancels(k, pg) /\ \E q \in Range(s.requests[k]) : r = Aged(q))
    BY <1>0, <1>3 DEF SentAs
  <2>2. \A q \in Range(s.requests[k]) : ~Aged(q).newest
    BY <1>1, RangeType, AgedType DEF StateOk
  <2>3. RightFor(token, pg, k, asked) /\ asked.newest BY AskedRight
  <2> HIDE DEF asked, token
  <2> QED BY <1>2, <2>1, <2>2, <2>3 DEF HookLoad
<1>4. CASE ~Sends(k, pg, calls)
  <2>1. ~Moved(k, pg) /\ k \notin calls BY <1>4 DEF Sends
  <2>2. pg.view # None BY DEF Enabled, EnabledIn, None, Hooks
  <2>3. ~Clears(k, pg) /\ ~Cancels(k, pg) BY <2>1, <2>2 DEF Clears, Cancels
  <2>4. requests'[k] = s.requests[k] /\ content'[k] = s.content[k] BY <1>0, <1>4, <2>3 DEF LoadAs
  <2> QED BY <1>2, <2>1, <2>4
<1> QED BY <1>3, <1>4


LEMMA WizardStep ==
  ASSUME NEW user \in Spaces, NEW w \in WizardType, NEW waits, NEW metrics
  PROVE  /\ WizardOf(user, w, waits, metrics) \in WizardType
         /\ ~w.misled /\ (user = None \/ metrics = Nothing \/ metrics.ws = user) =>
              ~WizardOf(user, w, waits, metrics).misled
<1> DEFINE finds == ~waits /\ metrics # Nothing /\ metrics.ws \notin Populated
           v == WizardOf(user, w, waits, metrics)
<1>1. CASE user = None
  <2>1. v = [w EXCEPT !.shows = None, !.misled = FALSE] BY <1>1 DEF WizardOf
  <2> QED BY <2>1 DEF WizardType
<1>2. CASE user # None /\ user \in w.done
  <2>1. v = [w EXCEPT !.shows = None, !.trigger = None, !.misled = FALSE] BY <1>2 DEF WizardOf
  <2> QED BY <2>1 DEF WizardType
<1>3. CASE user # None /\ user \notin w.done /\ w.trigger # None
  <2>1. v = [w EXCEPT !.shows = w.trigger] BY <1>3 DEF WizardOf
  <2> QED BY <2>1 DEF WizardType
<1>4. CASE user # None /\ user \notin w.done /\ w.trigger = None /\ finds
  <2>1. v = [w EXCEPT !.shows = "empty-workspace", !.misled = user \in Populated] BY <1>4 DEF WizardOf
  <2>2. v \in WizardType
    <3>1. CASE user \in Populated
      <4>1. v = [w EXCEPT !.shows = "empty-workspace", !.misled = TRUE] BY <2>1, <3>1
      <4> QED BY <4>1 DEF WizardType
    <3>2. CASE user \notin Populated
      <4>0. (user \in Populated) = FALSE BY <3>2
      <4>1. v = [w EXCEPT !.shows = "empty-workspace", !.misled = FALSE]
        <5> HIDE DEF v
        <5> QED BY <2>1, <4>0, Zenon
      <4> QED BY <4>1 DEF WizardType
    <3> QED BY <3>1, <3>2
  <2>3. metrics.ws = user => user \notin Populated BY <1>4
  <2>4. metrics.ws = user => ~v.misled BY <2>1, <2>3 DEF WizardType
  <2> QED BY <1>4, <2>2, <2>4
<1>5. CASE user # None /\ user \notin w.done /\ w.trigger = None /\ ~finds
  <2>1. v = w BY <1>5 DEF WizardOf
  <2> QED BY <2>1
<1> QED BY <1>1, <1>2, <1>3, <1>4, <1>5

LEMMA FeedStep ==
  ASSUME NEW pg, NEW f \in FeedType, NEW metrics, NEW token \in Spaces
  PROVE  /\ FeedOf(pg, f, metrics, token) \in FeedType
         /\ pg.view # "monitor" => FeedOf(pg, f, metrics, token) = [open |-> None, events |-> {}]
         /\ FeedOf(pg, f, metrics, token).open \in {None, f.open, token}
         /\ FeedOf(pg, f, metrics, token).events \subseteq f.events
<1>1. CASE pg.view # "monitor" BY <1>1 DEF FeedOf, FeedType, Spaces
<1>2. CASE pg.view = "monitor"
  <2>1. FeedOf(pg, f, metrics, token) =
          [f EXCEPT !.open = IF metrics = Nothing THEN None ELSE IF f.open # None THEN f.open ELSE token]
    BY <1>2 DEF FeedOf
  <2> QED BY <1>2, <2>1 DEF FeedType, Spaces
<1> QED BY <1>1, <1>2

(* The effects leave the variables as they are typed, and what is not open *)
(* empty.                                                                  *)
Quiet(pg, reqs, cont) ==
  /\ pg.view = None => \A k \in Loads : reqs[k] = <<>> /\ cont[k] = Nothing
  /\ \A k \in PageLoads : ~Enabled(k, pg) => reqs[k] = <<>> /\ cont[k] = Nothing

LEMMA TypesStep ==
  ASSUME NEW pg \in PageType, NEW calls, NEW then \in {None, "everything"}, NEW s, StateOk(s),
         EffectsOf(pg, calls, then, s)
  PROVE  /\ session' \in SessionType /\ page' \in PageType
         /\ requests' \in [Loads -> Seq(Request)] /\ content' \in [Loads -> LoadedType]
         /\ feed' \in FeedType /\ wizard' \in WizardType
         /\ pg.view # "monitor" => feed' = [open |-> None, events |-> {}]
         /\ feed'.open \in {None, s.feed.open, s.session.token}
         /\ feed'.events \subseteq s.feed.events
<1>1. session' = s.session /\ page' = pg BY DEF EffectsOf
<1>2. requests' \in [Loads -> Seq(Request)] /\ content' \in [Loads -> LoadedType] BY LoadStep
<1>3. feed' = FeedOf(pg, s.feed, content'.metrics, s.session.token) BY DEF EffectsOf
<1>4. wizard' \in {s.wizard, WizardOf(s.session.user, s.wizard, s.waits, content'.metrics)} BY DEF EffectsOf
<1>5. /\ s.session \in SessionType /\ s.feed \in FeedType /\ s.wizard \in WizardType
      /\ s.session.token \in Spaces /\ s.session.user \in Spaces
  BY DEF StateOk, SessionType
<1>6. wizard' \in WizardType BY <1>4, <1>5, WizardStep
<1>7. /\ feed' \in FeedType /\ (pg.view # "monitor" => feed' = [open |-> None, events |-> {}])
      /\ feed'.open \in {None, s.feed.open, s.session.token} /\ feed'.events \subseteq s.feed.events
  BY <1>3, <1>5, FeedStep
<1> QED BY <1>1, <1>2, <1>5, <1>6, <1>7

LEMMA QuietStep ==
  ASSUME NEW pg \in PageType, NEW calls, NEW then \in {None, "everything"}, NEW s, StateOk(s),
         EffectsOf(pg, calls, then, s),
         \A k \in PageLoads : ~Enabled(k, page) => s.requests[k] = <<>> /\ s.content[k] = Nothing
  PROVE  Quiet(pg, requests', content')
<1>1. \A k \in Loads : LoadAs(k, pg, calls, s) BY LoadStep
<1>2. PageLoads \subseteq Loads /\ PageLoads \cap Hooks = {} BY DEF PageLoads, Loads, Hooks
<1>3. ASSUME pg.view = None, NEW k \in Loads PROVE requests'[k] = <<>> /\ content'[k] = Nothing
  <2>1. ~Enabled(k, pg) BY <1>3 DEF Enabled, EnabledIn, None, Loads, Hooks
  <2> QED BY <1>1, <1>3, <2>1 DEF LoadAs, Sends, Cancels, Clears
<1>4. ASSUME NEW k \in PageLoads, ~Enabled(k, pg) PROVE requests'[k] = <<>> /\ content'[k] = Nothing
  <2>1. k \in Loads /\ k \notin Hooks /\ LoadAs(k, pg, calls, s) /\ ~Sends(k, pg, calls)
    BY <1>1, <1>2, <1>4 DEF Sends
  <2>2. CASE pg.view = None BY <2>2, <1>3, <2>1
  <2>3. CASE Moved(k, pg) BY <1>4, <2>1, <2>3 DEF LoadAs, Cancels, Clears
  <2>4. CASE pg.view # None /\ ~Moved(k, pg)
    <3>1. ~Enabled(k, page) BY <1>4, <2>4 DEF Moved
    <3> QED BY <2>1, <2>4, <3>1 DEF LoadAs, Cancels, Clears
  <2> QED BY <2>2, <2>3, <2>4
<1> QED BY <1>3, <1>4 DEF Quiet

(* Metrics are of the workspace of the token, and so the wizard is right.  *)
Metered(token, reqs, cont, w) ==
  /\ \A r \in Range(reqs.metrics) : r.ws = token
  /\ cont.metrics = Nothing \/ cont.metrics.ws = token
  /\ ~w.misled

LEMMA MeterStep ==
  ASSUME NEW pg \in PageType, NEW calls, NEW then \in {None, "everything"}, NEW s, StateOk(s),
         EffectsOf(pg, calls, then, s), s.session.user \in {None, s.session.token},
         Metered(s.session.token, s.requests, s.content, s.wizard)
  PROVE  Metered(session'.token, requests', content', wizard')
<1> DEFINE token == s.session.token
<1>1. "metrics" \in Loads BY DEF Loads, Hooks
<1>2. LoadAs("metrics", pg, calls, s) /\ (Sends("metrics", pg, calls) => SentAs("metrics", pg, then, s))
  BY <1>1, LoadStep
<1>3. session'.token = token BY DEF EffectsOf
<1>4. ASSUME NEW r \in Range(requests'.metrics) PROVE r.ws = token
  <2>1. CASE Sends("metrics", pg, calls)
    <3>1. Asked("metrics", pg, token, then).ws = token BY DEF Asked
    <3>2. \A q \in Range(s.requests.metrics) : Aged(q).ws = token
      <4>1. Range(s.requests["metrics"]) \subseteq Request BY <1>1, RangeType DEF StateOk
      <4> QED BY <4>1, AgedType DEF Metered
    <3>3. \/ r = Asked("metrics", pg, token, then)
          \/ \E q \in Range(s.requests.metrics) : r = Aged(q)
      BY <1>2, <1>4, <2>1 DEF SentAs
    <3> QED BY <3>1, <3>2, <3>3
  <2>2. CASE ~Sends("metrics", pg, calls)
    <3>1. requests'.metrics \in {<<>>, s.requests.metrics} BY <1>2, <2>2 DEF LoadAs
    <3> QED BY <1>4, <3>1, RangeEmpty DEF Metered
  <2> QED BY <2>1, <2>2
<1>5. content'.metrics = Nothing \/ content'.metrics.ws = token BY <1>2 DEF LoadAs, Metered
<1>6. wizard' \in {s.wizard, WizardOf(s.session.user, s.wizard, s.waits, content'.metrics)} BY DEF EffectsOf
<1>7. s.session.user \in Spaces /\ s.wizard \in WizardType /\ ~s.wizard.misled
  BY DEF StateOk, SessionType, Metered
<1>8. s.session.user = None \/ content'.metrics = Nothing \/ content'.metrics.ws = s.session.user BY <1>5
<1>9. ~WizardOf(s.session.user, s.wizard, s.waits, content'.metrics).misled BY <1>7, <1>8, WizardStep
<1>10. ~wizard'.misled BY <1>6, <1>7, <1>9
<1> QED BY <1>3, <1>4, <1>5, <1>10 DEF Metered


-----------------------------------------------------------------------------

CurrentTypes ==
  /\ session \in SessionType /\ page \in PageType
  /\ requests \in [Loads -> Seq(Request)] /\ content \in [Loads -> LoadedType]
  /\ feed \in FeedType /\ wizard \in WizardType

(* What the loads ask for and show, but those open when the token changed. *)
PagesRight ==
  \A k \in PageLoads : k \notin crossed => PageLoad(k, session.token, page, requests[k], content[k])

(* The hooks, once the user is who the token says: a switch asks anew.     *)
HooksRight ==
  session.user = session.token =>
    \A k \in Hooks : Enabled(k, page) => HookLoad(k, session.token, page, late, requests[k], content[k])

FeedRight ==
  /\ page.view # "monitor" => feed = [open |-> None, events |-> {}]
  /\ "feed" \notin crossed => feed.open \in {None, session.token} /\ feed.events \subseteq {session.token}

MetersRight ==
  "app" \notin crossed =>
    session.user \in {None, session.token} /\ Metered(session.token, requests, content, wizard)

Current ==
  /\ CurrentTypes
  /\ (session.at = "in") <=> (page.view # None)
  /\ Quiet(page, requests, content)
  /\ PagesRight /\ HooksRight /\ FeedRight /\ MetersRight

(* A switch is to another workspace than the user's, and takes its token   *)
(* before its user.                                                        *)
Switches ==
  /\ switching \in SwitchType
  /\ session.at # "in" => switching = Idle
  /\ switching.at = "switch" => switching.to # session.user
  /\ switching.at = "me" => session.token = switching.to

(* What the settings form holds is of the token's workspace.               *)
Saving ==
  /\ form \in Spaces
  /\ page.view # "settings" => form = None
  /\ "settings" \notin crossed => form \in {None, session.token}
  /\ SavedAtHome

DashboardIInv == Current /\ Switches /\ Saving

(* What an event must leave for its effects to leave what is current.      *)
LEMMA CurrentStep ==
  ASSUME NEW pg \in PageType, NEW calls, NEW then \in {None, "everything"}, NEW s, StateOk(s),
         EffectsOf(pg, calls, then, s),
         (s.session.at = "in") <=> (pg.view # None),
         \A k \in PageLoads : ~Enabled(k, page) => s.requests[k] = <<>> /\ s.content[k] = Nothing,
         \A k \in PageLoads : k \notin crossed' =>
            \/ Moved(k, pg) \/ pg.view = None
            \/ PageLoad(k, s.session.token, pg, s.requests[k], s.content[k]),
         s.session.user = s.session.token =>
            \A k \in Hooks : Enabled(k, pg) =>
               \/ Moved(k, pg) \/ k \in calls
               \/ HookLoad(k, s.session.token, pg, late', s.requests[k], s.content[k]),
         "feed" \notin crossed' =>
            \/ pg.view # "monitor"
            \/ s.feed.open \in {None, s.session.token} /\ s.feed.events \subseteq {s.session.token},
         "app" \notin crossed' =>
            /\ s.session.user \in {None, s.session.token}
            /\ \/ Metered(s.session.token, s.requests, s.content, s.wizard)
               \/ Metered(session'.token, requests', content', wizard')
  PROVE  Current'
<1>1. session' = s.session /\ page' = pg BY DEF EffectsOf
<1>2. CurrentTypes' BY TypesStep DEF CurrentTypes
<1>3. ((session.at = "in") <=> (page.view # None))' BY <1>1
<1>4. Quiet(page, requests, content)'
  <2>1. Quiet(pg, requests', content') BY QuietStep
  <2> QED BY <1>1, <2>1
<1>5. PagesRight'
  <2>1. ASSUME NEW k \in PageLoads, k \notin crossed'
        PROVE  PageLoad(k, session'.token, page', requests'[k], content'[k])
    BY <2>1, PageLoadStep
  <2> QED BY <2>1 DEF PagesRight
<1>6. HooksRight'
  <2>1. ASSUME session'.user = session'.token, NEW k \in Hooks, Enabled(k, pg)
        PROVE  HookLoad(k, session'.token, page', late', requests'[k], content'[k])
    <3>1. \/ Moved(k, pg) \/ k \in calls
          \/ HookLoad(k, s.session.token, pg, late', s.requests[k], s.content[k])
      BY <1>1, <2>1
    <3> QED BY <2>1, <3>1, HookLoadStep
  <2>2. ASSUME NEW k \in Hooks PROVE Enabled(k, page)' <=> Enabled(k, pg) BY <1>1 DEF Enabled
  <2> QED BY <2>1, <2>2 DEF HooksRight
<1>7. FeedRight'
  <2>1. pg.view # "monitor" => feed' = [open |-> None, events |-> {}] BY TypesStep
  <2>2. feed'.open \in {None, s.feed.open, s.session.token} BY TypesStep
  <2>3. feed'.events \subseteq s.feed.events BY TypesStep
  <2> QED BY <1>1, <2>1, <2>2, <2>3 DEF FeedRight
<1>8. MetersRight'
  <2>1. ASSUME "app" \notin crossed' PROVE Metered(session'.token, requests', content', wizard')
    BY <2>1, MeterStep
  <2> QED BY <1>1, <2>1 DEF MetersRight
<1> QED BY <1>2, <1>3, <1>4, <1>5, <1>6, <1>7, <1>8 DEF Current


LEMMA RemoveAtIs ==
  ASSUME NEW S, NEW q \in Seq(S), NEW i \in DOMAIN q
  PROVE  /\ RemoveAt(q, i) \in Seq(S) /\ Range(RemoveAt(q, i)) \subseteq Range(q)
         /\ \A x \in Range(q) : x # q[i] => x \in Range(RemoveAt(q, i))
<1> DEFINE a == SubSeq(q, 1, i - 1)
           b == SubSeq(q, i + 1, Len(q))
<1>1. Len(q) \in Nat /\ DOMAIN q = 1..Len(q) /\ i \in 1..Len(q) OBVIOUS
<1>2. /\ a \in Seq(S) /\ Len(a) = i - 1 /\ DOMAIN a = 1..(i - 1)
      /\ \A j \in 1..(i - 1) : a[j] = q[j]
  BY <1>1
<1>3. /\ b \in Seq(S) /\ Len(b) = Len(q) - i /\ DOMAIN b = 1..(Len(q) - i)
      /\ \A j \in 1..(Len(q) - i) : b[j] = q[i + j]
  BY <1>1
<1>4. RemoveAt(q, i) = a \o b BY DEF RemoveAt
<1> HIDE DEF a, b
<1>5. RemoveAt(q, i) \in Seq(S) /\ Range(RemoveAt(q, i)) = Range(a) \cup Range(b)
  BY <1>2, <1>3, <1>4, RangeConcat
<1>6. Range(a) \subseteq Range(q)
  <2>1. 1..(i - 1) \subseteq DOMAIN q BY <1>1
  <2> QED BY <1>2, <2>1 DEF Range
<1>7. Range(b) \subseteq Range(q)
  <2>1. \A j \in 1..(Len(q) - i) : i + j \in DOMAIN q BY <1>1
  <2> QED BY <1>3, <2>1 DEF Range
<1>8. ASSUME NEW x \in Range(q), x # q[i] PROVE x \in Range(a) \cup Range(b)
  <2>1. PICK j \in 1..Len(q) : x = q[j] BY <1>1, <1>8 DEF Range
  <2>2. CASE j < i
    <3>1. j \in 1..(i - 1) BY <1>1, <2>1, <2>2
    <3> QED BY <1>2, <2>1, <3>1 DEF Range
  <2>3. CASE j > i
    <3>1. j - i \in 1..(Len(q) - i) /\ i + (j - i) = j BY <1>1, <2>1, <2>3
    <3> QED BY <1>3, <2>1, <3>1 DEF Range
  <2>4. j # i BY <1>8, <2>1
  <2> QED BY <1>1, <2>1, <2>2, <2>3, <2>4
<1> QED BY <1>5, <1>6, <1>7, <1>8

LEMMA NowIs ==
  /\ Now.session = session /\ Now.requests = requests /\ Now.content = content
  /\ Now.waits = loading /\ Now.wizard = wizard /\ Now.feed = feed
  /\ CurrentTypes => StateOk(Now)
BY DEF Now, CurrentTypes, StateOk

LEMMA MountStep ==
  ASSUME Current, session.at # "in", NEW w \in Spaces, NEW view \in Views,
         NEW trigger \in {None, "workspace-created", "member-joined"}, Mount(w, view, trigger),
         crossed' = crossed
  PROVE  Current' /\ page'.view = view /\ session' = [token |-> w, user |-> w, at |-> "in"]
<1> DEFINE pg == [page EXCEPT !.view = view]
           s == [Now EXCEPT !.session = [token |-> w, user |-> w, at |-> "in"], !.waits = TRUE,
                            !.wizard.trigger = trigger]
           v == [wizard EXCEPT !.trigger = trigger]
<1>1. EffectsOf(pg, {}, None, s)
  <2>1. Effects(pg, {}, None, s, TRUE) BY DEF Mount
  <2> HIDE DEF pg, s
  <2> QED BY <2>1, EffectsAre
<1>2. CurrentTypes /\ page.view = None BY DEF Current
<1>3. pg \in PageType /\ pg.view = view /\ view # None BY <1>2, ViewsNamed DEF CurrentTypes, PageType
<1>4. v \in WizardType /\ v.misled = wizard.misled BY <1>2 DEF CurrentTypes, WizardType
<1>5. /\ s.session = [token |-> w, user |-> w, at |-> "in"] /\ s.requests = requests
      /\ s.content = content /\ s.feed = feed /\ s.wizard = v
  BY DEF Now
<1>6. /\ s.session.token = w /\ s.session.user = w /\ s.session.at = "in"
      /\ s.session \in SessionType
  BY <1>5 DEF SessionType
<1>7. StateOk(s)
  <2> HIDE DEF s, v
  <2> QED BY <1>2, <1>4, <1>5, <1>6 DEF StateOk, CurrentTypes
<1>8. \A k \in Loads : ~Enabled(k, page) /\ requests[k] = <<>> /\ content[k] = Nothing
  BY <1>2, ViewsNamed DEF Current, Quiet, Enabled
<1>9. PageLoads \subseteq Loads /\ Hooks \subseteq Loads /\ "metrics" \in Loads BY DEF PageLoads, Loads, Hooks
<1>10. feed = [open |-> None, events |-> {}]
  BY <1>2 DEF Current, FeedRight, None
<1> HIDE DEF s, pg, v
<1>11. \A k \in PageLoads : PageLoad(k, w, pg, s.requests[k], s.content[k])
  BY <1>5, <1>8, <1>9, RangeEmpty DEF PageLoad
<1>12. \A k \in Hooks : Enabled(k, pg) => Moved(k, pg) BY <1>8, <1>9 DEF Moved
<1>13. "app" \notin crossed' => Metered(w, s.requests, s.content, s.wizard)
  BY <1>4, <1>5, <1>8, <1>9, RangeEmpty DEF Current, MetersRight, Metered
<1>14. Current'
  <2>1. (s.session.at = "in") <=> (pg.view # None) BY <1>3, <1>6
  <2>2. \A k \in PageLoads : ~Enabled(k, page) => s.requests[k] = <<>> /\ s.content[k] = Nothing
    BY <1>5, <1>8, <1>9
  <2>3. \A k \in PageLoads : PageLoad(k, s.session.token, pg, s.requests[k], s.content[k])
    BY <1>6, <1>11
  <2>4. s.feed.open = None /\ s.feed.events = {} BY <1>5, <1>10
  <2>5. "app" \notin crossed' => Metered(s.session.token, s.requests, s.content, s.wizard) BY <1>6, <1>13
  <2>6. s.session.user \in {None, s.session.token} BY <1>6
  <2> QED BY <1>1, <1>3, <1>7, <1>12, <2>1, <2>2, <2>3, <2>4, <2>5, <2>6, CurrentStep
<1> QED BY <1>1, <1>3, <1>5, <1>14 DEF EffectsOf

LEMMA LeaveStep ==
  ASSUME Current, NEW rest \in [Loads -> Seq(Request)], Leave(rest),
         \A k \in PageLoads : ~Enabled(k, page) => rest[k] = <<>>
  PROVE  Current' /\ page'.view = None /\ session' = SignedOut
<1> DEFINE pg == [page EXCEPT !.view = None]
           s == [Now EXCEPT !.session = SignedOut, !.requests = rest, !.waits = TRUE, !.wizard.trigger = None]
           v == [wizard EXCEPT !.trigger = None]
<1>0. Effects(pg, {}, None, s, TRUE) /\ crossed' = {} BY DEF Leave
<1>1. EffectsOf(pg, {}, None, s)
  <2> HIDE DEF pg, s
  <2> QED BY <1>0, EffectsAre
<1>2. CurrentTypes BY DEF Current
<1>3. pg \in PageType /\ pg.view = None BY <1>2 DEF CurrentTypes, PageType
<1>4. v \in WizardType BY <1>2 DEF CurrentTypes, WizardType
<1>5. /\ s.session = SignedOut /\ s.requests = rest
      /\ s.content = content /\ s.feed = feed /\ s.wizard = v
  BY DEF Now
<1>6. /\ s.session.token = None /\ s.session.user = None /\ s.session.at = "out"
      /\ s.session \in SessionType
  BY <1>5 DEF SessionType, SignedOut, Spaces
<1>7. StateOk(s)
  <2> HIDE DEF s, v
  <2> QED BY <1>2, <1>4, <1>5, <1>6 DEF StateOk, CurrentTypes
<1>8. wizard' = WizardOf(None, v, s.waits, content'.metrics)
  <2>1. wizard' = WizardOf(s.session.user, s.wizard, s.waits, content'.metrics)
    <3> HIDE DEF s, pg
    <3> QED BY <1>0 DEF Effects
  <2> HIDE DEF s, v
  <2> QED BY <1>5, <1>6, <2>1
<1>9. ~wizard'.misled
  <2> HIDE DEF v
  <2>1. wizard' = [v EXCEPT !.shows = None, !.misled = FALSE] BY <1>8 DEF WizardOf
  <2> QED BY <1>4, <2>1 DEF WizardType
<1> HIDE DEF s, pg, v
<1>10. \A k \in Loads : ~Enabled(k, pg) BY <1>3, ViewsNamed DEF Enabled
<1>11. PageLoads \subseteq Loads /\ Hooks \subseteq Loads /\ "metrics" \in Loads BY DEF PageLoads, Loads, Hooks
<1>12. \A k \in PageLoads : ~Enabled(k, page) => s.requests[k] = <<>> /\ s.content[k] = Nothing
  BY <1>5 DEF Current, Quiet
<1>13. Quiet(pg, requests', content') BY <1>1, <1>3, <1>7, <1>12, QuietStep
<1>14. Metered(session'.token, requests', content', wizard')
  BY <1>3, <1>9, <1>11, <1>13, RangeEmpty DEF Quiet, Metered
<1>15. pg.view # "monitor" BY <1>3 DEF None
<1>16. Current'
  BY <1>1, <1>3, <1>5, <1>6, <1>7, <1>10, <1>11, <1>12, <1>14, <1>15, CurrentStep
<1> QED BY <1>1, <1>3, <1>5, <1>16 DEF EffectsOf


LEMMA NavigateStep ==
  ASSUME Current, NEW pg \in [view : Views, query : Queries, run : Runs], Navigate(pg)
  PROVE  Current' /\ page' = pg /\ session' = session
<1>1. EffectsOf(pg, {}, None, Now)
  <2>1. Effects(pg, {}, None, Now, FALSE) BY DEF Navigate
  <2> QED BY <2>1, EffectsAre
<1>2. pg \in PageType /\ pg.view # None BY ViewsNamed DEF PageType
<1>3. CurrentTypes /\ StateOk(Now) BY NowIs DEF Current
<1>4. session.at = "in" BY DEF Navigate
<1>5. PageLoads \subseteq Loads /\ Hooks \subseteq Loads /\ PageLoads \cap {"feed", "app"} = {}
  BY DEF PageLoads, Loads, Hooks
<1>6. ASSUME NEW k \in PageLoads, k \notin crossed', ~Moved(k, pg)
      PROVE  PageLoad(k, session.token, pg, requests[k], content[k])
  <2>1. k \notin crossed BY <1>5, <1>6 DEF Navigate
  <2>2. PageLoad(k, session.token, page, requests[k], content[k]) BY <2>1 DEF Current, PagesRight
  <2>3. CASE Enabled(k, pg)
    <3>1. KeyOf(k, pg) = KeyOf(k, page) BY <1>6, <2>3 DEF Moved
    <3> QED BY <2>2, <3>1 DEF PageLoad, RightFor
  <2>4. CASE ~Enabled(k, pg)
    <3>1. ~Enabled(k, page) BY <1>6, <2>4 DEF Moved
    <3> QED BY <3>1, RangeEmpty DEF Current, Quiet, PageLoad
  <2> QED BY <2>3, <2>4
<1>7. ASSUME session.user = session.token, NEW k \in Hooks, Enabled(k, pg), ~Moved(k, pg)
      PROVE  HookLoad(k, session.token, pg, late', requests[k], content[k])
  <2>1. Enabled(k, page) /\ KeyOf(k, pg) = KeyOf(k, page) BY <1>7 DEF Moved
  <2>2. k \in late => k \in late' BY <1>5, <1>7 DEF Navigate
  <2>3. HookLoad(k, session.token, page, late, requests[k], content[k])
    BY <1>7, <2>1 DEF Current, HooksRight
  <2> QED BY <2>1, <2>2, <2>3 DEF HookLoad, RightFor
<1>8. "feed" \notin crossed' =>
         pg.view # "monitor" \/ (feed.open \in {None, session.token} /\ feed.events \subseteq {session.token})
  <2>1. "feed" \notin Loads BY DEF Loads, Hooks
  <2>2. "feed" \notin crossed' /\ pg.view = "monitor" => "feed" \notin crossed BY <2>1 DEF Navigate
  <2> QED BY <2>2 DEF Current, FeedRight
<1>9. "app" \notin crossed' => session.user \in {None, session.token} /\ Metered(session.token, requests, content, wizard)
  <2>1. "app" \notin Loads BY DEF Loads, Hooks
  <2>2. "app" \notin crossed' => "app" \notin crossed BY <2>1 DEF Navigate
  <2> QED BY <2>2 DEF Current, MetersRight
<1>10. \A k \in PageLoads : ~Enabled(k, page) => requests[k] = <<>> /\ content[k] = Nothing
  BY DEF Current, Quiet
<1>11. /\ Now.session = session /\ Now.requests = requests /\ Now.content = content
       /\ Now.wizard = wizard /\ Now.feed = feed
  BY NowIs
<1>12. Current'
  BY <1>1, <1>2, <1>3, <1>4, <1>6, <1>7, <1>8, <1>9, <1>10, <1>11, CurrentStep
<1> QED BY <1>1, <1>11, <1>12 DEF EffectsOf

(* An event that leaves the loads to its effects.                          *)
LEMMA KeepStep ==
  ASSUME Current, NEW calls, NEW then \in {None, "everything"}, NEW s, StateOk(s),
         EffectsOf(page, calls, then, s), crossed' = crossed, late' = late,
         s.session = session, s.requests = requests, s.content = content,
         s.wizard.misled = wizard.misled, s.feed.open = feed.open,
         s.feed.events \subseteq feed.events \cup {feed.open}, feed.open = None => s.feed.events = feed.events
  PROVE  Current'
<1>1. page \in PageType /\ ((session.at = "in") <=> (page.view # None)) BY DEF Current, CurrentTypes
<1>2. \A k \in PageLoads : ~Enabled(k, page) => requests[k] = <<>> /\ content[k] = Nothing
  BY DEF Current, Quiet
<1>3. \A k \in PageLoads : k \notin crossed => PageLoad(k, session.token, page, requests[k], content[k])
  BY DEF Current, PagesRight
<1>4. session.user = session.token =>
        \A k \in Hooks : Enabled(k, page) => HookLoad(k, session.token, page, late, requests[k], content[k])
  BY DEF Current, HooksRight
<1>5. "feed" \notin crossed =>
        s.feed.open \in {None, session.token} /\ s.feed.events \subseteq {session.token}
  BY DEF Current, FeedRight
<1>6. "app" \notin crossed =>
        session.user \in {None, session.token} /\ Metered(session.token, s.requests, s.content, s.wizard)
  BY DEF Current, MetersRight, Metered
<1> QED BY <1>1, <1>2, <1>3, <1>4, <1>5, <1>6, CurrentStep

LEMMA RefreshStep ==
  ASSUME Current, NEW tested \in BOOLEAN, Refresh(tested)
  PROVE  Current' /\ page' = page /\ session' = session
<1> DEFINE v == [wizard EXCEPT !.done = @ \cup {session.user}, !.trigger = None]
           s == [Now EXCEPT !.wizard.done = @ \cup {session.user}, !.wizard.trigger = None]
<1>1. CurrentTypes BY DEF Current
<1>2. v \in WizardType /\ v.misled = wizard.misled BY <1>1 DEF CurrentTypes, WizardType, SessionType
<1>3. /\ s.session = session /\ s.requests = requests /\ s.content = content /\ s.feed = feed
      /\ s.wizard = v
  BY DEF Now
<1>4. StateOk(s)
  <2> HIDE DEF s, v
  <2> QED BY <1>1, <1>2, <1>3 DEF StateOk, CurrentTypes
<1>5. crossed' = crossed /\ late' = late BY DEF Refresh
<1>6. CASE tested
  <2>1. Effects(page, {"metrics"}, "everything", s, tested) BY <1>6 DEF Refresh
  <2> HIDE DEF s, v
  <2>2. EffectsOf(page, {"metrics"}, "everything", s) BY <2>1, EffectsAre
  <2>3. Current' BY <1>2, <1>3, <1>4, <1>5, <2>2, KeepStep
  <2> QED BY <1>3, <2>2, <2>3 DEF EffectsOf
<1>7. CASE ~tested
  <2>1. Effects(page, {"metrics"}, "everything", Now, tested) BY <1>7 DEF Refresh
  <2>2. EffectsOf(page, {"metrics"}, "everything", Now) BY <2>1, EffectsAre
  <2>3. Current' BY <1>1, <1>5, <2>2, NowIs, KeepStep
  <2> QED BY <2>2, <2>3, NowIs DEF EffectsOf
<1> QED BY <1>6, <1>7

LEMMA SettingsStep ==
  ASSUME Current, ChangeSettings
  PROVE  Current' /\ page' = page /\ session' = session
<1>1. Effects(page, {"settings"}, None, Now, FALSE) BY DEF ChangeSettings
<1>2. EffectsOf(page, {"settings"}, None, Now) BY <1>1, EffectsAre
<1>3. CurrentTypes /\ crossed' = crossed /\ late' = late BY DEF Current, ChangeSettings
<1>4. Current' BY <1>2, <1>3, NowIs, KeepStep
<1> QED BY <1>2, <1>4, NowIs DEF EffectsOf

LEMMA FeedEventStep ==
  ASSUME Current, NEW hop \in BOOLEAN, FeedEvent(hop)
  PROVE  Current' /\ page' = page /\ session' = session
<1> DEFINE calls == IF hop THEN {"metrics"} ELSE {}
           f == [feed EXCEPT !.events = @ \cup {feed.open}]
           s == [Now EXCEPT !.feed.events = @ \cup {feed.open}]
<1>1. CurrentTypes BY DEF Current
<1>2. f \in FeedType /\ f.open = feed.open /\ f.events = feed.events \cup {feed.open}
  BY <1>1 DEF CurrentTypes, FeedType
<1>3. /\ s.session = session /\ s.requests = requests /\ s.content = content /\ s.wizard = wizard
      /\ s.feed = f
  BY DEF Now
<1>4. Effects(page, calls, None, s, FALSE) BY DEF FeedEvent
<1>5. crossed' = crossed /\ late' = late /\ feed.open # None BY DEF FeedEvent
<1> HIDE DEF calls, s, f
<1>6. StateOk(s) BY <1>1, <1>2, <1>3 DEF StateOk, CurrentTypes
<1>7. EffectsOf(page, calls, None, s) BY <1>4, EffectsAre
<1>8. Current' BY <1>2, <1>3, <1>5, <1>6, <1>7, KeepStep
<1> QED BY <1>3, <1>7, <1>8 DEF EffectsOf


LEMMA TakeUserStep ==
  ASSUME Current, Switches, TakeUser
  PROVE  Current' /\ page' = page /\ session' = [session EXCEPT !.user = switching.to]
<1> DEFINE u == [session EXCEPT !.user = switching.to]
           s == [Now EXCEPT !.session.user = switching.to]
<1>1. CurrentTypes /\ switching.to = session.token BY DEF Current, Switches, TakeUser
<1>2. /\ u \in SessionType /\ u.token = session.token /\ u.user = session.token
      /\ u.at = session.at
  BY <1>1 DEF CurrentTypes, SessionType
<1>3. /\ s.session = u /\ s.requests = requests /\ s.content = content /\ s.feed = feed
      /\ s.wizard = wizard
  BY DEF Now
<1>4. Effects(page, Hooks, None, s, TRUE) BY DEF TakeUser, Reloaded
<1>5. crossed' = crossed /\ late' = late BY DEF TakeUser
<1> HIDE DEF s, u
<1>6. StateOk(s) BY <1>1, <1>2, <1>3 DEF StateOk, CurrentTypes
<1>7. EffectsOf(page, Hooks, None, s) BY <1>4, EffectsAre
<1>8. Current'
  <2>1. page \in PageType /\ ((session.at = "in") <=> (page.view # None)) BY <1>1 DEF Current, CurrentTypes
  <2>2. \A k \in PageLoads : ~Enabled(k, page) => requests[k] = <<>> /\ content[k] = Nothing
    BY DEF Current, Quiet
  <2>3. \A k \in PageLoads : k \notin crossed => PageLoad(k, session.token, page, requests[k], content[k])
    BY DEF Current, PagesRight
  <2>4. "feed" \notin crossed => feed.open \in {None, session.token} /\ feed.events \subseteq {session.token}
    BY DEF Current, FeedRight
  <2>5. "app" \notin crossed => Metered(session.token, requests, content, wizard)
    BY DEF Current, MetersRight
  <2> QED BY <1>2, <1>3, <1>5, <1>6, <1>7, <2>1, <2>2, <2>3, <2>4, <2>5, CurrentStep
<1> QED BY <1>3, <1>7, <1>8 DEF EffectsOf, u

LEMMA ShowStep ==
  ASSUME Current, NEW k \in Loads, NEW i \in DOMAIN requests[k],
         NEW c \in {Nothing, [ws |-> requests[k][i].ws, key |-> requests[k][i].key, with |-> requests[k][i].with]},
         Show(k, i, c)
  PROVE  Current' /\ page' = page /\ session' = session
<1> DEFINE r == requests[k][i]
           rest == RemoveAt(requests[k], i)
           d == IF c = Nothing /\ k = "settings" THEN content[k] ELSE c
           calls == IF r.then = "everything" THEN Hooks ELSE {}
           s == [Now EXCEPT !.requests[k] = RemoveAt(@, i),
                            !.content[k] = IF c = Nothing /\ k = "settings" THEN @ ELSE c,
                            !.waits = @ /\ k # "metrics"]
<1>1. CurrentTypes BY DEF Current
<1>2. /\ requests \in [Loads -> Seq(Request)] /\ content \in [Loads -> LoadedType]
      /\ requests[k] \in Seq(Request)
  BY <1>1 DEF CurrentTypes
<1>3. r \in Request /\ r \in Range(requests[k]) /\ requests[k] # <<>> BY <1>2 DEF Range
<1>4. /\ rest \in Seq(Request) /\ Range(rest) \subseteq Range(requests[k])
      /\ \A x \in Range(requests[k]) : x # r => x \in Range(rest)
  BY <1>2, RemoveAtIs
<1>5. c \in LoadedType
  <2>1. Nothing \in LoadedType BY DEF Nothing, LoadedType, Spaces, Keys
  <2>2. [ws |-> r.ws, key |-> r.key, with |-> r.with] \in LoadedType BY <1>3 DEF Request, LoadedType
  <2> QED BY <2>1, <2>2
<1>6. d \in LoadedType BY <1>2, <1>5
<1>7. /\ s.session = session /\ s.feed = feed /\ s.wizard = wizard
      /\ s.requests = [requests EXCEPT ![k] = rest] /\ s.content = [content EXCEPT ![k] = d]
  BY DEF Now
<1>8. Effects(page, calls, None, s, k = "metrics") BY DEF Show
<1>9. crossed' = crossed /\ late' = IF r.newest THEN late \ {k} ELSE late \cup {k} BY DEF Show
<1>10. \A token, pg : RightFor(token, pg, k, r) => c = Nothing \/ RightFor(token, pg, k, c)
  BY DEF RightFor
<1>11. c = Nothing \/ c.ws = r.ws OBVIOUS
<1> HIDE DEF r, rest, calls, s
<1>12. EffectsOf(page, calls, None, s) BY <1>8, EffectsAre
<1>13. /\ s.requests \in [Loads -> Seq(Request)] /\ s.content \in [Loads -> LoadedType]
       /\ s.requests[k] = rest /\ s.content[k] = d
       /\ \A j \in Loads \ {k} : s.requests[j] = requests[j] /\ s.content[j] = content[j]
  <2> HIDE DEF d
  <2> QED BY <1>2, <1>4, <1>6, <1>7
<1>14. StateOk(s) BY <1>1, <1>7, <1>13 DEF StateOk, CurrentTypes
<1>15. PageLoads \subseteq Loads /\ Hooks \subseteq Loads /\ PageLoads \cap Hooks = {} /\ "metrics" \in Loads
  BY DEF PageLoads, Loads, Hooks
<1>16. page \in PageType /\ ((session.at = "in") <=> (page.view # None)) BY <1>1 DEF Current, CurrentTypes
<1>17. ASSUME NEW j \in PageLoads, ~Enabled(j, page) PROVE s.requests[j] = <<>> /\ s.content[j] = Nothing
  <2>1. requests[j] = <<>> /\ content[j] = Nothing BY <1>17 DEF Current, Quiet
  <2> QED BY <1>3, <1>13, <1>15, <2>1
<1>18. ASSUME NEW j \in PageLoads, j \notin crossed
       PROVE  PageLoad(j, session.token, page, s.requests[j], s.content[j])
  <2>1. PageLoad(j, session.token, page, requests[j], content[j]) BY <1>18 DEF Current, PagesRight
  <2>2. CASE j # k BY <1>13, <1>15, <2>1, <2>2
  <2>3. CASE j = k
    <3>1. RightFor(session.token, page, k, r) BY <1>3, <2>1, <2>3 DEF PageLoad
    <3>2. d = Nothing \/ RightFor(session.token, page, k, d) BY <1>10, <2>1, <2>3, <3>1 DEF PageLoad
    <3>3. \A x \in Range(rest) : RightFor(session.token, page, k, x) BY <1>4, <2>1, <2>3 DEF PageLoad
    <3> QED BY <1>13, <2>3, <3>2, <3>3 DEF PageLoad
  <2> QED BY <2>2, <2>3
<1>19. ASSUME session.user = session.token, NEW j \in Hooks, Enabled(j, page)
       PROVE  HookLoad(j, session.token, page, late', s.requests[j], s.content[j])
  <2>1. HookLoad(j, session.token, page, late, requests[j], content[j]) BY <1>19 DEF Current, HooksRight
  <2>2. CASE j # k
    <3>1. j \in late => j \in late' BY <1>9, <2>2
    <3> QED BY <1>13, <1>15, <2>1, <2>2, <3>1 DEF HookLoad
  <2>3. CASE j = k
    <3>1. \A x \in Range(rest) : x.newest => RightFor(session.token, page, k, x) BY <1>4, <2>1, <2>3 DEF HookLoad
    <3>2. d = c BY <2>3 DEF Hooks
    <3>3. CASE r.newest
      <4>1. RightFor(session.token, page, k, r) BY <1>3, <2>1, <2>3, <3>3 DEF HookLoad
      <4>2. d = Nothing \/ RightFor(session.token, page, k, d) BY <1>10, <3>2, <4>1
      <4> QED BY <1>13, <2>3, <3>1, <4>2 DEF HookLoad
    <3>4. CASE ~r.newest
      <4>1. k \in late' BY <1>9, <3>4
      <4> QED BY <1>13, <2>3, <3>1, <4>1 DEF HookLoad
    <3> QED BY <3>3, <3>4
  <2> QED BY <2>2, <2>3
<1>20. "feed" \notin crossed => feed.open \in {None, session.token} /\ feed.events \subseteq {session.token}
  BY DEF Current, FeedRight
<1>21. ASSUME "app" \notin crossed
       PROVE  session.user \in {None, session.token} /\ Metered(session.token, s.requests, s.content, s.wizard)
  <2>1. session.user \in {None, session.token} /\ Metered(session.token, requests, content, wizard)
    BY <1>21 DEF Current, MetersRight
  <2>2. CASE k # "metrics" BY <1>7, <1>13, <1>15, <2>1, <2>2 DEF Metered
  <2>3. CASE k = "metrics"
    <3>1. r.ws = session.token BY <1>3, <2>1, <2>3 DEF Metered
    <3>2. d = c BY <2>3
    <3>3. s.requests.metrics = rest /\ s.content.metrics = c BY <1>13, <2>3, <3>2
    <3> QED BY <1>4, <1>7, <1>11, <2>1, <2>3, <3>1, <3>3 DEF Metered
  <2> QED BY <2>2, <2>3
<1>22. Current'
  BY <1>7, <1>9, <1>12, <1>14, <1>16, <1>17, <1>18, <1>19, <1>20, <1>21, CurrentStep
<1> QED BY <1>7, <1>12, <1>22 DEF EffectsOf


LEMMA AskStep ==
  ASSUME Current, NEW i \in DOMAIN requests.detail, AskForRest(i)
  PROVE  Current'
<1> DEFINE list == requests["detail"]
           next == [list EXCEPT ![i].with = session.token]
<1>1. /\ session' = session /\ page' = page /\ content' = content /\ feed' = feed /\ wizard' = wizard
      /\ late' = late /\ crossed' = crossed
      /\ requests' = [requests EXCEPT !["detail"] = next]
  BY DEF AskForRest
<1>2. CurrentTypes /\ "detail" \in Loads /\ "detail" \in PageLoads BY DEF Current, Loads, PageLoads
<1>3. requests \in [Loads -> Seq(Request)] /\ list \in Seq(Request) /\ session.token \in Spaces
  BY <1>2 DEF CurrentTypes, SessionType
<1>4. list[i] \in Request /\ i \in 1..Len(list) /\ Len(list) \in Nat /\ DOMAIN list = 1..Len(list)
  BY <1>3
<1>5. [list[i] EXCEPT !.with = session.token] \in Request BY <1>3, <1>4 DEF Request
<1>6. next = [j \in 1..Len(list) |-> IF j = i THEN [list[i] EXCEPT !.with = session.token] ELSE list[j]]
  BY <1>4
<1> HIDE DEF next
<1>7. next \in Seq(Request) /\ next # <<>> /\ Len(next) = Len(list) BY <1>3, <1>4, <1>5, <1>6
<1>8. ASSUME NEW x \in Range(next)
      PROVE  x \in Range(list) \/ x = [list[i] EXCEPT !.with = session.token]
  <2>1. PICK j \in 1..Len(list) : x = next[j] BY <1>6, <1>8 DEF Range
  <2> QED BY <1>4, <1>6, <2>1 DEF Range
<1> HIDE DEF list
<1>9. /\ requests' \in [Loads -> Seq(Request)] /\ requests'["detail"] = next
      /\ \A k \in Loads \ {"detail"} : requests'[k] = requests[k]
  BY <1>1, <1>2, <1>3, <1>7
<1>10. Enabled("detail", page)
  <2>1. requests["detail"] # <<>> BY <1>4, <1>7 DEF list
  <2> QED BY <1>2, <2>1 DEF Current, Quiet
<1>11. CurrentTypes' BY <1>1, <1>2, <1>9 DEF CurrentTypes
<1>12. ((session.at = "in") <=> (page.view # None))' BY <1>1 DEF Current
<1>13. Quiet(page, requests, content)'
  <2>1. page.view # None BY <1>2, <1>10, ViewsNamed DEF Enabled
  <2>2. \A k \in PageLoads : ~Enabled(k, page) => requests'[k] = <<>> /\ content[k] = Nothing
    BY <1>9, <1>10 DEF Current, Quiet, PageLoads, Loads
  <2> QED BY <1>1, <2>1, <2>2 DEF Quiet
<1>14. PagesRight'
  <2>1. ASSUME NEW k \in PageLoads, k \notin crossed
        PROVE  PageLoad(k, session.token, page, requests'[k], content[k])
    <3>1. PageLoad(k, session.token, page, requests[k], content[k]) BY <2>1 DEF Current, PagesRight
    <3>2. CASE k # "detail"
      <4>1. requests'[k] = requests[k] BY <1>9, <3>2 DEF PageLoads, Loads
      <4> QED BY <3>1, <4>1
    <3>3. CASE k = "detail"
      <4>1. RightFor(session.token, page, k, list[i]) BY <1>4, <3>1, <3>3 DEF PageLoad, Range, list
      <4>2. RightFor(session.token, page, k, [list[i] EXCEPT !.with = session.token])
        BY <1>4, <4>1 DEF RightFor, Request
      <4>3. \A x \in Range(list) : RightFor(session.token, page, k, x) BY <3>1, <3>3 DEF PageLoad, list
      <4>4. \A x \in Range(next) : RightFor(session.token, page, k, x) BY <1>8, <4>2, <4>3
      <4> QED BY <1>7, <1>9, <3>3, <4>4 DEF PageLoad
    <3> QED BY <3>2, <3>3
  <2> QED BY <1>1, <2>1 DEF PagesRight
<1>15. HooksRight'
  <2>1. \A k \in Hooks : requests'[k] = requests[k] BY <1>9 DEF Hooks, Loads
  <2> QED BY <1>1, <2>1 DEF HooksRight, Enabled, Current
<1>16. FeedRight' BY <1>1 DEF FeedRight, Current
<1>17. MetersRight'
  <2>1. requests'["metrics"] = requests["metrics"] BY <1>9 DEF Hooks, Loads
  <2> QED BY <1>1, <2>1 DEF MetersRight, Metered, Current
<1> QED BY <1>11, <1>12, <1>13, <1>14, <1>15, <1>16, <1>17 DEF Current

LEMMA TokenStep ==
  ASSUME Current, Switches, TakeToken
  PROVE  Current' /\ Switches' /\ page' = page
<1>1. /\ session' = [session EXCEPT !.token = switching.to] /\ switching' = [switching EXCEPT !.at = "me"]
      /\ page' = page /\ requests' = requests /\ content' = content /\ feed' = feed /\ wizard' = wizard
      /\ late' = late
      /\ crossed' = crossed \cup {"app"} \cup ({page.view} \cap {"detail", "settings"})
                       \cup IF page.view = "monitor" THEN {"feed"} ELSE {}
  BY DEF TakeToken
<1>2. CurrentTypes /\ switching \in SwitchType /\ switching.to # session.user /\ session.at = "in"
  BY DEF Current, Switches, TakeToken, Idle, None
<1>3. /\ session' \in SessionType /\ session'.token = switching.to /\ session'.user = session.user
      /\ session'.at = session.at
  BY <1>1, <1>2 DEF CurrentTypes, SessionType, SwitchType
<1>4. /\ switching' \in SwitchType /\ switching'.to = switching.to /\ switching'.at = "me"
  BY <1>1, <1>2 DEF SwitchType
<1>5. Switches' BY <1>2, <1>3, <1>4 DEF Switches
<1>6. CurrentTypes' BY <1>1, <1>2, <1>3 DEF CurrentTypes
<1>7. ((session.at = "in") <=> (page.view # None))' BY <1>1, <1>3 DEF Current
<1>8. Quiet(page, requests, content)' BY <1>1 DEF Current
<1>9. PagesRight'
  <2>1. ASSUME NEW k \in PageLoads, k \notin crossed'
        PROVE  PageLoad(k, session'.token, page, requests[k], content[k])
    <3>1. page.view # k BY <1>1, <2>1 DEF PageLoads
    <3>2. ~Enabled(k, page) BY <2>1, <3>1 DEF PageLoads, Enabled, EnabledIn
    <3>3. requests[k] = <<>> /\ content[k] = Nothing BY <2>1, <3>2 DEF Current, Quiet
    <3> QED BY <3>3, RangeEmpty DEF PageLoad
  <2> QED BY <1>1, <2>1 DEF PagesRight
<1>10. HooksRight' BY <1>2, <1>3 DEF HooksRight
<1>11. FeedRight' BY <1>1 DEF FeedRight, Current
<1>12. MetersRight' BY <1>1 DEF MetersRight
<1> QED BY <1>1, <1>5, <1>6, <1>7, <1>8, <1>9, <1>10, <1>11, <1>12 DEF Current

(* The rest of what is current, when an event changes nothing of it.       *)
LEMMA SameStep ==
  ASSUME Current, session' = session, page' = page, requests' = requests, content' = content,
         feed' = feed, wizard' \in WizardType, wizard.misled = wizard'.misled \/ ~wizard'.misled,
         late' = late, crossed' = crossed
  PROVE  Current'
<1>1. CurrentTypes' BY DEF CurrentTypes, Current
<1>2. Quiet(page, requests, content)' BY DEF Current
<1>3. PagesRight' BY DEF PagesRight, Current
<1>4. HooksRight' BY DEF HooksRight, Enabled, Current
<1>5. FeedRight' BY DEF FeedRight, Current
<1>6. MetersRight' BY DEF MetersRight, Metered, Current
<1> QED BY <1>1, <1>2, <1>3, <1>4, <1>5, <1>6 DEF Current


LEMMA SwitchFrame ==
  ASSUME Switches, session' = session, switching' = switching PROVE Switches'
BY DEF Switches

LEMMA SavingFrame ==
  ASSUME Saving, page'.view = page.view, session'.token = session.token,
         form' = form, saved' = saved, crossed' = crossed
  PROVE  Saving'
BY DEF Saving, SavedAtHome

LEMMA MountKeeps ==
  ASSUME DashboardIInv, session.at # "in", NEW w \in Spaces, NEW view \in Views,
         NEW trigger \in {None, "workspace-created", "member-joined"}, Mount(w, view, trigger),
         UNCHANGED <<switching, form, late, crossed, saved>>
  PROVE  DashboardIInv'
<1>1. Current' /\ page'.view = view /\ session' = [token |-> w, user |-> w, at |-> "in"]
  BY MountStep DEF DashboardIInv
<1>2. switching = Idle /\ Idle \in SwitchType BY DEF DashboardIInv, Switches, Idle, SwitchType, Spaces
<1>3. Switches' BY <1>1, <1>2 DEF Switches, Idle, None
<1>4. page.view = None /\ form = None BY DEF DashboardIInv, Current, Saving, None
<1>5. Saving' BY <1>4 DEF DashboardIInv, Saving, SavedAtHome
<1> QED BY <1>1, <1>3, <1>5 DEF DashboardIInv

LEMMA LeaveKeeps ==
  ASSUME DashboardIInv, NEW rest \in [Loads -> Seq(Request)], Leave(rest),
         \A k \in PageLoads : ~Enabled(k, page) => rest[k] = <<>>
  PROVE  DashboardIInv'
<1>1. Current' /\ page'.view = None /\ session' = SignedOut BY LeaveStep DEF DashboardIInv
<1>2. switching' = Idle /\ form' = None /\ saved' = saved BY DEF Leave
<1>3. Idle \in SwitchType BY DEF Idle, SwitchType, Spaces
<1>4. Switches' BY <1>1, <1>2, <1>3 DEF Switches, Idle, None
<1>5. Saving' BY <1>2 DEF DashboardIInv, Saving, SavedAtHome, Spaces
<1> QED BY <1>1, <1>4, <1>5 DEF DashboardIInv

LEMMA AnswerKeeps ==
  ASSUME DashboardIInv, NEW k \in Loads, Answer(k)
  PROVE  DashboardIInv'
<1> USE DEF DashboardIInv
<1>1. PICK i \in DOMAIN requests[k] :
        \/ k = "detail" /\ AskForRest(i)
        \/ \E c \in {Nothing, [ws |-> requests[k][i].ws, key |-> requests[k][i].key, with |-> requests[k][i].with]} :
              Show(k, i, c)
        \/ Leave([requests EXCEPT ![k] = RemoveAt(@, i)])
  BY DEF Answer
<1>2. requests \in [Loads -> Seq(Request)] /\ requests[k] \in Seq(Request) BY DEF Current, CurrentTypes
<1>3. requests[k][i] \in Range(requests[k]) /\ requests[k] # <<>> BY <1>2 DEF Range
<1>4. CASE k = "detail" /\ AskForRest(i)
  <2>1. Current' BY <1>4, AskStep
  <2>2. session' = session /\ switching' = switching /\ page' = page /\ UNCHANGED <<form, saved, crossed>>
    BY <1>4 DEF AskForRest
  <2> QED BY <2>1, <2>2, SwitchFrame, SavingFrame
<1>5. ASSUME NEW c \in {Nothing, [ws |-> requests[k][i].ws, key |-> requests[k][i].key, with |-> requests[k][i].with]},
             Show(k, i, c)
      PROVE  DashboardIInv'
  <2>1. Current' /\ page' = page /\ session' = session BY <1>5, ShowStep
  <2>2. UNCHANGED <<switching, crossed, saved>> /\ form' = IF k = "settings" /\ c.ws \in Configured THEN c.ws ELSE form
    BY <1>5 DEF Show
  <2>3. Switches' BY <2>1, <2>2, SwitchFrame
  <2>4. CASE k # "settings" BY <2>1, <2>2, <2>3, <2>4, SavingFrame
  <2>5. CASE k = "settings"
    <3>1. k \in PageLoads BY <2>5 DEF PageLoads
    <3>2. page.view = "settings" BY <1>3, <2>5, <3>1 DEF Current, Quiet, Enabled, EnabledIn
    <3>3. form' \in Spaces
      <4>1. Configured \subseteq Spaces BY DashboardAssumption DEF Spaces
      <4> QED BY <2>2, <4>1 DEF Saving
    <3>4. k \notin crossed => c.ws \in {None, session.token}
      <4>1. k \notin crossed => requests[k][i].ws = session.token
        BY <1>3, <3>1 DEF Current, PagesRight, PageLoad, RightFor
      <4>2. c.ws \in {None, requests[k][i].ws} BY DEF Nothing
      <4> QED BY <4>1, <4>2
    <3>5. "settings" \notin crossed' => form' \in {None, session'.token}
      BY <2>1, <2>2, <2>5, <3>4 DEF Saving
    <3>6. page'.view = "settings" /\ SavedAtHome' BY <2>1, <2>2, <3>2 DEF Saving, SavedAtHome
    <3>7. Saving' BY <3>3, <3>5, <3>6 DEF Saving
    <3> QED BY <2>1, <2>3, <3>7
  <2> QED BY <2>4, <2>5
<1>6. CASE Leave([requests EXCEPT ![k] = RemoveAt(@, i)])
  <2> DEFINE rest == [requests EXCEPT ![k] = RemoveAt(@, i)]
  <2>1. RemoveAt(requests[k], i) \in Seq(Request) BY <1>2, RemoveAtIs
  <2>2. rest \in [Loads -> Seq(Request)] BY <1>2, <2>1
  <2>3. \A j \in PageLoads : ~Enabled(j, page) => rest[j] = <<>>
    <3>1. \A j \in PageLoads : ~Enabled(j, page) => requests[j] = <<>> /\ j \in Loads
      BY DEF Current, Quiet, PageLoads, Loads
    <3> QED BY <1>2, <1>3, <3>1
  <2> HIDE DEF rest
  <2> QED BY <1>6, <2>2, <2>3, LeaveKeeps DEF rest
<1> QED BY <1>1, <1>4, <1>5, <1>6


LEMMA DashboardInitInv == DashboardInit => DashboardIInv
<1> SUFFICES ASSUME DashboardInit PROVE DashboardIInv OBVIOUS
<1> USE DEF DashboardInit
<1>1. session \in SessionType /\ session.user = None /\ session.at # "in"
  BY DEF SessionType, SignedOut, Spaces
<1>2. page \in PageType /\ page.view = None BY DEF PageType
<1>3. Nothing \in LoadedType /\ content \in [Loads -> LoadedType] /\ requests \in [Loads -> Seq(Request)]
  BY DEF Nothing, LoadedType, Spaces, Keys
<1>4. feed \in FeedType BY DEF FeedType, Spaces
<1>5. wizard \in WizardType /\ ~wizard.misled BY DEF WizardType, Spaces
<1>6. \A k \in Loads : requests[k] = <<>> /\ content[k] = Nothing OBVIOUS
<1>7. PageLoads \subseteq Loads /\ Hooks \subseteq Loads /\ "metrics" \in Loads BY DEF PageLoads, Loads, Hooks
<1>8. Quiet(page, requests, content) BY <1>6, <1>7 DEF Quiet
<1>9. PagesRight BY <1>6, <1>7, RangeEmpty DEF PagesRight, PageLoad
<1>10. HooksRight BY <1>2, <1>7, ViewsNamed DEF HooksRight, Enabled
<1>11. FeedRight BY DEF FeedRight
<1>12. MetersRight BY <1>1, <1>5, <1>6, <1>7, RangeEmpty DEF MetersRight, Metered
<1>13. Current
  BY <1>1, <1>2, <1>3, <1>4, <1>5, <1>8, <1>9, <1>10, <1>11, <1>12 DEF Current, CurrentTypes
<1>14. Switches BY DEF Switches, Idle, SwitchType, Spaces, None
<1>15. Saving BY DEF Saving, SavedAtHome, Spaces
<1> QED BY <1>13, <1>14, <1>15 DEF DashboardIInv

LEMMA DashboardStep == DashboardIInv /\ [DashboardNext]_dashboardVars => DashboardIInv'
<1> SUFFICES ASSUME DashboardIInv, [DashboardNext]_dashboardVars PROVE DashboardIInv' OBVIOUS
<1>0. Current /\ Switches /\ Saving /\ CurrentTypes BY DEF DashboardIInv, Current
<1>1. ASSUME NEW view \in Views, Boot(view) PROVE DashboardIInv'
  <2>1. session.token \in Spaces /\ session.at # "in" BY <1>0, <1>1 DEF CurrentTypes, SessionType, Boot
  <2>2. CASE Mount(session.token, view, None) BY <1>1, <2>1, <2>2, MountKeeps DEF Boot
  <2>3. CASE /\ session' = SignedOut
             /\ UNCHANGED <<page, requests, content, loading, ghost, feed, wizard>>
    <3>1. page.view = None /\ switching = Idle BY <1>0, <2>1 DEF Current, Switches
    <3>2. UNCHANGED <<switching, form, late, crossed, saved>> BY <1>1 DEF Boot
    <3>3. /\ session' \in SessionType /\ session'.at # "in" /\ session'.user = None
      BY <2>3 DEF SignedOut, SessionType, Spaces
    <3>4. \A k \in Loads : ~Enabled(k, page) /\ requests[k] = <<>> /\ content[k] = Nothing
      BY <1>0, <3>1, ViewsNamed DEF Current, Quiet, Enabled
    <3>5. PageLoads \subseteq Loads /\ Hooks \subseteq Loads /\ "metrics" \in Loads
      BY DEF PageLoads, Loads, Hooks
    <3>6. CurrentTypes' BY <1>0, <2>3, <3>3 DEF CurrentTypes
    <3>7. Quiet(page, requests, content)' BY <1>0, <2>3 DEF Current
    <3>8. PagesRight' BY <2>3, <3>4, <3>5, RangeEmpty DEF PagesRight, PageLoad
    <3>9. HooksRight' BY <2>3, <3>4, <3>5 DEF HooksRight, Enabled
    <3>10. FeedRight' BY <1>0, <2>3, <3>1 DEF Current, FeedRight, None
    <3>11. MetersRight' BY <1>0, <2>3, <3>2, <3>3, <3>4, <3>5, RangeEmpty DEF Current, MetersRight, Metered
    <3>12. Current' BY <2>3, <3>1, <3>3, <3>6, <3>7, <3>8, <3>9, <3>10, <3>11 DEF Current
    <3>13. Switches' BY <1>0, <3>1, <3>2, <3>3 DEF Switches, Idle, None
    <3>14. Saving' BY <1>0, <2>3, <3>1, <3>2 DEF Saving, SavedAtHome, None
    <3> QED BY <3>12, <3>13, <3>14 DEF DashboardIInv
  <2> QED BY <1>1, <2>2, <2>3 DEF Boot
<1>2. ASSUME NEW view \in Views, NEW w \in Workspaces,
             NEW trigger \in {None, "workspace-created", "member-joined"}, SignIn(w, trigger, view)
      PROVE  DashboardIInv'
  BY <1>2, MountKeeps DEF SignIn, Spaces
<1>3. /\ requests \in [Loads -> Seq(Request)]
      /\ \A k \in PageLoads : ~Enabled(k, page) => requests[k] = <<>>
  BY <1>0 DEF CurrentTypes, Current, Quiet
<1>4. Leave(requests) => DashboardIInv' BY <1>3, LeaveKeeps
<1>5. CASE SignOut BY <1>4, <1>5 DEF SignOut
<1>6. ASSUME NEW pg \in [view : Views, query : Queries, run : Runs], Navigate(pg) PROVE DashboardIInv'
  <2>1. Current' /\ page' = pg /\ session' = session BY <1>0, <1>6, NavigateStep
  <2>2. /\ UNCHANGED <<switching, saved>> /\ form' = FormOf(pg)
        /\ "settings" \notin crossed' => Moved("settings", pg) \/ "settings" \notin crossed
    BY <1>6 DEF Navigate, Loads
  <2>3. Switches' BY <1>0, <2>1, <2>2, SwitchFrame
  <2>4. Moved("settings", pg) => form' = None BY <2>2 DEF FormOf
  <2>5. ~Moved("settings", pg) => form' = form /\ (pg.view # "settings" => page.view # "settings")
    BY <2>2 DEF FormOf, Moved, Enabled, EnabledIn
  <2>6. Saving' BY <1>0, <2>1, <2>2, <2>4, <2>5 DEF Saving, SavedAtHome, Spaces
  <2> QED BY <2>1, <2>3, <2>6 DEF DashboardIInv
<1>7. ASSUME NEW b \in BOOLEAN, Refresh(b) PROVE DashboardIInv'
  <2>1. Current' /\ page' = page /\ session' = session BY <1>0, <1>7, RefreshStep
  <2>2. UNCHANGED <<switching, form, crossed, saved>> BY <1>7 DEF Refresh
  <2> QED BY <1>0, <2>1, <2>2, SwitchFrame, SavingFrame DEF DashboardIInv
<1>8. ASSUME NEW b \in BOOLEAN, UseWizard(b) PROVE DashboardIInv'
  <2>1. /\ UNCHANGED <<session, page, requests, content, feed, late, crossed, switching, form, saved>>
        /\ wizard' =
             IF wizard.shows = None THEN [wizard EXCEPT !.shows = "empty-workspace"]
             ELSE [wizard EXCEPT !.shows = None, !.misled = FALSE,
                      !.trigger = IF b THEN None ELSE @,
                      !.done = IF b THEN @ \cup {session.user} ELSE @]
    BY <1>8 DEF UseWizard
  <2>2. wizard \in WizardType /\ session.user \in Spaces BY <1>0 DEF CurrentTypes, SessionType
  <2>3. wizard' \in WizardType /\ (wizard'.misled = wizard.misled \/ ~wizard'.misled)
    <3>1. CASE wizard.shows = None BY <2>1, <2>2, <3>1 DEF WizardType
    <3>2. CASE wizard.shows # None /\ b
      <4>1. wizard' = [wizard EXCEPT !.shows = None, !.misled = FALSE, !.trigger = None,
                          !.done = @ \cup {session.user}]
        BY <2>1, <3>2
      <4> QED BY <2>2, <4>1 DEF WizardType
    <3>3. CASE wizard.shows # None /\ ~b
      <4>1. wizard' = [wizard EXCEPT !.shows = None, !.misled = FALSE, !.trigger = @, !.done = @]
        BY <2>1, <3>3
      <4> QED BY <2>2, <4>1 DEF WizardType
    <3> QED BY <3>1, <3>2, <3>3
  <2>4. Current' BY <1>0, <2>1, <2>3, SameStep
  <2> QED BY <1>0, <2>1, <2>4, SwitchFrame, SavingFrame DEF DashboardIInv
<1>9. ASSUME NEW b \in BOOLEAN, FeedEvent(b) PROVE DashboardIInv'
  <2>1. Current' /\ page' = page /\ session' = session BY <1>0, <1>9, FeedEventStep
  <2>2. UNCHANGED <<switching, form, crossed, saved>> BY <1>9 DEF FeedEvent
  <2> QED BY <1>0, <2>1, <2>2, SwitchFrame, SavingFrame DEF DashboardIInv
<1>10. CASE ChangeSettings
  <2>1. Current' /\ page' = page /\ session' = session BY <1>0, <1>10, SettingsStep
  <2>2. /\ UNCHANGED <<switching, form, crossed>>
        /\ \/ saved' = saved
           \/ form # None /\ saved' = [to |-> session.token, from |-> form, across |-> "settings" \in crossed]
    BY <1>10 DEF ChangeSettings
  <2>3. Switches' BY <1>0, <2>1, <2>2, SwitchFrame
  <2>4. SavedAtHome'
    <3>1. CASE saved' = saved BY <1>0, <3>1 DEF Saving, SavedAtHome
    <3>2. CASE /\ form # None
               /\ saved' = [to |-> session.token, from |-> form, across |-> "settings" \in crossed]
      <4>1. CASE "settings" \in crossed
        <5>1. ("settings" \in crossed) = TRUE BY <4>1
        <5>2. saved'.across = ("settings" \in crossed) BY <3>2, Zenon
        <5> QED BY <5>1, <5>2 DEF SavedAtHome
      <4>2. CASE "settings" \notin crossed
        <5>1. form = session.token BY <1>0, <3>2, <4>2 DEF Saving
        <5>2. saved'.to = session.token /\ saved'.from = form BY <3>2
        <5> QED BY <5>1, <5>2 DEF SavedAtHome
      <4> QED BY <4>1, <4>2
    <3> QED BY <2>2, <3>1, <3>2
  <2>5. Saving' BY <1>0, <2>1, <2>2, <2>4 DEF Saving
  <2> QED BY <2>1, <2>3, <2>5 DEF DashboardIInv
<1>11. ASSUME NEW k \in Loads, Answer(k) PROVE DashboardIInv' BY <1>11, AnswerKeeps
<1>12. CASE GhostAnswer
  <2>1. CASE UNCHANGED <<session, page, requests, content, loading, switching, feed, form, wizard,
                         late, crossed, saved>>
    <3>1. Current' BY <1>0, <2>1, SameStep DEF CurrentTypes
    <3> QED BY <1>0, <2>1, <3>1, SwitchFrame, SavingFrame DEF DashboardIInv
  <2> QED BY <1>4, <1>12, <2>1 DEF GhostAnswer
<1>13. ASSUME NEW w \in Workspaces, StartSwitch(w) PROVE DashboardIInv'
  <2>1. /\ UNCHANGED <<session, page, requests, content, feed, form, wizard, late, crossed, saved>>
        /\ session.at = "in" /\ w # session.user /\ switching' = [to |-> w, at |-> "switch"]
    BY <1>13 DEF StartSwitch
  <2>2. Current' BY <1>0, <2>1, SameStep DEF CurrentTypes
  <2>3. Switches' BY <2>1 DEF Switches, SwitchType, Spaces
  <2> QED BY <1>0, <2>1, <2>2, <2>3, SavingFrame DEF DashboardIInv
<1>14. CASE TakeToken
  <2>1. Current' /\ Switches' /\ page' = page BY <1>0, <1>14, TokenStep
  <2>2. /\ form' = form /\ saved' = saved
        /\ "settings" \notin crossed' => page.view # "settings"
    BY <1>14 DEF TakeToken
  <2>3. Saving' BY <1>0, <2>1, <2>2 DEF Saving, SavedAtHome
  <2> QED BY <2>1, <2>3 DEF DashboardIInv
<1>15. CASE TakeUser
  <2>1. Current' /\ page' = page /\ session' = [session EXCEPT !.user = switching.to]
    BY <1>0, <1>15, TakeUserStep
  <2>2. switching' = Idle /\ UNCHANGED <<form, crossed, saved>> BY <1>15 DEF TakeUser
  <2>3. session'.token = session.token BY <1>0, <2>1 DEF CurrentTypes, SessionType
  <2>4. Switches' BY <2>2 DEF Switches, Idle, SwitchType, Spaces, None
  <2> QED BY <1>0, <2>1, <2>2, <2>3, <2>4, SavingFrame DEF DashboardIInv
<1>16. CASE FailSwitch
  <2>1. CASE switching' = Idle /\ UNCHANGED <<session, page, requests, content, loading, ghost, feed, form,
                                              wizard, late, crossed, saved>>
    <3>1. Current' BY <1>0, <2>1, SameStep DEF CurrentTypes
    <3>2. Switches' BY <2>1 DEF Switches, Idle, SwitchType, Spaces, None
    <3> QED BY <1>0, <2>1, <3>1, <3>2, SavingFrame DEF DashboardIInv
  <2> QED BY <1>4, <1>16, <2>1 DEF FailSwitch
<1>17. CASE UNCHANGED dashboardVars
  <2>1. Current' BY <1>0, <1>17, SameStep DEF CurrentTypes, dashboardVars
  <2> QED BY <1>0, <1>17, <2>1, SwitchFrame, SavingFrame DEF DashboardIInv, dashboardVars
<1> QED
  BY <1>1, <1>2, <1>5, <1>6, <1>7, <1>8, <1>9, <1>10, <1>11, <1>12, <1>13, <1>14, <1>15, <1>16, <1>17
  DEF DashboardNext

LEMMA CurrentShown == DashboardIInv => ShownIsCurrent
<1> SUFFICES ASSUME DashboardIInv, session.user = session.token PROVE ShownIsCurrent
  BY DEF ShownIsCurrent
<1>1. Current BY DEF DashboardIInv
<1>2. ASSUME NEW k \in Loads, Settled(k), k \notin crossed \cup (late \ {"detail"})
      PROVE  \/ content[k] = Nothing
             \/ /\ content[k].ws = session.token /\ content[k].key = KeyOf(k, page)
                /\ content[k].with \in {None, session.token}
  <2>1. Enabled(k, page) /\ requests[k] = <<>> BY <1>2 DEF Settled
  <2>2. CASE k \in PageLoads
    BY <1>1, <1>2, <2>1, <2>2 DEF Current, PagesRight, PageLoad, RightFor
  <2>3. CASE k \in Hooks
    <3>1. k \notin late BY <1>2, <2>3 DEF Hooks
    <3> QED BY <1>1, <2>1, <2>3, <3>1, RangeEmpty DEF Current, HooksRight, HookLoad, RightFor
  <2> QED BY <2>2, <2>3 DEF Loads, PageLoads
<1>3. "feed" \notin crossed => feed.open \in {None, session.token} /\ feed.events \subseteq {session.token}
  BY <1>1 DEF Current, FeedRight
<1>4. wizard.misled => "app" \in crossed BY <1>1 DEF Current, MetersRight, Metered
<1> QED BY <1>2, <1>3, <1>4 DEF ShownIsCurrent

-----------------------------------------------------------------------------
(* With nothing under way, a page shows what its query, its run and the    *)
(* user's workspace say, but for an answer of a hook that came after a     *)
(* newer one, and for what was open when the token changed: useRuns.ts,    *)
(* useLiveFeed.ts, SettingsView and onSwitched() of App, for any number of *)
(* requests under way.                                                     *)
THEOREM PagesShowTheirs == DashboardSpec => []ShownIsCurrent
<1>1. DashboardSpec => []DashboardIInv BY DashboardInitInv, DashboardStep, PTL DEF DashboardSpec
<1> QED BY <1>1, CurrentShown, PTL

(* The settings view saves profiles to the workspace they were loaded from *)
(* unless the token changed while it was open.                             *)
THEOREM ProfilesSavedAtHome == DashboardSpec => []SavedAtHome
<1>1. DashboardSpec => []DashboardIInv BY DashboardInitInv, DashboardStep, PTL DEF DashboardSpec
<1>2. DashboardIInv => SavedAtHome BY DEF DashboardIInv, Saving
<1> QED BY <1>1, <1>2, PTL

-----------------------------------------------------------------------------

ScopeType == [workflow : Ids \cup {NoId}, agent : Ids \cup {NoId}]
Part == {"executions", "agent"} \cup Filters \cup Places \cup {Encoded[i] : i \in Ids}
ShownType ==
  [view : Places \cup {"list", "detail"}, run : Ids \cup {NoId}, filter : Filters, scope : ScopeType]
EntryType == [hash : Seq(Part), last : BOOLEAN, shown : ShownType]

(* What is on show says nothing of what another kind of page would.        *)
Normal(shown) ==
  /\ shown.view # "detail" => shown.run = NoId
  /\ shown.view # "list" => shown.filter = "all" /\ shown.scope = Unscoped

(* An address that can say what was on show says it; one that cannot is    *)
(* still read as a page that there is.                                     *)
EntryOk(e) ==
  /\ Normal(e.shown)
  /\ e.last /\ ~Unsaid(e) => Parse(e.hash) = e.shown
  /\ Parse(e.hash).filter \in Filters /\ Parse(e.hash).scope \in ScopeType

PageOk(p) ==
  /\ DOMAIN p = {"view", "filter", "run", "scope", "source", "tab", "number", "nav"}
  /\ p.filter \in Filters /\ p.scope \in ScopeType

RouteIInv ==
  /\ PageOk(at)
  /\ history \in Seq(EntryType) /\ position \in DOMAIN history
  /\ \A i \in DOMAIN history : EntryOk(history[i])
  /\ AddressRestores

LEMMA Scopes == Unscoped \in ScopeType /\ \A w, a \in Ids \cup {NoId} : Scope(w, a) \in ScopeType
BY DEF Unscoped, Scope, ScopeType

LEMMA PlaceHash ==
  ASSUME NEW view \in Places, NEW id, NEW filter \in Filters, NEW scope
  PROVE  /\ HashOf(view, id, filter, scope) \in Seq(Part)
         /\ Parse(HashOf(view, id, filter, scope)) =
              [view |-> view, run |-> NoId, filter |-> "all", scope |-> Unscoped]
<1>1. HashOf(view, id, filter, scope) = <<view>> BY DEF HashOf, Places
<1>2. view # "executions" BY DEF Places
<1>3. <<view>> \in Seq(Part) BY DEF Part
<1>4. Parse(<<view>>) = [view |-> view, run |-> NoId, filter |-> "all", scope |-> Unscoped]
  BY <1>2 DEF Parse, NoId
<1> QED BY <1>1, <1>3, <1>4

LEMMA DetailHash ==
  ASSUME NEW id \in Ids, NEW filter \in Filters, NEW scope
  PROVE  LET h == HashOf("detail", id, filter, scope) IN
         /\ h \in Seq(Part)
         /\ Parse(h).filter \in Filters /\ Parse(h).scope = Unscoped
         /\ Encoded[id] \notin {"failed", "success"} =>
              Parse(h) = [view |-> "detail", run |-> Encoded[id], filter |-> "all", scope |-> Unscoped]
<1> DEFINE h == <<"executions", Encoded[id]>>
<1>1. HashOf("detail", id, filter, scope) = h BY DEF HashOf
<1>2. h \in Seq(Part) BY DEF Part
<1>3. Len(h) = 2 /\ h[1] = "executions" /\ h[2] = Encoded[id] OBVIOUS
<1>4. Encoded[id] # NoId BY RouteAssumption
<1> HIDE DEF h
<1>5. Parse(h).filter \in Filters /\ Parse(h).scope = Unscoped BY <1>3 DEF Parse, Filters
<1>6. Encoded[id] \notin {"failed", "success"} =>
        Parse(h) = [view |-> "detail", run |-> Encoded[id], filter |-> "all", scope |-> Unscoped]
  BY <1>3, <1>4 DEF Parse
<1> QED BY <1>1, <1>2, <1>5, <1>6

LEMMA ListHash ==
  ASSUME NEW id, NEW filter \in Filters, NEW scope \in ScopeType
  PROVE  LET h == HashOf("list", id, filter, scope) IN
         /\ h \in Seq(Part)
         /\ NoId \notin {scope.workflow, scope.agent} =>
              Parse(h) = [view |-> "list", run |-> NoId, filter |-> "all", scope |-> scope]
         /\ NoId \in {scope.workflow, scope.agent} =>
              Len(h) < 4 /\ Parse(h) = [view |-> "list", run |-> NoId, filter |-> filter, scope |-> Unscoped]
<1>1. CASE NoId \notin {scope.workflow, scope.agent}
  <2> DEFINE h == <<"executions", "agent", Encoded[scope.workflow], Encoded[scope.agent]>>
  <2>1. HashOf("list", id, filter, scope) = h BY <1>1 DEF HashOf
  <2>2. scope.workflow \in Ids /\ scope.agent \in Ids BY <1>1 DEF ScopeType
  <2>3. h \in Seq(Part) BY <2>2 DEF Part
  <2>4. Len(h) = 4 /\ h[1] = "executions" /\ h[2] = "agent" /\ h[3] = Encoded[scope.workflow] /\ h[4] = Encoded[scope.agent]
    OBVIOUS
  <2>5. \A i \in Ids : Decoded(Encoded[i]) = i BY RouteAssumption DEF Decoded
  <2>6. Scope(scope.workflow, scope.agent) = scope BY DEF Scope, ScopeType
  <2> HIDE DEF h
  <2>7. Parse(h) = [view |-> "list", run |-> NoId, filter |-> "all", scope |-> scope]
    BY <2>2, <2>4, <2>5, <2>6 DEF Parse
  <2> QED BY <1>1, <2>1, <2>3, <2>7
<1>2. CASE NoId \in {scope.workflow, scope.agent} /\ filter = "all"
  <2>1. HashOf("list", id, filter, scope) = <<"executions">> BY <1>2 DEF HashOf
  <2>2. <<"executions">> \in Seq(Part) BY DEF Part
  <2>3. Parse(<<"executions">>) = [view |-> "list", run |-> NoId, filter |-> "all", scope |-> Unscoped]
    BY DEF Parse, NoId
  <2>4. Len(<<"executions">>) < 4 OBVIOUS
  <2> DEFINE h == HashOf("list", id, filter, scope)
  <2>5. h \in Seq(Part) BY <2>1, <2>2
  <2>6. Parse(h) = [view |-> "list", run |-> NoId, filter |-> filter, scope |-> Unscoped]
    BY <1>2, <2>1, <2>3
  <2>7. Len(h) < 4 BY <2>1, <2>4
  <2> HIDE DEF h
  <2>8. h \in Seq(Part) /\ Len(h) < 4 /\ NoId \in {scope.workflow, scope.agent}
    BY <1>2, <2>5, <2>7
  <2> QED BY <2>6, <2>8 DEF h
<1>3. CASE NoId \in {scope.workflow, scope.agent} /\ filter # "all"
  <2> DEFINE h == <<"executions", filter>>
  <2>1. HashOf("list", id, filter, scope) = h BY <1>3 DEF HashOf
  <2>2. h \in Seq(Part) BY DEF Part
  <2>3. Len(h) = 2 /\ h[1] = "executions" /\ h[2] = filter /\ filter \in {"failed", "success"}
    BY <1>3 DEF Filters
  <2> HIDE DEF h
  <2>4. Parse(h) = [view |-> "list", run |-> NoId, filter |-> filter, scope |-> Unscoped]
    BY <2>3 DEF Parse, NoId
  <2>5. Len(h) < 4 BY <2>3
  <2> QED BY <1>3, <2>1, <2>2, <2>4, <2>5
<1> QED BY <1>1, <1>2, <1>3

(* A page with the address that its event pushes last.                     *)
Entry(h, p) == [hash |-> h, shown |-> OnShow(p), last |-> TRUE]
Passed(h, p) == [hash |-> h, shown |-> OnShow(p), last |-> FALSE]
Says(h, p) == PageOk(p) /\ Entry(h, p) \in EntryType /\ EntryOk(Entry(h, p))

LEMMA PushStep ==
  ASSUME RouteIInv, NEW p, NEW h, Says(h, p), NEW hashes, Push(p, hashes),
         \/ hashes = <<h>>
         \/ \E g : /\ hashes = <<g, h>>
                   /\ Passed(g, p) \in EntryType /\ EntryOk(Passed(g, p))
  PROVE  RouteIInv'
<1> DEFINE added == [i \in DOMAIN hashes |->
                        [hash |-> hashes[i], shown |-> OnShow(p), last |-> i = Len(hashes)]]
           n == Len(hashes)
<1>1. /\ at' = p /\ position' = position + n
      /\ history' = SubSeq(history, 1, position) \o added
  BY DEF Push
<1>2. /\ n \in {1, 2} /\ added \in Seq(EntryType) /\ Len(added) = n
      /\ \A i \in 1..n : EntryOk(added[i])
      /\ added[n] = Entry(h, p)
  <2>1. CASE hashes = <<h>>
    <3>1. DOMAIN hashes = 1..1 /\ hashes[1] = h /\ n = 1 BY <2>1
    <3>2. added[1] = [hash |-> h, shown |-> OnShow(p), last |-> 1 = 1] BY <3>1
    <3>3. DOMAIN added = 1..1 /\ added[1] = Entry(h, p) /\ added = [i \in 1..1 |-> added[i]]
      BY <3>1, <3>2 DEF Entry
    <3> HIDE DEF added, n
    <3>4. \A i \in 1..1 : added[i] \in EntryType BY <3>3 DEF Says
    <3>5. added \in Seq(EntryType) /\ Len(added) = 1 BY <3>3, <3>4
    <3> QED BY <3>1, <3>3, <3>5 DEF Says
  <2>2. ASSUME NEW g, hashes = <<g, h>>, Passed(g, p) \in EntryType, EntryOk(Passed(g, p))
        PROVE  <1>2!1 /\ <1>2!2 /\ <1>2!3
    <3>1. DOMAIN hashes = 1..2 /\ hashes[1] = g /\ hashes[2] = h /\ n = 2 BY <2>2
    <3>2. /\ added[1] = [hash |-> g, shown |-> OnShow(p), last |-> 1 = 2]
          /\ added[2] = [hash |-> h, shown |-> OnShow(p), last |-> 2 = 2]
      BY <3>1
    <3>3. /\ DOMAIN added = 1..2 /\ added[1] = Passed(g, p) /\ added[2] = Entry(h, p)
          /\ added = [i \in 1..2 |-> added[i]]
      <4>1. DOMAIN added = 1..2 /\ added = [i \in 1..2 |-> added[i]] BY <3>1
      <4> HIDE DEF added
      <4>2. added[1] = Passed(g, p)
        <5>1. added[1].last = FALSE
          <6>1. added[1].last = (1 = 2) BY <3>2
          <6>2. ~(1 = 2) OBVIOUS
          <6> QED BY <6>1, <6>2
        <5>2. /\ DOMAIN added[1] = {"hash", "shown", "last"} /\ added[1].hash = g
              /\ added[1].shown = OnShow(p) /\ added[1] = [f \in {"hash", "shown", "last"} |-> added[1][f]]
          BY <3>2
        <5> QED BY <5>1, <5>2 DEF Passed
      <4>3. added[2] = Entry(h, p) BY <3>2 DEF Entry
      <4> QED BY <4>1, <4>2, <4>3
    <3> HIDE DEF added, n
    <3>4. \A i \in 1..2 : added[i] \in EntryType BY <2>2, <3>3 DEF Says
    <3>5. added \in Seq(EntryType) /\ Len(added) = 2 BY <3>3, <3>4
    <3> QED BY <2>2, <3>1, <3>3, <3>5 DEF Says
  <2> QED BY <2>1, <2>2
<1> HIDE DEF added, n
<1>4. history \in Seq(EntryType) /\ position \in 1..Len(history) BY DEF RouteIInv
<1>5. /\ history' \in Seq(EntryType) /\ Len(history') = position + n
      /\ \A i \in 1..position : history'[i] = history[i]
      /\ \A i \in position + 1 .. position + n : history'[i] = added[i - position]
  BY <1>1, <1>2, <1>4
<1>6. \A i \in DOMAIN history' : EntryOk(history'[i])
  <2> SUFFICES ASSUME NEW i \in 1..position + n PROVE EntryOk(history'[i]) BY <1>5
  <2>1. CASE i <= position BY <1>4, <1>5, <2>1 DEF RouteIInv
  <2>2. CASE i > position
    <3>1. i - position \in 1..n /\ history'[i] = added[i - position] BY <1>2, <1>4, <1>5, <2>2
    <3> QED BY <1>2, <3>1
  <2> QED BY <1>2, <1>4, <2>1, <2>2
<1>7. position' \in DOMAIN history' /\ history'[position'] = Entry(h, p)
  <2>1. position + n \in position + 1 .. position + n /\ (position + n) - position = n
    BY <1>2, <1>4
  <2>2. history'[position + n] = added[n] BY <1>5, <2>1
  <2> QED BY <1>1, <1>2, <1>4, <1>5, <2>2
<1>8. AddressRestores'
  <2>1. OnShow(p) = OnShow(at)' BY <1>1 DEF OnShow
  <2>2. Entry(h, p).shown = OnShow(p) BY DEF Entry
  <2> QED BY <1>7, <2>1, <2>2 DEF AddressRestores, Unsaid
<1>9. PageOk(at)' BY <1>1 DEF Says, PageOk
<1> QED BY <1>5, <1>6, <1>7, <1>8, <1>9 DEF RouteIInv, EntryOk, Unsaid, Normal

(* The three kinds of address say what is on show, where they can.         *)
LEMMA PlaceSays ==
  ASSUME NEW p, PageOk(p), p.view \in Places, NEW filter \in Filters
  PROVE  Says(HashOf(p.view, NoId, filter, Unscoped), p)
<1> DEFINE h == HashOf(p.view, NoId, filter, Unscoped)
<1>1. /\ h \in Seq(Part)
      /\ Parse(h) = [view |-> p.view, run |-> NoId, filter |-> "all", scope |-> Unscoped]
  BY PlaceHash
<1> HIDE DEF h
<1>2. p.view # "list" /\ p.view # "detail" BY DEF Places
<1>3. OnShow(p) = [view |-> p.view, run |-> NoId, filter |-> "all", scope |-> Unscoped]
  BY <1>2 DEF OnShow
<1>4. Entry(h, p) \in EntryType BY <1>1, <1>3, Scopes DEF Entry, EntryType, ShownType, Filters
<1>5. Entry(h, p).hash = h /\ Entry(h, p).shown = OnShow(p) BY DEF Entry
<1> HIDE DEF OnShow, Entry
<1>6. EntryOk(Entry(h, p)) BY <1>1, <1>2, <1>3, <1>5, Scopes DEF EntryOk, Normal, Filters
<1> QED BY <1>4, <1>6 DEF Says, h

LEMMA ListSays ==
  ASSUME NEW p, PageOk(p), p.view = "list", NEW filter \in Filters, NEW scope \in ScopeType
  PROVE  LET h == HashOf("list", NoId, filter, scope) IN
         /\ Passed(h, p) \in EntryType /\ EntryOk(Passed(h, p))
         /\ filter = p.filter /\ scope \in {p.scope, Unscoped} => Says(h, p)
<1> DEFINE h == HashOf("list", NoId, filter, scope)
<1>1. /\ h \in Seq(Part)
      /\ NoId \notin {scope.workflow, scope.agent} =>
           Parse(h) = [view |-> "list", run |-> NoId, filter |-> "all", scope |-> scope]
      /\ NoId \in {scope.workflow, scope.agent} =>
           Len(h) < 4 /\ Parse(h) = [view |-> "list", run |-> NoId, filter |-> filter, scope |-> Unscoped]
  BY ListHash
<1> HIDE DEF h
<1>2. OnShow(p) = [view |-> "list", run |-> NoId, filter |-> p.filter, scope |-> p.scope]
  BY DEF OnShow
<1>3. Parse(h).filter \in Filters /\ Parse(h).scope \in ScopeType BY <1>1, Scopes DEF Filters
<1>4. OnShow(p) \in ShownType BY <1>2 DEF PageOk, ShownType
<1>5. Normal(OnShow(p)) BY <1>2 DEF Normal
<1>6. /\ Passed(h, p) \in EntryType /\ Passed(h, p).last = FALSE
      /\ Passed(h, p).hash = h /\ Passed(h, p).shown = OnShow(p)
  <2> HIDE DEF OnShow
  <2> QED BY <1>1, <1>4 DEF Passed, EntryType
<1>7. Entry(h, p) \in EntryType /\ Entry(h, p).hash = h /\ Entry(h, p).shown = OnShow(p)
  <2> HIDE DEF OnShow
  <2> QED BY <1>1, <1>4 DEF Entry, EntryType
<1> HIDE DEF OnShow, Entry, Passed
<1>8. EntryOk(Passed(h, p)) BY <1>3, <1>5, <1>6 DEF EntryOk
<1>9. ASSUME filter = p.filter, scope \in {p.scope, Unscoped}, ~Unsaid(Entry(h, p))
      PROVE  Parse(h) = OnShow(p)
  <2>1. p.scope # Unscoped => p.filter = "all" /\ ~(Len(h) < 4)
    BY <1>2, <1>7, <1>9 DEF Unsaid
  <2>2. CASE NoId \notin {scope.workflow, scope.agent}
    <3>1. scope # Unscoped BY <2>2 DEF Unscoped, Scope
    <3> QED BY <1>1, <1>2, <1>9, <2>1, <2>2, <3>1
  <2>3. CASE NoId \in {scope.workflow, scope.agent}
    BY <1>1, <1>2, <1>9, <2>1, <2>3
  <2> QED BY <2>2, <2>3
<1>10. filter = p.filter /\ scope \in {p.scope, Unscoped} => EntryOk(Entry(h, p))
  BY <1>3, <1>5, <1>7, <1>9 DEF EntryOk
<1> QED BY <1>6, <1>7, <1>8, <1>10 DEF Says, h

LEMMA DetailSays ==
  ASSUME NEW p, PageOk(p), p.view = "detail", p.run \in Ids, NEW filter \in Filters
  PROVE  Says(HashOf("detail", p.run, filter, Unscoped), p)
<1> DEFINE h == HashOf("detail", p.run, filter, Unscoped)
<1>1. /\ h \in Seq(Part)
      /\ Parse(h).filter \in Filters /\ Parse(h).scope = Unscoped
      /\ Encoded[p.run] \notin {"failed", "success"} =>
           Parse(h) = [view |-> "detail", run |-> Encoded[p.run], filter |-> "all", scope |-> Unscoped]
  BY DetailHash
<1> HIDE DEF h
<1>2. OnShow(p) = [view |-> "detail", run |-> p.run, filter |-> "all", scope |-> Unscoped]
  BY DEF OnShow
<1>3. OnShow(p) \in ShownType BY <1>2, Scopes DEF ShownType, Filters
<1>4. Normal(OnShow(p)) BY <1>2 DEF Normal
<1>5. Entry(h, p) \in EntryType /\ Entry(h, p).hash = h /\ Entry(h, p).shown = OnShow(p)
  <2> HIDE DEF OnShow
  <2> QED BY <1>1, <1>3 DEF Entry, EntryType
<1> HIDE DEF OnShow, Entry
<1>6. ~Unsaid(Entry(h, p)) => Parse(h) = OnShow(p) BY <1>1, <1>2, <1>5 DEF Unsaid
<1>7. EntryOk(Entry(h, p)) BY <1>1, <1>4, <1>5, <1>6, Scopes DEF EntryOk
<1> QED BY <1>5, <1>7 DEF Says, h

(* The pages that events lead to.                                          *)
LEMMA ListedPage ==
  ASSUME PageOk(at), NEW filter \in Filters, NEW scope \in ScopeType
  PROVE  LET p == Listed(filter, scope) IN
         PageOk(p) /\ p.view = "list" /\ p.filter = filter /\ p.scope = scope
BY DEF PageOk, Listed

LEMMA ListScopedStep ==
  ASSUME RouteIInv, NEW filter \in Filters, NEW scope \in ScopeType, ListScoped(filter, scope)
  PROVE  RouteIInv'
<1> DEFINE p == Listed(filter, scope)
<1>1. PageOk(p) /\ p.view = "list" /\ p.filter = filter /\ p.scope = scope
  BY ListedPage DEF RouteIInv
<1>2. Push(p, <<HashOf("list", NoId, filter, scope)>>) BY DEF ListScoped
<1> HIDE DEF p
<1>3. Says(HashOf("list", NoId, filter, scope), p) BY <1>1, ListSays
<1> QED BY <1>2, <1>3, PushStep

LEMMA ListAsIsStep ==
  ASSUME RouteIInv, NEW filter \in Filters, ListAsIs(filter) \/ Executions(filter)
  PROVE  RouteIInv'
<1> DEFINE p == Listed(filter, at.scope)
           h == HashOf("list", NoId, filter, Unscoped)
           g == HashOf("list", NoId, at.filter, Unscoped)
<1>1. at.scope \in ScopeType /\ at.filter \in Filters BY DEF RouteIInv, PageOk
<1>2. PageOk(p) /\ p.view = "list" /\ p.filter = filter /\ p.scope = at.scope
  BY <1>1, ListedPage DEF RouteIInv
<1>3. Push(p, <<h>>) \/ Push(p, <<g, h>>) BY DEF ListAsIs, Executions
<1> HIDE DEF p
<1>4. Says(h, p) BY <1>2, ListSays, Scopes
<1>5. Passed(g, p) \in EntryType /\ EntryOk(Passed(g, p)) BY <1>1, <1>2, ListSays, Scopes
<1> HIDE DEF h, g
<1>6. CASE Push(p, <<h>>) BY <1>4, <1>6, PushStep
<1>7. CASE Push(p, <<g, h>>) BY <1>4, <1>5, <1>7, PushStep
<1> QED BY <1>3, <1>6, <1>7

LEMMA OpenRunStep ==
  ASSUME RouteIInv, NEW id \in Ids, NEW source, NEW scope \in ScopeType, NEW tab,
         OpenRun(id, source, scope, tab)
  PROVE  RouteIInv'
<1> DEFINE p == [at EXCEPT !.view = "detail", !.run = id, !.source = source, !.scope = scope,
                           !.tab = tab, !.nav = NavOf("list", at.filter)]
<1>1. PageOk(p) /\ p.view = "detail" /\ p.run = id BY DEF RouteIInv, PageOk
<1>2. Push(p, <<HashOf("detail", id, at.filter, Unscoped)>>) BY DEF OpenRun
<1>3. at.filter \in Filters BY DEF RouteIInv, PageOk
<1> HIDE DEF p
<1>4. Says(HashOf("detail", id, at.filter, Unscoped), p) BY <1>1, <1>3, DetailSays
<1> QED BY <1>2, <1>4, PushStep

LEMMA GoStep ==
  ASSUME RouteIInv, NEW view \in Places, GoTo(view) PROVE RouteIInv'
<1> DEFINE p == [at EXCEPT !.view = view, !.scope = Unscoped, !.run = NoId, !.nav = NavOf(view, @)]
<1>1. PageOk(p) /\ p.view = view BY Scopes DEF RouteIInv, PageOk
<1>2. Push(p, <<HashOf(view, NoId, at.filter, Unscoped)>>) BY DEF GoTo
<1>3. at.filter \in Filters BY DEF RouteIInv, PageOk
<1> HIDE DEF p
<1>4. Says(HashOf(view, NoId, at.filter, Unscoped), p) BY <1>1, <1>3, PlaceSays
<1> QED BY <1>2, <1>4, PushStep

(* Back, forward and a reload: the address is read.                        *)
LEMMA ReadStep ==
  ASSUME RouteIInv, NEW to \in DOMAIN history, position' = to, history' = history,
         LET route == Parse(history[to].hash) IN at' = Synced(route) \/ at' = Opened(route)
  PROVE  RouteIInv'
<1> DEFINE route == Parse(history[to].hash)
<1>1. EntryOk(history[to]) /\ PageOk(at) BY DEF RouteIInv
<1>2. route.filter \in Filters /\ route.scope \in ScopeType BY <1>1 DEF EntryOk
<1> HIDE DEF route
<1>3. at' = Synced(route) \/ at' = Opened(route) BY DEF route
<1> DEFINE fields == {"view", "filter", "run", "scope", "source", "tab", "number", "nav"}
<1>4. /\ DOMAIN at' = fields /\ at'.view = route.view /\ at'.filter = route.filter
      /\ route.view = "detail" => at'.run = route.run
      /\ at'.scope \in ScopeType /\ (route.view = "list" => at'.scope = route.scope)
  <2>1. CASE at' = Synced(route)
    <3>1. DOMAIN at = fields /\ at.scope \in ScopeType BY <1>1 DEF PageOk
    <3>2. DOMAIN at' = fields BY <2>1, <3>1 DEF Synced
    <3>3. at'.view = route.view /\ at'.filter = route.filter BY <2>1, <3>1 DEF Synced
    <3>4. at'.run = IF route.view = "detail" THEN route.run ELSE NoId BY <2>1, <3>1 DEF Synced
    <3>5. at'.scope = IF route.view = "detail" THEN at.scope ELSE route.scope
      BY <2>1, <3>1 DEF Synced
    <3> HIDE DEF fields
    <3> QED BY <1>2, <3>1, <3>2, <3>3, <3>4, <3>5
  <2>2. CASE at' = Opened(route)
    <3>1. DOMAIN at' = fields BY <2>2 DEF Opened
    <3>2. at'.view = route.view /\ at'.filter = route.filter /\ at'.run = route.run /\ at'.scope = route.scope
      BY <2>2 DEF Opened
    <3> HIDE DEF fields
    <3> QED BY <1>2, <3>1, <3>2
  <2> QED BY <1>3, <2>1, <2>2
<1>5. OnShow(at') =
        [view |-> route.view,
         run |-> IF route.view = "detail" THEN route.run ELSE NoId,
         filter |-> IF route.view = "list" THEN route.filter ELSE "all",
         scope |-> IF route.view = "list" THEN route.scope ELSE Unscoped]
  BY <1>4 DEF OnShow
<1>6. history[to].last /\ ~Unsaid(history[to]) => OnShow(at') = history[to].shown
  <2> SUFFICES ASSUME history[to].last, ~Unsaid(history[to]) PROVE OnShow(at') = history[to].shown
    OBVIOUS
  <2>1. route = history[to].shown /\ Normal(history[to].shown) BY <1>1 DEF EntryOk, route
  <2>2. history[to].shown \in ShownType
    <3>1. history[to] \in EntryType BY DEF RouteIInv
    <3> QED BY <3>1 DEF EntryType
  <2> DEFINE shown == history[to].shown
  <2> HIDE DEF shown
  <2>3. OnShow(at') = [view |-> shown.view, run |-> shown.run, filter |-> shown.filter, scope |-> shown.scope]
    BY <1>5, <2>1 DEF Normal, shown
  <2> QED BY <2>2, <2>3 DEF ShownType, shown
<1>7. AddressRestores'
  <2>1. OnShow(at)' = OnShow(at') BY DEF OnShow
  <2> QED BY <1>6, <2>1 DEF AddressRestores, Unsaid
<1>8. PageOk(at)' BY <1>2, <1>4 DEF PageOk
<1> QED BY <1>7, <1>8 DEF RouteIInv, EntryOk, Unsaid, Normal

LEMMA RouteInitInv == RouteInit => RouteIInv
<1> SUFFICES ASSUME RouteInit PROVE RouteIInv OBVIOUS
<1> DEFINE h == <<"monitor">>
           first == Entry(h, at)
<1>1. /\ h \in Seq(Part)
      /\ Parse(h) = [view |-> "monitor", run |-> NoId, filter |-> "all", scope |-> Unscoped]
  <2>1. HashOf("monitor", NoId, "all", Unscoped) = h BY DEF HashOf
  <2>2. "monitor" \in Places /\ "all" \in Filters BY DEF Places, Filters
  <2> QED BY <2>1, <2>2, PlaceHash
<1>2. /\ at = Opened(Parse(h)) /\ position = 1
      /\ history = <<first>>
  BY DEF RouteInit, Entry
<1> HIDE DEF h
<1>3. PageOk(at) /\ at.view = "monitor" BY <1>1, <1>2, Scopes DEF PageOk, Opened, Filters
<1>4. Says(HashOf(at.view, NoId, "all", Unscoped), at)
  <2>1. "monitor" \in Places /\ "all" \in Filters BY DEF Places, Filters
  <2> QED BY <1>3, <2>1, PlaceSays
<1>5. HashOf(at.view, NoId, "all", Unscoped) = h BY <1>3 DEF HashOf, h
<1>6. first \in EntryType /\ EntryOk(first) BY <1>4, <1>5 DEF Says
<1>7. first.shown = OnShow(at) BY DEF Entry
<1> HIDE DEF first
<1>8. history \in Seq(EntryType) /\ DOMAIN history = {1} /\ history[1] = first
  BY <1>2, <1>6
<1>9. AddressRestores BY <1>2, <1>7, <1>8 DEF AddressRestores
<1> QED BY <1>2, <1>3, <1>6, <1>8, <1>9 DEF RouteIInv

LEMMA RouteStep == ASSUME RouteIInv, [RouteNext]_routeVars PROVE RouteIInv'
<1>1. at.filter \in Filters /\ at.scope \in ScopeType /\ PageOk(at) BY DEF RouteIInv, PageOk
<1>2. CASE UNCHANGED routeVars
  BY <1>2 DEF RouteIInv, routeVars, PageOk, AddressRestores, EntryOk, Unsaid, Normal, OnShow
<1>3. ASSUME NEW view \in Places, GoTo(view) PROVE RouteIInv' BY <1>3, GoStep
<1>4. ASSUME NEW filter \in Filters, ListAsIs(filter) \/ Executions(filter) PROVE RouteIInv'
  BY <1>4, ListAsIsStep
<1>5. ASSUME NEW filter \in Filters, ChangeFilter(filter) PROVE RouteIInv'
  BY <1>1, <1>5, ListScopedStep, Scopes DEF ChangeFilter
<1>6. CASE Search BY <1>1, <1>6, ListAsIsStep DEF Search
<1>7. CASE Back
  <2>1. {"monitor", "agents"} \subseteq Places BY DEF Places
  <2> QED BY <1>1, <1>7, <2>1, GoStep, ListScopedStep DEF Back
<1>8. CASE Turn
  <2>1. /\ UNCHANGED <<history, position>> /\ DOMAIN at' = DOMAIN at
        /\ at'.filter = at.filter /\ at'.scope = at.scope /\ at'.view = at.view /\ at'.run = at.run
    BY <1>1, <1>8 DEF Turn, PageOk
  <2>2. PageOk(at)' BY <1>1, <2>1 DEF PageOk
  <2>3. AddressRestores' BY <2>1 DEF RouteIInv, AddressRestores, OnShow, Unsaid
  <2> QED BY <2>1, <2>2, <2>3 DEF RouteIInv, EntryOk, Unsaid, Normal
<1>9. CASE Reload
  <2>1. position \in DOMAIN history BY DEF RouteIInv
  <2> QED BY <1>9, <2>1, ReadStep DEF Reload
<1>10. ASSUME NEW to \in DOMAIN history, Traverse(to) PROVE RouteIInv'
  BY <1>10, ReadStep DEF Traverse
<1>11. ASSUME NEW id \in Ids, SelectRun(id) PROVE RouteIInv'
  BY <1>1, <1>11, OpenRunStep DEF SelectRun
<1>12. ASSUME NEW id \in Ids, SelectWorkflow(id) PROVE RouteIInv'
  <2>1. "all" \in Filters /\ Scope(id, NoId) \in ScopeType BY Scopes DEF Filters
  <2> QED BY <1>12, <2>1, ListScopedStep DEF SelectWorkflow
<1>13. ASSUME NEW row \in AgentRows, NEW all \in BOOLEAN, SelectAgent(row, all) PROVE RouteIInv'
  <2>1. row.workflow \in Ids /\ row.agent \in Ids /\ row.latest \in Ids \cup {NoId}
    BY RouteAssumption
  <2>2. "all" \in Filters /\ Scope(row.workflow, row.agent) \in ScopeType BY <2>1, Scopes DEF Filters
  <2>3. \/ ListScoped("all", Scope(row.workflow, row.agent))
        \/ row.latest # NoId /\ OpenRun(row.latest, "agents", Scope(row.workflow, row.agent), "trace")
    BY <1>13 DEF SelectAgent
  <2> QED BY <2>1, <2>2, <2>3, ListScopedStep, OpenRunStep
<1> QED
  BY <1>2, <1>3, <1>4, <1>5, <1>6, <1>7, <1>8, <1>9, <1>10, <1>11, <1>12, <1>13 DEF RouteNext

(* The page is what was on show when its address was pushed, for as much   *)
(* of it as addresses can say: buildAppHash() and parseAppRoute(), for any *)
(* ids, agents and length of the history.                                  *)
THEOREM AddressesRestore == RouteSpec => []AddressRestores
<1>1. RouteIInv /\ [RouteNext]_routeVars => RouteIInv' BY RouteStep
<1>2. RouteIInv => AddressRestores BY DEF RouteIInv
<1> QED BY <1>1, <1>2, RouteInitInv, PTL DEF RouteSpec

-----------------------------------------------------------------------------

(***************************************************************************)
(* The areas that are explored together are the parts on their own.        *)
(***************************************************************************)
THEOREM ConsoleApart == ConsoleSpec => DashboardSpec /\ RouteSpec
<1>1. ConsoleInit => DashboardInit /\ RouteInit BY DEF ConsoleInit
<1>2. [ConsoleNext]_consoleVars => [DashboardNext]_dashboardVars
  <2> SUFFICES ASSUME [ConsoleNext]_consoleVars PROVE [DashboardNext]_dashboardVars OBVIOUS
  <2>1. CASE DashboardArea BY <2>1 DEF DashboardArea
  <2>2. CASE UNCHANGED dashboardVars BY <2>2
  <2> QED BY <2>1, <2>2 DEF ConsoleNext, consoleVars
<1>3. [ConsoleNext]_consoleVars => [RouteNext]_routeVars
  <2> SUFFICES ASSUME [ConsoleNext]_consoleVars PROVE [RouteNext]_routeVars OBVIOUS
  <2>1. CASE RouteNext BY <2>1
  <2>2. CASE UNCHANGED routeVars BY <2>2
  <2> QED BY <2>1, <2>2 DEF ConsoleNext, consoleVars
<1> QED BY <1>1, <1>2, <1>3, PTL DEF ConsoleSpec, DashboardSpec, RouteSpec
=============================================================================
