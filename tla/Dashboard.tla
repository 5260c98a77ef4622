----------------------------- MODULE Dashboard -----------------------------
(***************************************************************************)
(* The data that the dashboard (apps/web/src) shows: the session           *)
(* (auth/AuthContext.tsx), the hooks that load (hooks/useRuns.ts), the     *)
(* live feed (hooks/useLiveFeed.ts), the settings form, the onboarding     *)
(* wizard and the workspace switcher.  Components are mounted and          *)
(* unmounted, requests are answered in any order, each with the token of   *)
(* the moment it was sent, and a token names a workspace.                  *)
(*                                                                         *)
(* A step is one event and the effects React runs after it.                *)
(***************************************************************************)
EXTENDS Naturals, Sequences, SequencesExt

CONSTANTS
    Workspaces,  \* of one user
    Populated,   \* those with runs
    Configured,  \* those with workflow profiles
    Queries,     \* what a list may be asked: filter, scope, search, page
    Runs,        \* runs whose detail is opened
    MaxRequests  \* bound: requests under way

None == "none"

ASSUME DashboardAssumption ==
    /\ Populated \subseteq Workspaces /\ Configured \subseteq Workspaces /\ MaxRequests \in Nat
    /\ None \notin Workspaces

Nothing == [ws |-> None, key |-> None, with |-> None]

\* The hooks of App, which live as long as it does, and the loads of
\* components that are mounted for one page or one run.
Hooks == {"metrics", "runs"}
Loads == Hooks \cup {"detail", "settings"}

VARIABLES
    session,   \* the stored token, the user's workspace, and where sign-in is
    page,      \* the view, the list's query and the run; view None: not mounted
    requests,  \* per load, those under way, in the order they were sent
    content,   \* per load, what is shown: whose, of what, and with whose settings
    loading,   \* metricsLoading
    ghost,     \* a request is under way whose component is gone
    switching, \* the workspace a switch is to, and what it waits for
    feed,      \* the event source's workspace, and those of the events shown
    form,      \* the workspace whose profiles are in the settings form
    wizard,    \* the trigger, what is shown, workspaces marked as done, and
               \* (history) whether it popped up in a workspace with runs
    late,      \* history: loads whose last answer was not the newest request's
    crossed,   \* history: what was open when the token changed
    saved      \* history: profiles saved: to which workspace, from which

dashboardVars == <<session, page, requests, content, loading, ghost, switching, feed, form,
                   wizard, late, crossed, saved>>

EnabledIn ==
    [metrics  |-> {"monitor", "list", "detail", "settings"},
     runs     |-> {"list", "detail"},
     detail   |-> {"detail"},
     settings |-> {"settings"}]

Views == EnabledIn.metrics

Enabled(k, pg) == pg.view \in EnabledIn[k]
KeyOf(k, pg) == CASE k = "runs" -> pg.query [] k = "detail" -> pg.run [] OTHER -> None

\* The effect of a load runs anew: it is mounted, unmounted or its key changed.
Moved(k, pg) ==
    \/ Enabled(k, pg) # Enabled(k, page)
    \/ Enabled(k, pg) /\ KeyOf(k, pg) # KeyOf(k, page)

\* Variant of Cancels: nothing is cancelled while the app is mounted.
CancelsLate(k, pg) == pg.view = None

\* Answers that will not be used: of an unmounted component, and of a run's
\* detail that is no longer open (`cancelled`).
Cancels(k, pg) == pg.view = None \/ (Moved(k, pg) /\ k \notin Hooks)

\* What was loaded is gone with its component, or when it is disabled.
Clears(k, pg) == pg.view = None \/ (Moved(k, pg) /\ ~Enabled(k, pg))

\* A request that is sent ages those before it.
Sent(list, k, pg, token, then) ==
    Append([i \in DOMAIN list |-> [list[i] EXCEPT !.newest = FALSE]],
           [key |-> KeyOf(k, pg), ws |-> token, with |-> None, newest |-> TRUE, then |-> then])

\* The feed is opened with the token of the moment it is enabled and closed when
\* the overview is left or has no metrics.
FeedOf(pg, f, metrics, token) ==
    IF pg.view # "monitor" THEN [open |-> None, events |-> {}]
    ELSE [f EXCEPT !.open = IF metrics = Nothing THEN None ELSE IF f.open # None THEN f.open ELSE token]

\* The onboarding effect, with the user, the trigger and the metrics that were
\* rendered.
WizardOf(user, w, waits, metrics) ==
    LET finds == ~waits /\ metrics # Nothing /\ metrics.ws \notin Populated
    IN CASE user = None -> [w EXCEPT !.shows = None, !.misled = FALSE]
         [] user \in w.done \ {None} -> [w EXCEPT !.shows = None, !.trigger = None, !.misled = FALSE]
         [] user \notin w.done \cup {None} /\ w.trigger # None -> [w EXCEPT !.shows = w.trigger]
         [] user \notin w.done \cup {None} /\ w.trigger = None /\ finds ->
                [w EXCEPT !.shows = "empty-workspace", !.misled = user \in Populated]
         [] OTHER -> w

\* What an event leaves before the effects run.
Now == [session |-> session, requests |-> requests, content |-> content, waits |-> loading,
        wizard |-> wizard, feed |-> feed]

\* The effects after an event that leaves page pg and state s and calls for
\* reloads; `woken` when the onboarding effect's dependencies changed.
Effects(pg, calls, then, s, woken) ==
    LET opens == {k \in Loads : Enabled(k, pg) /\ (Moved(k, pg) \/ k \in calls)}
        kept == [k \in Loads |-> IF Clears(k, pg) THEN Nothing ELSE s.content[k]]
    IN /\ page' = pg /\ session' = s.session
       /\ requests' = [k \in Loads |->
              LET rest == IF Cancels(k, pg) THEN <<>> ELSE s.requests[k]
              IN IF k \in opens THEN Sent(rest, k, pg, s.session.token, then) ELSE rest]
       /\ FoldFunction(LAMBDA list, n : Len(list) + n, 0, requests') <= MaxRequests
       /\ content' = kept
       /\ loading' = (s.waits \/ "metrics" \in opens)
       /\ ghost' = (ghost \/ \E k \in Loads : Cancels(k, pg) /\ s.requests[k] # <<>>)
       /\ feed' = FeedOf(pg, s.feed, kept.metrics, s.session.token)
       /\ wizard' = IF woken THEN WizardOf(s.session.user, s.wizard, s.waits, kept.metrics) ELSE s.wizard

-----------------------------------------------------------------------------

SignedOut == [token |-> None, user |-> None, at |-> "out"]
Idle == [to |-> None, at |-> None]

DashboardInit ==
    /\ session \in {[token |-> w, user |-> None, at |-> "boot"] : w \in Workspaces} \cup {SignedOut}
    /\ page \in [view : {None}, query : Queries, run : Runs]
    /\ requests = [k \in Loads |-> <<>>] /\ content = [k \in Loads |-> Nothing]
    /\ loading = TRUE /\ ghost = FALSE /\ switching = Idle
    /\ feed = [open |-> None, events |-> {}]
    /\ form = None
    /\ wizard \in [trigger : {None}, shows : {None}, done : SUBSET Workspaces, misled : {FALSE}]
    /\ late = {} /\ crossed = {}
    /\ saved = [to |-> None, from |-> None, across |-> FALSE]

\* The app is mounted, on the page of the address.
Mount(w, view, trigger) ==
    Effects([page EXCEPT !.view = view], {}, None,
            [Now EXCEPT !.session = [token |-> w, user |-> w, at |-> "in"], !.waits = TRUE,
                       !.wizard.trigger = trigger], TRUE)

\* boot(): the stored token is tried.
Boot(view) ==
    /\ session.at = "boot"
    /\ \/ Mount(session.token, view, None)
       \/ session' = SignedOut /\ UNCHANGED <<page, requests, content, loading, ghost, feed, wizard>>
    /\ UNCHANGED <<switching, form, late, crossed, saved>>

\* login(), registerTenant() and registerUser().
SignIn(w, trigger, view) ==
    /\ session.at = "out"
    /\ Mount(w, view, trigger)
    /\ UNCHANGED <<switching, form, late, crossed, saved>>

\* logout(): the token is cleared and the app unmounted.
Leave(rest) ==
    /\ Effects([page EXCEPT !.view = None], {}, None,
               [Now EXCEPT !.session = SignedOut, !.requests = rest, !.waits = TRUE, !.wizard.trigger = None], TRUE)
    /\ switching' = Idle /\ form' = None /\ late' = {} /\ crossed' = {}
    /\ UNCHANGED saved

SignOut == session.at = "in" /\ Leave(requests)

\* Variant of FormOf: the form outlives the settings view.
FormKept(pg) == form

\* The form is gone when the settings are left.
FormOf(pg) == IF Moved("settings", pg) THEN None ELSE form

\* Another view, another query, or another run.
Navigate(pg) ==
    /\ session.at = "in" /\ pg.view # None
    /\ Effects(pg, {}, None, Now, FALSE)
    /\ form' = FormOf(pg)
    /\ crossed' = crossed \ ({k \in Loads : Moved(k, pg)}
                             \cup IF pg.view = "monitor" THEN {} ELSE {"feed"})
    /\ late' = {k \in late : Enabled(k, pg)}
    /\ UNCHANGED <<switching, saved>>

\* handleRefresh() and handleWizardTestSuccess(): the metrics are reloaded, and
\* everything once they are there.
Refresh(tested) ==
    /\ session.at = "in"
    /\ IF tested THEN wizard.shows # None ELSE page.view # "detail"
    /\ Effects(page, {"metrics"}, "everything",
               IF tested THEN [Now EXCEPT !.wizard.done = @ \cup {session.user}, !.wizard.trigger = None]
                         ELSE Now, tested)
    /\ UNCHANGED <<switching, form, late, crossed, saved>>

\* dismissOnboarding(), wizardGoConnect() and openConnectionWizard().
UseWizard(done) ==
    /\ session.at = "in"
    /\ wizard' =
           IF wizard.shows = None THEN [wizard EXCEPT !.shows = "empty-workspace"]
           ELSE [wizard EXCEPT !.shows = None, !.misled = FALSE,
                    !.trigger = IF done THEN None ELSE @,
                    !.done = IF done THEN @ \cup {session.user} ELSE @]
    /\ wizard.shows = None => page.view \in {"monitor", "settings"} /\ ~done
    /\ UNCHANGED <<session, page, requests, content, loading, ghost, switching, feed, form, late,
                   crossed, saved>>

\* Saving the profiles, or creating or revoking something, reloads the settings.
ChangeSettings ==
    /\ page.view = "settings" /\ requests.settings = <<>> /\ content.settings # Nothing
    /\ Effects(page, {"settings"}, None, Now, FALSE)
    /\ saved' \in {saved} \cup IF form = None THEN {} ELSE
           {[to |-> session.token, from |-> form, across |-> "settings" \in crossed]}
    /\ UNCHANGED <<switching, form, late, crossed>>

-----------------------------------------------------------------------------

\* An answer is shown, and what was asked to follow it is done.  Settings that
\* fail to load leave those that are shown.
Show(k, i, c) ==
    LET r == requests[k][i]
        failed == c = Nothing
    IN /\ Effects(page, IF r.then = "everything" THEN Hooks ELSE {}, None,
                  [Now EXCEPT !.requests[k] = RemoveAt(@, i),
                              !.content[k] = IF failed /\ k = "settings" THEN @ ELSE c,
                              !.waits = @ /\ k # "metrics"],
                  k = "metrics")
       /\ form' = IF k = "settings" /\ c.ws \in Configured THEN c.ws ELSE form
       /\ late' = IF r.newest THEN late \ {k} ELSE late \cup {k}
       /\ UNCHANGED <<switching, crossed, saved>>

\* fetchRunDetail() asks for the report, the traces and the settings once it
\* has the run.
AskForRest(i) ==
    /\ requests' = [requests EXCEPT !.detail[i].with = session.token]
    /\ UNCHANGED <<session, page, content, loading, ghost, switching, feed, form, wizard, late,
                   crossed, saved>>

\* An answer to apiFetch(): what was asked for, an error, or a refusal, which
\* ends the session.
Answer(k) ==
    \E i \in DOMAIN requests[k] :
        LET r == requests[k][i]
        IN \/ IF k = "detail" /\ r.with = None THEN AskForRest(i)
              ELSE Show(k, i, [ws |-> r.ws, key |-> r.key, with |-> r.with])
           \/ Show(k, i, Nothing)
           \/ Leave([requests EXCEPT ![k] = RemoveAt(@, i)])

\* A request whose component is gone is answered: only a refusal shows, and
\* ends whatever session there is by now.
GhostAnswer ==
    \/ ghost /\ session.at = "in" /\ Leave(requests)
    \/ /\ ghost /\ ghost' = FALSE
       /\ UNCHANGED <<session, page, requests, content, loading, switching, feed, form, wizard,
                      late, crossed, saved>>

\* An event of the live feed; one of a hop not seen yet reloads the metrics.
FeedEvent(hop) ==
    /\ feed.open # None
    /\ Effects(page, IF hop THEN {"metrics"} ELSE {}, None,
               [Now EXCEPT !.feed.events = @ \cup {feed.open}], FALSE)
    /\ UNCHANGED <<switching, form, late, crossed, saved>>

-----------------------------------------------------------------------------

StartSwitch(w) ==
    /\ session.at = "in" /\ switching = Idle /\ w # session.user
    /\ switching' = [to |-> w, at |-> "switch"]
    /\ UNCHANGED <<session, page, requests, content, loading, ghost, feed, form, wizard, late,
                   crossed, saved>>

\* The token is replaced, and refreshUser() asks who that is.
TakeToken ==
    /\ switching.at = "switch"
    /\ session' = [session EXCEPT !.token = switching.to]
    /\ switching' = [switching EXCEPT !.at = "me"]
    /\ crossed' = crossed \cup {"app"} \cup ({page.view} \cap {"detail", "settings"})
                         \cup IF page.view = "monitor" THEN {"feed"} ELSE {}
    /\ UNCHANGED <<page, requests, content, loading, ghost, feed, form, wizard, late, saved>>

\* What onSwitched() reloads.
Reloaded == Hooks

\* The user is replaced and onSwitched() reloads.
TakeUser ==
    /\ switching.at = "me"
    /\ switching' = Idle
    /\ Effects(page, Reloaded, None, [Now EXCEPT !.session.user = switching.to], TRUE)
    /\ UNCHANGED <<form, late, crossed, saved>>

\* An error of either call: the selection is reverted, the token is not.
FailSwitch ==
    /\ switching # Idle
    /\ \/ /\ switching' = Idle
          /\ UNCHANGED <<session, page, requests, content, loading, ghost, feed, form, wizard, late,
                         crossed, saved>>
       \/ Leave(requests)

DashboardNext ==
    \/ \E view \in Views :
           \/ Boot(view)
           \/ \E w \in Workspaces, trigger \in {None, "workspace-created", "member-joined"} :
                  SignIn(w, trigger, view)
    \/ SignOut
    \/ \E pg \in [view : Views, query : Queries, run : Runs] :
           Navigate(pg)
    \/ \E b \in BOOLEAN : Refresh(b) \/ UseWizard(b) \/ FeedEvent(b)
    \/ ChangeSettings
    \/ \E k \in Loads : Answer(k)
    \/ GhostAnswer
    \/ \E w \in Workspaces : StartSwitch(w)
    \/ TakeToken \/ TakeUser \/ FailSwitch

DashboardSpec == DashboardInit /\ [][DashboardNext]_dashboardVars

-----------------------------------------------------------------------------

Settled(k) == Enabled(k, page) /\ requests[k] = <<>>

\* A page that has nothing under way shows what its query, its run and the
\* user's workspace say, unless an older request of a hook was answered last
\* (a run's detail never shows another run), or the token changed while a
\* detail, the settings or the feed were open: those are not reloaded by
\* onSwitched().  The wizard for an empty workspace only pops up in one with
\* runs on metrics of before a switch.  Nothing is said of a session whose
\* token was replaced and whose user was not (WorkspaceSwitcher.tsx 50-51).
ShownIsCurrent ==
    session.at = "in" /\ session.user = session.token =>
        /\ \A k \in Loads : Settled(k) /\ k \notin crossed \cup (late \ {"detail"}) =>
               \/ content[k] = Nothing
               \/ /\ content[k].ws = session.token /\ content[k].key = KeyOf(k, page)
                  /\ content[k].with \in {None, session.token}
        /\ "feed" \notin crossed => feed.open \in {None, session.token} /\ feed.events \subseteq {session.token}
        /\ wizard.misled => "app" \in crossed

\* Profiles that are saved to a workspace were loaded from it, unless the
\* token changed while the settings were open: the form keeps the profiles of
\* the workspace that was left (SettingsView.tsx 66-71, 263).
SavedAtHome == saved.to # saved.from => saved.across
=============================================================================
