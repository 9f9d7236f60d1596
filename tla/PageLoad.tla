------------------------------- MODULE PageLoad -------------------------------
(***************************************************************************)
(* What WPEQtView loads and what it tells the application about it: the    *)
(* url property and loadHtml(), the web view that is created later than    *)
(* both, and the loadingChanged() signals made from WebKit's load-changed  *)
(* and load-failed.                                                        *)
(*                                                                         *)
(* WebKit's loader is external.  It settles loads in the order they were   *)
(* asked for; for a failed load it emits load-failed and, in the same      *)
(* call, load-changed(FINISHED).  Everything runs on the GUI thread, so    *)
(* only the application's loadingChanged() handler can act between the     *)
(* two: with Reentrant it may call setUrl() or loadHtml() there.           *)
(***************************************************************************)
EXTENDS Naturals, Sequences, FiniteSets

CONSTANTS
    Url,         \* addresses
    Html,        \* stands for inline content (loadHtml(), an error page)
    None,        \* an empty m_url, a page without address, no load
    MaxLoads,    \* bound: loads asked of WebKit
    Reentrant    \* the application acts from inside its handler

ASSUME PageLoadAssumption ==
    /\ MaxLoads \in Nat
    /\ Reentrant \in BOOLEAN
    /\ Html \notin Url
    /\ None \notin Url \union {Html} \union Nat

VARIABLES
    m_url,         \* the view's m_url
    m_html,        \* m_html is not empty
    m_errorOccured,
    webView,       \* createWebView() has run
    content,       \* WebKit: what each load asked for, oldest first
    phase,         \* WebKit: how far each load has come
    cancelled,     \* WebKit: loads that will end with ERROR_CANCELLED
    failing,       \* WebKit: the load inside load-failed, or None
    reports,       \* the statuses that loadingChanged() gave for each load
    wanted         \* the last address set on the url property, until the
                   \* page itself moves on

viewVars == <<m_url, m_html, m_errorOccured, webView>>
loaderVars == <<content, phase, cancelled, failing>>
vars == <<viewVars, loaderVars, reports, wanted>>

Phase == {"requested", "started", "committed", "finished", "failed", "dropped"}
Settled == {"finished", "failed", "dropped"}
Status == {"Started", "Succeeded", "Failed", "Stopped"}
Terminal == Status \ {"Started"}

Load == 1..Len(content)

(* Type correctness, with the three per-load sequences in step. *)
TypeOK ==
    /\ m_url \in Url \union {None}
    /\ m_html \in BOOLEAN
    /\ m_errorOccured \in BOOLEAN
    /\ webView \in BOOLEAN
    /\ content \in Seq(Url \union {Html})
    /\ phase \in [Load -> Phase]
    /\ cancelled \subseteq Load
    /\ failing \in Load \union {None}
    /\ reports \in [Load -> Seq(Status)]
    /\ wanted \in Url \union {None}

Init ==
    /\ m_url = None
    /\ m_html = FALSE
    /\ m_errorOccured = FALSE
    /\ webView = FALSE
    /\ content = <<>>
    /\ phase = <<>>
    /\ cancelled = {}
    /\ failing = None
    /\ reports = <<>>
    /\ wanted = None

-----------------------------------------------------------------------------
(***************************************************************************)
(* WebKit's loader, as far as the view can tell.                           *)
(***************************************************************************)

Unsettled == {n \in Load : phase[n] \notin Settled}

(* A new load supersedes every load still under way. *)
RequestLoad(c) ==
    /\ Len(content) < MaxLoads
    /\ content' = Append(content, c)
    /\ phase' = Append(phase, "requested")
    /\ reports' = Append(reports, <<>>)
    /\ cancelled' = cancelled \union Unsettled

(* What WebKit was last asked to show. *)
Newest == IF content = <<>> THEN None ELSE content[Len(content)]

(* The load whose events come next. *)
IsCurrent(n) ==
    /\ failing = None
    /\ n \in Unsettled
    /\ \A k \in Unsettled : n <= k

(* The application runs between WebKit's signals, or inside its handler. *)
AppRuns == failing = None \/ Reentrant

(* loadingChanged(). *)
Announce(n, status) == reports' = [reports EXCEPT ![n] = Append(@, status)]

-----------------------------------------------------------------------------
(***************************************************************************)
(* The application's calls.                                                *)
(***************************************************************************)

(* setUrl() with another url than the last one set. *)
SetUrl(u) ==
    /\ AppRuns
    /\ u # m_url
    /\ m_errorOccured' = FALSE
    /\ m_url' = u
    /\ wanted' = u
    /\ \/ webView /\ RequestLoad(u)
       \/ ~webView /\ UNCHANGED <<content, phase, cancelled, reports>>
    /\ UNCHANGED <<m_html, webView, failing>>

(* setUrl() with the url that m_url still holds returns at once. *)
SetUrlAgain(u) ==
    /\ AppRuns
    /\ u = m_url
    /\ wanted' = u
    /\ UNCHANGED <<viewVars, loaderVars, reports>>

(* Faulty variant: loadHtml() stores its argument in m_url. *)
LoadHtmlIntoUrl ==
    /\ AppRuns
    /\ m_html' = TRUE
    /\ m_url' = Html
    /\ m_errorOccured' = FALSE
    /\ wanted' = None
    /\ \/ webView /\ RequestLoad(Html)
       \/ ~webView /\ UNCHANGED <<content, phase, cancelled, reports>>
    /\ UNCHANGED <<webView, failing>>

LoadHtml ==
    /\ AppRuns
    /\ m_html' = TRUE
    /\ m_errorOccured' = FALSE
    /\ wanted' = None
    /\ \/ webView /\ RequestLoad(Html)
       \/ ~webView /\ UNCHANGED <<content, phase, cancelled, reports>>
    /\ UNCHANGED <<m_url, webView, failing>>

(* createWebView(): a url goes before html. *)
CreateWebView ==
    /\ ~webView
    /\ webView' = TRUE
    /\ \/ m_url # None /\ RequestLoad(m_url)
       \/ m_url = None /\ m_html /\ RequestLoad(Html)
       \/ /\ m_url = None
          /\ ~m_html
          /\ UNCHANGED <<content, phase, cancelled, reports>>
    /\ UNCHANGED <<m_url, m_html, m_errorOccured, failing, wanted>>

(* goBack(), goForward(), and links of the page itself: WebKit loads without
   a word to m_url. *)
Navigate(u) ==
    /\ AppRuns
    /\ webView
    /\ RequestLoad(u)
    /\ wanted' = None
    /\ UNCHANGED <<viewVars, failing>>

Reload ==
    /\ AppRuns
    /\ webView
    /\ Newest # None
    /\ RequestLoad(Newest)
    /\ UNCHANGED <<viewVars, failing, wanted>>

(* stop() cancels what is under way. *)
Stop ==
    /\ AppRuns
    /\ webView
    /\ cancelled' = cancelled \union Unsettled
    /\ UNCHANGED <<viewVars, content, phase, failing, reports, wanted>>

-----------------------------------------------------------------------------
(***************************************************************************)
(* WebKit's signals and the view's handlers.                               *)
(***************************************************************************)

(* load-changed(STARTED). *)
LoadStarted(n) ==
    /\ IsCurrent(n)
    /\ phase[n] = "requested"
    /\ phase' = [phase EXCEPT ![n] = "started"]
    /\ Announce(n, "Started")
    /\ UNCHANGED <<viewVars, content, cancelled, failing, wanted>>

(* load-changed(COMMITTED) sets no status. *)
LoadCommitted(n) ==
    /\ IsCurrent(n)
    /\ phase[n] = "started"
    /\ phase' = [phase EXCEPT ![n] = "committed"]
    /\ UNCHANGED <<viewVars, content, cancelled, failing, reports,
                   wanted>>

(* A load that was superseded before it started leaves no trace. *)
LoadDropped(n) ==
    /\ IsCurrent(n)
    /\ phase[n] = "requested"
    /\ n \in cancelled
    /\ phase' = [phase EXCEPT ![n] = "dropped"]
    /\ UNCHANGED <<viewVars, content, cancelled, failing, reports,
                   wanted>>

(* Faulty variant: FINISHED leaves the flag set. *)
NotifyFinishedKeepingFlag(n) ==
    /\ \/ ~m_errorOccured /\ Announce(n, "Succeeded")
       \/ m_errorOccured /\ UNCHANGED reports
    /\ UNCHANGED m_errorOccured

(* The view's part of load-changed(FINISHED). *)
NotifyFinished(n) ==
    /\ \/ ~m_errorOccured /\ Announce(n, "Succeeded")
       \/ m_errorOccured /\ UNCHANGED reports
    /\ m_errorOccured' = FALSE

(* load-changed(FINISHED) of a load that did not fail; a cancellation may
   come too late for it. *)
LoadFinished(n) ==
    /\ IsCurrent(n)
    /\ phase[n] = "committed"
    /\ phase' = [phase EXCEPT ![n] = "finished"]
    /\ NotifyFinished(n)
    /\ UNCHANGED <<m_url, m_html, webView, content, cancelled,
                   failing, wanted>>

(* Faulty variant: load-failed reports but sets no flag. *)
NotifyFailedWithoutFlag(n) ==
    /\ UNCHANGED m_errorOccured
    /\ Announce(n, IF n \in cancelled THEN "Stopped" ELSE "Failed")

(* load-failed: the view sets the flag and reports. *)
NotifyFailed(n) ==
    /\ m_errorOccured' = TRUE
    /\ Announce(n, IF n \in cancelled THEN "Stopped" ELSE "Failed")

LoadFailed(n) ==
    /\ IsCurrent(n)
    /\ phase[n] \in {"started", "committed"}
    /\ phase' = [phase EXCEPT ![n] = "failed"]
    /\ failing' = n
    /\ NotifyFailed(n)
    /\ UNCHANGED <<m_url, m_html, webView, content, cancelled, wanted>>

(* WebKit's own handler of load-failed.  The view's handler has no return
   value where the signal expects one, so whether WebKit's handler runs and
   shows an error page is the build's choice. *)
ShowErrorPage ==
    /\ failing # None
    /\ failing \notin cancelled
    /\ Unsettled = {}
    /\ RequestLoad(Html)
    /\ wanted' = None
    /\ UNCHANGED <<viewVars, failing>>

(* The load-changed(FINISHED) that ends the emission for a failed load. *)
FailedLoadFinished ==
    /\ failing # None
    /\ NotifyFinished(failing)
    /\ failing' = None
    /\ UNCHANGED <<m_url, m_html, webView, content, phase, cancelled,
                   wanted>>

-----------------------------------------------------------------------------
LoaderStep ==
    \/ \E n \in Load :
          \/ LoadStarted(n)
          \/ LoadCommitted(n)
          \/ LoadDropped(n)
          \/ LoadFinished(n)
          \/ LoadFailed(n)
    \/ FailedLoadFinished

Next ==
    \/ \E u \in Url : SetUrl(u) \/ SetUrlAgain(u) \/ Navigate(u)
    \/ LoadHtml
    \/ CreateWebView
    \/ Reload
    \/ Stop
    \/ LoaderStep
    \/ ShowErrorPage

Spec == Init /\ [][Next]_vars

(* WebKit settles every load one way or the other. *)
FairSpec == Spec /\ WF_vars(LoaderStep)

-----------------------------------------------------------------------------
(***************************************************************************)
(* Properties.                                                             *)
(***************************************************************************)

(* m_errorOccured never outlives the signal emission that set it, so one
   load's failure cannot swallow the success of a later one. *)
ErrorFlagScoped == m_errorOccured => failing # None

(* The application hears of each load what happened to it, once and in
   order; the handlers share a single flag to tell a finished load from the
   FINISHED that closes a failed one. *)
ReportsMatchOutcome ==
    \A n \in Load :
        CASE phase[n] \in {"requested", "dropped"} -> reports[n] = <<>>
          [] phase[n] \in {"started", "committed"} -> reports[n] = <<"Started">>
          [] phase[n] = "finished" -> reports[n] = <<"Started", "Succeeded">>
          [] phase[n] = "failed" ->
                reports[n] \in {<<"Started", "Failed">>, <<"Started", "Stopped">>}

(* WPEQtViewLoadRequest.cpp: LoadSucceededStatus means that the page was
   loaded successfully; a load that failed never gets it. *)
NoSuccessAfterFailure ==
    \A n \in Load :
        phase[n] = "failed" =>
            \A i \in 1..Len(reports[n]) : reports[n][i] # "Succeeded"

(* WPEQtView.cpp on the url property: changing it triggers loading the new
   content.  Once a web view exists, the address last set is the one WebKit
   was last asked to load. *)
SetUrlTakesEffect == webView /\ wanted # None => Newest = wanted

(* Every load that was announced ends with a report of its outcome. *)
LoadsSettle ==
    \A n \in 1..MaxLoads :
        (n \in Load /\ phase[n] = "started") ~>
            /\ n \in Load
            /\ \E i \in 1..Len(reports[n]) : reports[n][i] \in Terminal
=============================================================================
