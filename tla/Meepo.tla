------------------------------- MODULE Meepo --------------------------------
(***************************************************************************)
(* The login to the "Meepo" service: Meepo (meepo.cc) and the part of      *)
(* ChromeoverLoginPage that starts it and listens to it.                   *)
(*                                                                         *)
(* A start logs in, asks for the first page of the user's sites, and for   *)
(* every page asks for the downloads of the sites and for the next page.   *)
(* Requests run in parallel and are never cancelled, so replies come in    *)
(* any order, each may be a network error, and those of an attempt that    *)
(* was given up arrive during the next one.                                *)
(***************************************************************************)
EXTENDS Integers, SequencesExt, BagsExt

CONSTANTS
  Site,           \* site ids
  Accounts,       \* site lists a user may have: sequences of pages of sites
  MaxAttempts,    \* bound: how often the user tries to log in
  MaxMetrics      \* bound: metrics sent while the token is known

ASSUME MeepoAssumption ==
  /\ \A a \in Accounts : a \in Seq(Seq(Site)) /\ a # <<>>
  /\ MaxAttempts \in Nat /\ MaxMetrics \in Nat

VARIABLES
  pages,              \* pages[p]: page p of this user's site list
  net,                \* bag of requests whose reply is still to come
  api_token_,         \* a token has been received
  sites_,             \* Meepo::sites_, ids only
  images,             \* how often each site's downloads were added to it
  error_,
  sites_remaining_,
  started, finished,  \* ChromeoverLoginPage's flags
  wizardSites,        \* sites handed to the wizard by handleMeepoFinished,
  wizardImages,       \*   with their downloads
  nexts,              \* calls of wizard()->next() by handleMeepoFinished
  attempt,            \* attempts so far
  metrics,            \* metrics sent so far
  lost,               \* downloads requests of this attempt that failed
  hasty               \* history: the page was re-armed with requests out

meepoVars == <<api_token_, sites_, images, error_, sites_remaining_>>
pageVars == <<started, finished, wizardSites, wizardImages, nexts, hasty>>
boundVars == <<attempt, metrics>>
vars == <<pages, net, meepoVars, pageVars, boundVars, lost>>

\* A request: what it asks for, of which page or site, with or without a
\* token, and in which attempt it was sent.
Request(kind, arg) ==
  [kind |-> kind, arg |-> arg, token |-> api_token_, attempt |-> attempt]

NoImages == [s \in Site |-> 0]

Init ==
  /\ pages \in Accounts
  /\ net = EmptyBag
  /\ api_token_ = FALSE /\ sites_ = <<>> /\ images = NoImages
  /\ error_ = "none" /\ sites_remaining_ = 0
  /\ started = FALSE /\ finished = FALSE
  /\ wizardSites = <<>> /\ wizardImages = NoImages /\ nexts = 0
  /\ attempt = 0 /\ metrics = 0 /\ lost = 0 /\ hasty = FALSE

-----------------------------------------------------------------------------
(* Starting                                                                *)

\* clear()
Clear ==
  /\ api_token_' = FALSE
  /\ sites_' = <<>> /\ images' = NoImages
  /\ error_' = "none"
  /\ sites_remaining_' = 0

\* start() / startGoogle(): clear, then ask for a token.
StartMeepo ==
  /\ attempt < MaxAttempts
  /\ attempt' = attempt + 1
  /\ Clear
  /\ lost' = 0
  /\ net' = BagAdd(net, [kind |-> "auth", arg |-> 0, token |-> FALSE,
                         attempt |-> attempt + 1])

\* validatePage(): Next on the login page.
ValidatePage ==
  /\ ~finished /\ ~started
  /\ StartMeepo
  /\ started' = TRUE
  /\ UNCHANGED <<finished, wizardSites, wizardImages, nexts, metrics, hasty>>

\* Mutant of HandleGoogleSigninFinished: a login with every id token.
HandleGoogleSigninFinishedAlways ==
  /\ StartMeepo
  /\ started' = TRUE
  /\ UNCHANGED <<finished, wizardSites, wizardImages, nexts, metrics, hasty>>

\* handleGoogleSigninFinished(): the id token arrived, on whatever page.
HandleGoogleSigninFinished ==
  /\ ~started
  /\ StartMeepo
  /\ started' = TRUE
  /\ UNCHANGED <<finished, wizardSites, wizardImages, nexts, metrics, hasty>>

\* SendMetric(), by any page, once there is a token.
SendMetric ==
  /\ api_token_ /\ metrics < MaxMetrics
  /\ metrics' = metrics + 1
  /\ net' = BagAdd(net, Request("activity", 0))
  /\ UNCHANGED <<meepoVars, pageVars, attempt, lost>>

-----------------------------------------------------------------------------
(* The signals and their handlers on the login page                        *)

\* The logins, by attempt, that wait for replies among those of `requests`.
Waiting(requests) ==
  {r.attempt : r \in {q \in BagToSet(requests) : q.kind # "activity"}}

\* fail() and handleMeepoFailed(): without sites the wizard goes to the error
\* page; anything else re-arms the login page, whatever is still out.
Fail(error) ==
  /\ error_' = error
  /\ \/ /\ error = "no sites"
        /\ finished' = TRUE
        /\ UNCHANGED <<started, hasty>>
     \/ /\ error # "no sites"
        /\ started' = FALSE
        /\ hasty' = (hasty \/ Waiting(net') # {})
        /\ UNCHANGED finished
  /\ UNCHANGED <<wizardSites, wizardImages, nexts>>

\* handleMeepoFinished(): hand over the sites, then next().
HandleMeepoFinished ==
  /\ wizardSites' = sites_ /\ wizardImages' = images'
  /\ finished' = TRUE
  /\ nexts' = nexts + 1
  /\ UNCHANGED <<started, hasty>>

-----------------------------------------------------------------------------
(* Replies (dispatchReply)                                                 *)

\* A reply to request r arrives; the server refuses requests without a token.
Reply(r, kind) ==
  /\ BagIn(r, net) /\ r.kind = kind
  /\ r.token \/ kind = "auth"

HandleAuthReply(r) ==
  /\ Reply(r, "auth")
  /\ \/ /\ api_token_' = TRUE
        /\ net' = BagAdd(BagRemove(net, r),
                         [Request("sites", 1) EXCEPT !.token = TRUE])
        /\ UNCHANGED <<error_, pageVars>>
     \/ /\ api_token_' = FALSE           \* the reply holds no token
        /\ net' = BagRemove(net, r)
        /\ Fail("invalid API token")
  /\ UNCHANGED <<sites_, images, sites_remaining_, boundVars, lost>>

\* A page of sites arrives: `counted` requests are expected from now on, and
\* page r.arg + 1 is asked for when there is `more`.
SitesReply(r, counted, more) ==
  LET all == sites_ \o pages[r.arg]
      downloads == ToBag([k \in 1 .. Len(all) |-> Request("downloads", all[k])])
      nextPage == IF more THEN SetToBag({Request("sites", r.arg + 1)}) ELSE EmptyBag
  IN /\ sites_' = all
     /\ sites_remaining_' = sites_remaining_ + counted
     /\ IF sites_remaining_' = 0
          THEN /\ net' = BagRemove(net, r)
               /\ Fail("no sites")
          ELSE /\ net' = BagRemove(net, r) (+) downloads (+) nextPage
               /\ UNCHANGED <<error_, pageVars>>
     /\ UNCHANGED <<api_token_, images, boundVars, lost>>

\* handleSitesReply(): sites_.size() is added, the sites of earlier pages
\* included, and all of them are asked for again.
HandleSitesReply(r) ==
  /\ Reply(r, "sites")
  /\ SitesReply(r, Len(sites_) + Len(pages[r.arg]), r.arg < Len(pages))

\* The downloads of a site in the list arrive; finished() at `last`.
DownloadsReply(r, last) ==
  /\ images' = [images EXCEPT ![r.arg] = @ + 1]
  /\ sites_remaining_' = sites_remaining_ - 1
  /\ IF sites_remaining_' \in last THEN HandleMeepoFinished
                                   ELSE UNCHANGED pageVars
  /\ UNCHANGED error_

\* Mutants of HandleDownloadsReply: one site too early; unknown sites counted.
HandleDownloadsReplyEarly(r) ==
  /\ Reply(r, "downloads")
  /\ net' = BagRemove(net, r)
  /\ DownloadsReply(r, {0, 1})
  /\ UNCHANGED <<api_token_, sites_, boundVars, lost>>
HandleDownloadsReplyUnknown(r) ==
  /\ Reply(r, "downloads")
  /\ net' = BagRemove(net, r)
  /\ DownloadsReply(r, {0})
  /\ UNCHANGED <<api_token_, sites_, boundVars, lost>>

\* handleDownloadsReply(): the links of site r.arg.
HandleDownloadsReply(r) ==
  /\ Reply(r, "downloads")
  /\ net' = BagRemove(net, r)
  /\ IF Contains(sites_, r.arg)
       THEN DownloadsReply(r, {0})
       ELSE Fail("site not found") /\ UNCHANGED <<images, sites_remaining_>>
  /\ UNCHANGED <<api_token_, sites_, boundVars, lost>>

HandleMetricsReply(r) ==
  /\ Reply(r, "activity")
  /\ net' = BagRemove(net, r)
  /\ UNCHANGED <<meepoVars, pageVars, boundVars, lost>>

\* Mutant of NetworkError: the error is only logged.
NetworkErrorLogged(r) ==
  /\ BagIn(r, net)
  /\ net' = BagRemove(net, r)
  /\ UNCHANGED <<meepoVars, pageVars, boundVars, lost>>

\* The reply is a network error, whatever was asked for.
NetworkError(r) ==
  /\ BagIn(r, net)
  /\ net' = BagRemove(net, r)
  /\ Fail("network error")
  /\ lost' = IF r.kind = "downloads" /\ r.attempt = attempt THEN lost + 1 ELSE lost
  /\ UNCHANGED <<api_token_, sites_, images, sites_remaining_, boundVars>>

DispatchReply(r) ==
  \/ HandleAuthReply(r) \/ HandleSitesReply(r) \/ HandleDownloadsReply(r)
  \/ HandleMetricsReply(r) \/ NetworkError(r)

-----------------------------------------------------------------------------
Replies == \E r \in BagToSet(net) : DispatchReply(r)

Next ==
  /\ \/ ValidatePage \/ HandleGoogleSigninFinished \/ SendMetric
     \/ Replies
  /\ UNCHANGED pages

Spec == Init /\ [][Next]_vars

\* Every request ends, in a reply or in an error.
FairSpec == Spec /\ WF_vars(Replies /\ UNCHANGED pages)

-----------------------------------------------------------------------------
(* Properties                                                              *)

\* Requests for downloads that are still out.
Outstanding == BagCardinality(
  [r \in {q \in BagToSet(net) : q.kind = "downloads"} |-> net[r]])

\* In a first attempt sites_remaining_ counts exactly the downloads requests
\* that are out or have failed, over any number of pages, although every page
\* asks again for the sites of the pages before it.  In later attempts, until
\* the page is passed, it is never negative, whatever replies of earlier ones
\* arrive (a reply for an unknown site is refused before it is counted).
CounterExact ==
  /\ attempt <= 1 => sites_remaining_ = Outstanding + lost
  /\ finished \/ sites_remaining_ >= 0

\* Requests of two logins are never out together, whether the user pressed Next,
\* an id token came, or both, unless the page was re-armed by a request that
\* failed while others were out (chromeover_login_page.cc:71: "don't allow
\* another launch of server interaction while another is running", which line
\* 154 does not wait for).
OneLogin == Cardinality(Waiting(net)) <= 1 \/ hasty

\* Every attempt ends: the page is passed or can be tried again.
Answered == started ~> finished \/ ~started

AllSites == UNION {ToSet(pages[p]) : p \in 1 .. Len(pages)}

\* The wizard has been handed the user's whole list, each site with its
\* downloads once.
Complete ==
  /\ ToSet(wizardSites) = AllSites
  /\ \A s \in AllSites : wizardImages[s] = 1

\* A first login of a user whose sites fit on one page moves the wizard on once,
\* with everything the server has (handleDownloadsReply emits finished() when
\* the last reply is in, in whatever order they come).
OnePageLogin ==
  attempt <= 1 /\ Len(pages) = 1 /\ nexts > 0 => nexts = 1 /\ Complete
=============================================================================
