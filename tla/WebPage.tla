------------------------------ MODULE WebPage -------------------------------
(***************************************************************************)
(* The references page of the web interface, in one browser tab: what the  *)
(* person types and presses, the requests under way, what is shown, and    *)
(* the session with the identity provider that gives requests their token. *)
(*                                                                         *)
(* The handlers are asynchronous and share one `loading` flag; the forms   *)
(* are mounted with their tab and lose what they hold when it is left.     *)
(* Time is counted in half minutes: `life` is how long a Keycloak token    *)
(* has left, and a request is answered within one.  Styles, wording and    *)
(* the fields of a reference are left out; a filter is part of its query.  *)
(***************************************************************************)
EXTENDS Naturals, Sequences, FiniteSetsExt, SequencesExt

CONSTANTS
    Providers,      \* how the deployment may sign people in
    Query,          \* what a person may search for
    Malformed,      \* the queries the API refuses
    Total,          \* [Query -> the number of references it matches]
    Identifier,     \* what a person may look up
    Finds,          \* [Identifier -> the reference it finds, or NoReference]
    Names,          \* [reference -> the identifiers it is returned with]
    NoReference,
    PageSize,       \* SearchService.PAGE_SIZE, RESULTS_PER_PAGE
    Window,         \* SearchService.MAX_RESULT_WINDOW
    MaxBulk,        \* bound on identifiers added to the bulk lookup
    MaxRequests,    \* bound on requests
    MaxLoads,       \* bound on loads of the page
    MaxFaults       \* bound on failures of the network and the provider

WebPageAssumption ==
    /\ Providers \subseteq {"local", "azure", "keycloak"}
    /\ Total \in [Query -> Nat]
    /\ PageSize \in Nat \ {0} /\ Window % PageSize = 0
    /\ \A n \in {MaxBulk, MaxRequests, MaxLoads, MaxFaults} : n \in Nat

VARIABLES
    provider,   \* AUTH_PROVIDER, for good
    session,    \* what the provider's library keeps in local storage
    page,       \* the state of the page and of its forms
    requests,   \* requests under way
    leaving,    \* a redirect has been asked for
    sent,       \* requests so far
    loads,      \* loads so far
    faults      \* failures so far

vars == <<provider, session, page, requests, leaving, sent, loads, faults>>

-----------------------------------------------------------------------------
(* Data *)

Empty == ""

\* The page as the browser loads it: nothing is mounted, the handlers' state
\* is useState's.  A value that may be null is a sequence of at most one.
Blank == [at |-> "loading", tab |-> "lookup", id |-> Empty, bulk |-> <<>>,
          external |-> <<>>, query |-> Empty, result |-> <<>>, looked |-> <<>>,
          found |-> <<>>, params |-> <<>>, errors |-> {}, loading |-> FALSE]

SignedOut == [is |-> "out", life |-> 0, refresh |-> FALSE]

Fault == faults < MaxFaults /\ faults' = faults + 1

\* reachablePageCount.
ReachablePages(total) == (Min({total, Window}) + PageSize - 1) \div PageSize

\* Overlays cover the forms unless the person is signed in.
Usable == page.at = "ready" /\ (provider = "local" \/ session.is = "in")

\* The buttons of the forms are disabled while a request is under way.
Enabled == Usable /\ ~page.loading

Init ==
    /\ provider \in Providers
    /\ session = SignedOut
    /\ page = Blank
    /\ requests = {}
    /\ leaving = FALSE
    /\ sent = 0 /\ loads = 1 /\ faults = 0

-----------------------------------------------------------------------------
(* Loading the page, signing in and out *)

\* The browser goes elsewhere and comes back: nothing of the page is kept.
Navigate(s) ==
    /\ loads < MaxLoads
    /\ loads' = loads + 1
    /\ session' = s
    /\ page' = Blank
    /\ requests' = {}
    /\ leaving' = FALSE
    /\ UNCHANGED <<provider, sent, faults>>

\* RootLayout: once the configuration is there the provider is mounted, and
\* with it the page.  A stored user who has expired is not authenticated.
SetupAuth ==
    /\ page.at = "loading"
    /\ page' = [page EXCEPT !.at = "ready"]
    /\ session' = [session EXCEPT
          !.is = IF @ = "in" /\ provider = "keycloak" /\ session.life = 0
                 THEN "out" ELSE @]
    /\ UNCHANGED <<provider, requests, leaving, sent, loads, faults>>

\* getRuntimeConfig throws: setupAuth ends, and nothing is mounted.
SetupFails ==
    /\ page.at = "loading"
    /\ Fault
    /\ page' = [page EXCEPT !.at = "blank"]
    /\ UNCHANGED <<provider, session, requests, leaving, sent, loads>>

Reload == page.at # "loading" /\ Navigate(session)

\* The provider sends the person back to the page with or without a session;
\* Keycloak may or may not issue a refresh token.
SignIn ==
    /\ page.at = "ready" /\ provider # "local" /\ session.is = "out"
    /\ \E s \in {SignedOut} \cup [is : {"arriving"}, life : {2}, refresh : BOOLEAN] :
          Navigate(s)

\* The library has handled the redirect.
Arrive ==
    /\ page.at = "ready" /\ session.is = "arriving"
    /\ session' = [session EXCEPT !.is = "in"]
    /\ UNCHANGED <<provider, page, requests, leaving, sent, loads, faults>>

SignOut == page.at = "ready" /\ session.is = "in" /\ Navigate(SignedOut)

\* The redirect getToken asked for takes place.
Redirect ==
    /\ leaving
    /\ Navigate([session EXCEPT !.is = "arriving", !.life = 2])

\* Half a minute passes.
Tick ==
    /\ provider = "keycloak" /\ session.life > 0
    /\ \A r \in requests : r.at = "sent" => r.age = 0
    /\ session' = [session EXCEPT !.life = @ - 1]
    /\ requests' = {[r EXCEPT !.life = IF @ > 0 THEN @ - 1 ELSE 0,
                              !.age = IF r.at = "sent" THEN 1 ELSE 0] : r \in requests}
    /\ UNCHANGED <<provider, page, leaving, sent, loads, faults>>

-----------------------------------------------------------------------------
(* Requests *)

\* A token good for another half minute is sent as it is.
FreshUntilExpired == session.life > 0
Fresh == session.life > 1

\* getToken, up to its first await: a request goes without a token, with the
\* one at hand, or waits for the library to renew it.
GetToken ==
    CASE provider = "local" -> [at |-> "sent", bearer |-> FALSE, life |-> 0]
      [] provider = "azure" -> [at |-> "renewing", bearer |-> FALSE, life |-> 0]
      [] Fresh -> [at |-> "sent", bearer |-> TRUE, life |-> session.life]
      [] session.refresh -> [at |-> "renewing", bearer |-> FALSE, life |-> 0]
      [] OTHER -> [at |-> "sent", bearer |-> FALSE, life |-> 0]

\* fetchReferences, searchReferences.
Ask(kind, arg) ==
    /\ sent < MaxRequests
    /\ sent' = sent + 1
    /\ requests' = requests \cup
          {[n |-> sent, kind |-> kind, arg |-> arg, age |-> 0] @@ GetToken}

\* acquireTokenSilent, signinSilent.
Renew ==
    /\ \E r \in requests :
          /\ r.at = "renewing"
          /\ requests' = (requests \ {r}) \cup
                {[r EXCEPT !.at = "sent", !.bearer = TRUE, !.life = 2]}
    /\ session' = [session EXCEPT !.life = 2]
    /\ UNCHANGED <<provider, page, leaving, sent, loads, faults>>

\* Without a token the request is sent all the same; for Azure a redirect has
\* been started.
RenewFails ==
    /\ Fault
    /\ \E r \in requests :
          /\ r.at = "renewing"
          /\ requests' = (requests \ {r}) \cup {[r EXCEPT !.at = "sent"]}
    /\ leaving' = (leaving \/ provider = "azure")
    /\ UNCHANGED <<provider, session, page, sent, loads>>

-----------------------------------------------------------------------------
(* The forms *)

\* The effect of MultiReferenceLookupForm: the identifier added last goes to
\* the end of what the form holds.
WithLast(bulk, external) ==
    IF external = <<>> THEN bulk ELSE Append(bulk, Last(external))

\* Switching tabs mounts the other tab's forms afresh.
SelectTab(t) ==
    /\ Usable
    /\ page' = IF t = page.tab THEN page
               ELSE [page EXCEPT !.tab = t, !.id = Empty, !.query = Empty,
                        !.bulk = IF t = "lookup" THEN WithLast(<<>>, page.external)
                                 ELSE <<>>]
    /\ UNCHANGED <<provider, session, requests, leaving, sent, loads, faults>>

TypeIdentifier(i) ==
    /\ Usable /\ page.tab = "lookup"
    /\ page' = [page EXCEPT !.id = i]
    /\ UNCHANGED <<provider, session, requests, leaving, sent, loads, faults>>

ClearBulk ==
    /\ Enabled /\ page.tab = "lookup"
    /\ page' = [page EXCEPT !.bulk = <<>>]
    /\ UNCHANGED <<provider, session, requests, leaving, sent, loads, faults>>

TypeQuery(q) ==
    /\ Usable /\ page.tab = "search"
    /\ page' = [page EXCEPT !.query = q]
    /\ UNCHANGED <<provider, session, requests, leaving, sent, loads, faults>>

\* handleAddToBulk, and the effect that appends to the other form.
AddToBulk ==
    /\ Enabled /\ page.tab = "lookup" /\ page.id # Empty
    /\ Len(page.external) < MaxBulk
    /\ LET external == Append(page.external, page.id)
       IN  page' = [page EXCEPT !.external = external,
                                !.bulk = WithLast(@, external), !.id = Empty]
    /\ UNCHANGED <<provider, session, requests, leaving, sent, loads, faults>>

\* handleLookup, handleBulkLookup, up to the await.
Lookup(ids) ==
    /\ page' = [page EXCEPT !.errors = {}, !.result = <<>>, !.loading = TRUE,
                            !.looked = ids]
    /\ Ask("lookup", ids)
    /\ UNCHANGED <<provider, session, leaving, loads, faults>>

SubmitLookup ==
    Enabled /\ page.tab = "lookup" /\ page.id # Empty /\ Lookup(<<page.id>>)

SubmitBulk ==
    Enabled /\ page.tab = "lookup" /\ page.bulk # <<>> /\ Lookup(page.bulk)

\* performSearch and handleSearch, up to the await: the query as it now stands
\* in the form.
PerformSearch(n) ==
    LET p == [query |-> page.query, page |-> n]
    IN  /\ page' = [page EXCEPT !.errors = {}, !.found = <<>>, !.loading = TRUE,
                                !.params = <<p>>]
        /\ Ask("search", p)
        /\ UNCHANGED <<provider, session, leaving, loads, faults>>

SubmitSearch ==
    Enabled /\ page.tab = "search" /\ page.query # Empty /\ PerformSearch(1)

\* The pager is shown with a result; its buttons know the result's page.
PagerShownWhileLoading(n) ==
    /\ Usable /\ page.tab = "search"
    /\ page.params # <<>> /\ page.params[1].query \in Query
    /\ n \in {page.params[1].page - 1, page.params[1].page + 1}
    /\ n \in 1..ReachablePages(Total[page.params[1].query])
PagerOffers(n) ==
    /\ Enabled /\ page.tab = "search" /\ page.found # <<>>
    /\ n \in {page.found[1].page - 1, page.found[1].page + 1}
    /\ n \in 1..ReachablePages(page.found[1].total)

TurnPage == \E n \in 1..(Window + 1) : PagerOffers(n) /\ PerformSearch(n)

-----------------------------------------------------------------------------
(* The API's answers *)

\* verify_token: a local deployment asks for none.
Refused(r) == provider # "local" /\ ~(r.bearer /\ r.life > 0)

\* The route's query parameters, and the query parser.
Invalid(p) ==
    p.query = Empty \/ p.query \in Malformed \/ p.page \notin 1..(Window \div PageSize)

SearchResult(p) == [query |-> p.query, page |-> p.page, total |-> Total[p.query]]

References(ids) == {Finds[ids[k]] : k \in DOMAIN ids} \ {NoReference}

Failed(type) == [page EXCEPT !.loading = FALSE, !.errors = @ \cup {type}]

\* apiGet, the rest of useApi's functions, and the handlers after the await.
Answered(r) ==
    CASE Refused(r) -> Failed("generic")
      [] r.kind = "search" /\ Invalid(r.arg) -> Failed("validation")
      [] r.kind = "search" /\ ~Invalid(r.arg) ->
            [page EXCEPT !.loading = FALSE, !.found = <<SearchResult(r.arg)>>]
      [] r.kind = "lookup" /\ References(r.arg) = {} -> Failed("generic")
      [] OTHER -> [page EXCEPT !.loading = FALSE, !.result = <<References(r.arg)>>]

Answer ==
    /\ \E r \in requests :
          /\ r.at = "sent"
          /\ page' = Answered(r)
          /\ requests' = requests \ {r}
    /\ UNCHANGED <<provider, session, leaving, sent, loads, faults>>

\* The network fails, or the API does.
AnswerFails ==
    /\ Fault
    /\ \E r \in requests :
          /\ r.at = "sent"
          /\ page' = Failed("generic")
          /\ requests' = requests \ {r}
    /\ UNCHANGED <<provider, session, leaving, sent, loads>>

\* BaseReferenceDisplay: the identifiers listed as not found.
Unfound ==
    IF page.result = <<>> THEN {}
    ELSE {i \in Range(page.looked) : \A r \in page.result[1] : i \notin Names[r]}

Next ==
    \/ SetupAuth \/ SetupFails \/ Reload \/ SignIn \/ Arrive \/ SignOut
    \/ Redirect \/ Tick \/ Renew \/ RenewFails
    \/ \E t \in {"lookup", "search"} : SelectTab(t)
    \/ \E i \in Identifier : TypeIdentifier(i)
    \/ \E q \in Query \cup {Empty} : TypeQuery(q)
    \/ ClearBulk \/ AddToBulk \/ SubmitLookup \/ SubmitBulk \/ SubmitSearch
    \/ TurnPage \/ Answer \/ AnswerFails

Spec == Init /\ [][Next]_vars

-----------------------------------------------------------------------------
(* Properties *)

\* What is shown answers what was asked last: a page of results is the page
\* last asked for, references are those of the identifiers last looked up, an
\* identifier is listed as not found only if no reference shown bears it, and
\* the spinner is there exactly while an answer is awaited (page.tsx).
ShownIsAsked ==
    /\ page.found # <<>> => page.found = <<SearchResult(page.params[1])>>
    /\ page.result # <<>> => page.result = <<References(page.looked)>>
    /\ \A i \in Identifier :
          (Finds[i] # NoReference /\ i \in Names[Finds[i]]) => i \notin Unfound
    /\ page.loading <=> requests # {}

\* A token that is attached to a request is still good when the request
\* arrives, however it ages on the way (KeycloakAuthBridge.getToken).
TokenGoodOnArrival == \A r \in requests : r.bearer => r.life > 0

=============================================================================
