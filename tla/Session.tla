------------------------------- MODULE Session -------------------------------
(***************************************************************************)
(* The browser session: the tabs of one browser share the two tokens kept  *)
(* in local storage; each tab has its own page, its own HTTP client and    *)
(* its own idea of who is signed in.  A call that comes back 401 queues    *)
(* behind the one refresh of its tab, and is sent again with the new token *)
(* or, when there is none, ends the session of that tab.                   *)
(*                                                                         *)
(* An access token and the refresh token delivered with it carry the same  *)
(* number; 0 stands for no token.  The server rotates: a refresh token is  *)
(* accepted once, and the one it returns replaces it.  It judges an access *)
(* token when the answer leaves, a step earlier or later being the same to *)
(* the client.  What runs in one turn of the event loop is one step.       *)
(***************************************************************************)
EXTENDS Naturals

CONSTANTS Tabs,
          Calls, TabOf,   \* the calls a tab can have outstanding
          MaxTokens       \* bound on the tokens the server hands out

ASSUME SessionAssumption == /\ TabOf \in [Calls -> Tabs]
                            /\ MaxTokens \in Nat

VARIABLES store,    \* local storage: the token pair, shared by the tabs
          issued,   \* tokens handed out so far
          live,     \* refresh tokens the server would still accept
          fresh,    \* access tokens the server would still accept
          me,       \* the tab shows a signed-in user
          loading,  \* the tab has not yet found out who is signed in
          expired,  \* sessionExpired: the login page says why it is shown
          header,   \* api.defaults: the token sent when there is none stored
          refresh,  \* the tab's refreshPromise
          call,     \* the tab's calls
          spent,    \* history: how often this document has presented a token
          out       \* history: the user signed out, and has not signed in since

server == <<issued, live, fresh>>
page   == <<me, loading, expired, header>>
vars   == <<store, server, page, refresh, call, spent, out>>

Tokens == 0..MaxTokens

NoRefresh == [token |-> 0, answered |-> FALSE, got |-> 0]
NoCall    == [phase |-> "idle", kind |-> "page", token |-> 0, retried |-> FALSE]

\* A page's own call, a reload of the user it shows, and the one at start-up.
Kinds == {"page", "me", "boot"}

RefreshRecord == [token : Tokens, answered : BOOLEAN, got : Tokens]
CallRecord    == [phase : {"idle", "sent", "waiting"}, kind : Kinds, token : Tokens,
                  retried : BOOLEAN]

CallsOf(t)   == {c \in Calls : TabOf[c] = t}
Waiting(t)   == {c \in CallsOf(t) : call[c].phase = "waiting"}
InFlight(t)  == refresh[t] # NoRefresh

Init ==
    /\ store = 0 /\ issued = 0 /\ live = {} /\ fresh = {}
    /\ me = [t \in Tabs |-> FALSE]
    /\ loading = [t \in Tabs |-> FALSE]
    /\ expired = [t \in Tabs |-> FALSE]
    /\ header = [t \in Tabs |-> 0]
    /\ refresh = [t \in Tabs |-> NoRefresh]
    /\ call = [c \in Calls |-> NoCall]
    /\ spent = [t \in Tabs |-> [n \in Tokens |-> 0]]
    /\ out = "in"

-----------------------------------------------------------------------------
(* Signing in and out.                                                     *)

\* The request interceptor: the stored token first, then the default header.
Bearer(t) == IF store # 0 THEN store ELSE header[t]

Sent(kind, token) == [phase |-> "sent", kind |-> kind, token |-> token, retried |-> FALSE]

\* The login form answered with a new pair; its user is loaded next.  The
\* form is on the page whenever no user is, the start-up load or not.
Login(c) == LET t == TabOf[c] IN
    /\ ~me[t]
    /\ call[c] = NoCall
    /\ issued < MaxTokens
    /\ issued' = issued + 1
    /\ live' = live \cup {issued + 1}
    /\ fresh' = fresh \cup {issued + 1}
    /\ store' = issued + 1
    /\ header' = [header EXCEPT ![t] = issued + 1]
    /\ expired' = [expired EXCEPT ![t] = FALSE]
    /\ call' = [call EXCEPT ![c] = Sent("me", issued + 1)]
    /\ out' = "in"
    /\ UNCHANGED <<me, loading, refresh, spent>>

\* From the user menu, or on accepting an invitation.  The server hears of
\* it in a call nobody waits for: see Revoked.
Logout(t) ==
    /\ store' = 0
    /\ header' = [header EXCEPT ![t] = 0]
    /\ me' = [me EXCEPT ![t] = FALSE]
    /\ out' = IF \E u \in Tabs : InFlight(u) THEN "out" ELSE "clean"
    /\ UNCHANGED <<server, loading, expired, refresh, call, spent>>

\* The page is loaded, or loaded again: whatever the old document was
\* waiting for is lost.  With a token in storage the user is loaded first.
Load(t) ==
    /\ me' = [me EXCEPT ![t] = FALSE]
    /\ expired' = [expired EXCEPT ![t] = FALSE]
    /\ header' = [header EXCEPT ![t] = store]
    /\ refresh' = [refresh EXCEPT ![t] = NoRefresh]
    /\ spent' = [spent EXCEPT ![t] = [n \in Tokens |-> 0]]
    /\ LET forget == [c \in Calls |-> IF TabOf[c] = t THEN NoCall ELSE call[c]] IN
       IF store = 0
       THEN /\ call' = forget
            /\ loading' = [loading EXCEPT ![t] = FALSE]
       ELSE \E c \in CallsOf(t) :
              /\ call' = [forget EXCEPT ![c] = Sent("boot", store)]
              /\ loading' = [loading EXCEPT ![t] = TRUE]
    /\ UNCHANGED <<store, server, out>>

-----------------------------------------------------------------------------
(* Calls and their answers.                                                *)

\* A page of a signed-in user asks for something, at the latest when the
\* bell and the inbox badge poll.
Send(c, kind) == LET t == TabOf[c] IN
    /\ me[t]
    /\ call[c] = NoCall
    /\ call' = [call EXCEPT ![c] = Sent(kind, Bearer(t))]
    /\ UNCHANGED <<store, server, page, refresh, spent, out>>

\* A start-up load that ends its screen only on success.
Undecided(t) == loading

\* finally: the start-up load is over, however it ended.
Decided(t) == [loading EXCEPT ![t] = FALSE]

\* What the page does when a call of this kind has failed for good: a failed
\* start-up load logs the tab out.
Failed(t, kinds) ==
    IF "boot" \in kinds
    THEN /\ store' = 0
         /\ header' = [header EXCEPT ![t] = 0]
         /\ me' = [me EXCEPT ![t] = FALSE]
         /\ loading' = Decided(t)
    ELSE UNCHANGED <<store, header, me, loading>>

\* The call is answered, and the user loaded when that was asked.
Succeeds(c) == LET t == TabOf[c]
                   user == call[c].kind \in {"me", "boot"} IN
    /\ call[c].phase = "sent"
    /\ call[c].token \in fresh
    /\ call' = [call EXCEPT ![c] = NoCall]
    /\ me' = [me EXCEPT ![t] = @ \/ user]
    /\ loading' = [loading EXCEPT ![t] = @ /\ call[c].kind # "boot"]
    /\ UNCHANGED <<store, server, expired, header, refresh, spent, out>>

\* No answer within the client's timeout, or an error that is not a 401.
Fails(c) == LET t == TabOf[c] IN
    /\ call[c].phase = "sent"
    /\ call' = [call EXCEPT ![c] = NoCall]
    /\ Failed(t, {call[c].kind})
    /\ UNCHANGED <<server, expired, refresh, spent, out>>

\* A second 401 for a call that was already sent again is final.
RejectedAgain(c) ==
    /\ call[c].phase = "sent"
    /\ call[c].token \notin fresh
    /\ call[c].retried
    /\ call' = [call EXCEPT ![c] = NoCall]
    /\ Failed(TabOf[c], {call[c].kind})
    /\ UNCHANGED <<server, expired, refresh, spent, out>>

\* An expiry nobody listens for.
Unnoticed(t) == me

\* What the listener of onSessionExpired makes of the user it shows.
NobodyShown(t) == [me EXCEPT ![t] = FALSE]

\* onSessionExpired, and the rejection of the calls that led to it.
SessionEnds(t, calls) ==
    /\ store' = 0
    /\ header' = [header EXCEPT ![t] = 0]
    /\ me' = NobodyShown(t)
    /\ expired' = [expired EXCEPT ![t] = TRUE]
    /\ loading' = [loading EXCEPT ![t] = @ /\ ~\E c \in calls : call[c].kind = "boot"]
    /\ call' = [c \in Calls |-> IF c \in calls THEN NoCall ELSE call[c]]

\* A tab that keeps a copy of the token it was loaded with.
RememberedToken(t) == Bearer(t)

\* The refresh token a 401 is answered with.
StoredToken(t) == store

\* A client in which every 401 starts a refresh of its own.
NeverShares(t) == FALSE

\* A tab that only ever waits.
AlwaysShares(t) == TRUE

\* A refresh of this tab is outstanding: the calls share its promise.
Shares(t) == InFlight(t)

\* A first 401: nothing to refresh with, or one more call waiting for the
\* tab's refresh.
Unauthorized(c) == LET t == TabOf[c]
                       token == StoredToken(t) IN
    /\ call[c].phase = "sent"
    /\ call[c].token \notin fresh
    /\ ~call[c].retried
    /\ IF token = 0
       THEN /\ SessionEnds(t, {c})
            /\ UNCHANGED <<refresh, spent>>
       ELSE /\ call' = [call EXCEPT ![c].phase = "waiting", ![c].retried = TRUE]
            /\ IF Shares(t)
               THEN UNCHANGED <<refresh, spent>>
               ELSE /\ refresh' = [refresh EXCEPT ![t] = [NoRefresh EXCEPT !.token = token]]
                    /\ spent' = [spent EXCEPT ![t][token] = @ + 1]
            /\ UNCHANGED <<store, page>>
    /\ UNCHANGED <<server, out>>

\* The server rotates a token it accepts, and refuses any other.
Rotate(t) ==
    /\ InFlight(t)
    /\ ~refresh[t].answered
    /\ IF refresh[t].token \in live
       THEN /\ issued < MaxTokens
            /\ issued' = issued + 1
            /\ live' = (live \ {refresh[t].token}) \cup {issued + 1}
            /\ fresh' = fresh \cup {issued + 1}
            /\ refresh' = [refresh EXCEPT ![t].answered = TRUE, ![t].got = issued + 1]
       ELSE /\ refresh' = [refresh EXCEPT ![t].answered = TRUE]
            /\ UNCHANGED server
    /\ UNCHANGED <<store, page, call, spent, out>>

\* The refresh token kept after a rotation.
Rotated(t) == refresh[t].got

\* The new pair is stored, and every waiting call sent again with it.
Refreshed(t) ==
    /\ refresh[t].got # 0
    /\ store' = Rotated(t)
    /\ refresh' = [refresh EXCEPT ![t] = NoRefresh]
    /\ call' = [c \in Calls |-> IF c \in Waiting(t)
                                THEN [call[c] EXCEPT !.phase = "sent", !.token = refresh[t].got]
                                ELSE call[c]]
    /\ UNCHANGED <<server, page, spent, out>>

\* A client that waits for the answer however long it takes.
WaitsForever(t) == InFlight(t) /\ refresh[t].answered /\ refresh[t].got = 0

\* The refresh is over without a token: refused, or not answered in 8 s.
GivesUp(t) == InFlight(t)

NotRefreshed(t) ==
    /\ GivesUp(t)
    /\ SessionEnds(t, Waiting(t))
    /\ refresh' = [refresh EXCEPT ![t] = NoRefresh]
    /\ UNCHANGED <<server, spent, out>>

-----------------------------------------------------------------------------
(* The server's side of the tokens.                                        *)

\* A refresh token stops being accepted: the logout call arrived, its seven
\* days are over, the account was closed, or a refresh whose document is
\* gone rotated it.
Revoked(n) ==
    /\ n \in live
    /\ live' = live \ {n}
    /\ UNCHANGED <<store, issued, fresh, page, refresh, call, spent, out>>

\* The sixty minutes of an access token are over.
Expires(n) ==
    /\ n \in fresh
    /\ fresh' = fresh \ {n}
    /\ UNCHANGED <<store, issued, live, page, refresh, call, spent, out>>

Next ==
    \/ \E c \in Calls : \/ Login(c)
                        \/ \E kind \in {"page", "me"} : Send(c, kind)
                        \/ Succeeds(c) \/ Fails(c) \/ RejectedAgain(c) \/ Unauthorized(c)
    \/ \E t \in Tabs : \/ Logout(t) \/ Load(t)
                       \/ Rotate(t) \/ Refreshed(t) \/ NotRefreshed(t)
    \/ \E n \in Tokens : Revoked(n) \/ Expires(n)

Safety == Init /\ [][Next]_vars

-----------------------------------------------------------------------------
(* Fairness.  Both clients have a timeout, an access token lives an hour,  *)
(* the bell polls every fifteen seconds for as long as somebody is shown   *)
(* as signed in, and the server can be reached now and then.               *)

Polls(t) == \E c \in CallsOf(t) : Send(c, "page")

Answered(c) == Succeeds(c) \/ RejectedAgain(c) \/ Unauthorized(c)

TimeoutsFire == /\ \A c \in Calls : WF_vars(Fails(c))
                /\ \A t \in Tabs : WF_vars(NotRefreshed(t))

Spec == /\ Safety
        /\ TimeoutsFire
        /\ \A n \in Tokens : WF_vars(Expires(n))
        /\ \A t \in Tabs : WF_vars(Polls(t))
        /\ \A c \in Calls : SF_vars(Answered(c))

-----------------------------------------------------------------------------
(* Properties.                                                             *)

Queued == \A c \in Calls : call[c].phase = "waiting" => InFlight(TabOf[c])

\* Every variable has its type, and a call waits only for a refresh that is
\* on its way (refreshAccessToken hands out nothing else).
TypeOK ==
    /\ store \in Tokens /\ issued \in Tokens
    /\ live \subseteq Tokens /\ fresh \subseteq Tokens
    /\ me \in [Tabs -> BOOLEAN] /\ loading \in [Tabs -> BOOLEAN]
    /\ expired \in [Tabs -> BOOLEAN]
    /\ header \in [Tabs -> Tokens]
    /\ refresh \in [Tabs -> RefreshRecord]
    /\ call \in [Calls -> CallRecord]
    /\ spent \in [Tabs -> [Tokens -> Nat]]
    /\ out \in {"in", "out", "clean"}
    /\ Queued

\* However many calls come back 401 and in whatever order, one document shows
\* the server a refresh token at most once: a second showing would be refused
\* and would sign the user out (the shared refreshPromise).
OnePresentation == \A t \in Tabs, n \in Tokens : spent[t][n] <= 1

\* A sign-out during which no tab is refreshing is final: until somebody signs
\* in, no late answer and no other tab brings the tokens back.
CleanLogoutSticks == out = "clean" => store = 0

\* The same of every sign-out, as the comment in logout() has it.
LogoutSticks == out # "in" => store = 0

\* The "loading" screen hides a tab from its user only as long as the start-up
\* call is outstanding: whatever ends that call, or everything the tab waits
\* for, also ends the screen.
LoadDecides == \A t \in Tabs :
    loading[t] => \E c \in CallsOf(t) : call[c].kind = "boot" /\ call[c].phase # "idle"

\* Unless the page is loaded over and over, every call a page waits for ends,
\* whatever the network or the server does: no 401 queues behind a refresh
\* for ever.
CallsSettle ==
    <>[][\A t \in Tabs : ~Load(t)]_vars =>
        \A c \in Calls : call[c].phase # "idle" ~> call[c].phase = "idle"

\* A tab still showing a user whose tokens are gone from the browser finds
\* out: it leaves for the login page, or somebody has signed in again.
DeadTabNotices ==
    \A t \in Tabs : (me[t] /\ store = 0) ~> (~me[t] \/ store # 0)
=============================================================================
