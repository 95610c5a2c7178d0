---------------------------- MODULE SessionProofs ----------------------------
(***************************************************************************)
(* Theorems of Session for any number of tabs, calls and tokens.           *)
(***************************************************************************)
EXTENDS Session, TLAPS

\* Safety leaves the fairness out, which none of the proofs needs.
LEMMA SpecIsSafe == Spec => Safety
  BY PTL DEF Spec

LEMMA CallRecords ==
    /\ NoCall \in CallRecord /\ NoCall.phase # "waiting"
    /\ \A kind \in Kinds, n \in Tokens :
          Sent(kind, n) \in CallRecord /\ Sent(kind, n).phase # "waiting"
    /\ \A k \in CallRecord : [k EXCEPT !.phase = "waiting", !.retried = TRUE] \in CallRecord
    /\ \A k \in CallRecord, n \in Tokens :
          /\ [k EXCEPT !.phase = "sent", !.token = n] \in CallRecord
          /\ [k EXCEPT !.phase = "sent", !.token = n].phase = "sent"
<1>1. 0 \in Tokens
  BY SessionAssumption DEF Tokens
<1>2. NoCall \in CallRecord /\ NoCall.phase # "waiting"
  BY <1>1 DEF NoCall, CallRecord, Kinds
<1>3. \A kind \in Kinds, n \in Tokens :
         Sent(kind, n) \in CallRecord /\ Sent(kind, n).phase # "waiting"
  BY DEF Sent, CallRecord
<1>4. QED
  BY <1>2, <1>3 DEF CallRecord

LEMMA RefreshRecords ==
    /\ NoRefresh \in RefreshRecord
    /\ \A n \in Tokens : /\ [NoRefresh EXCEPT !.token = n] \in RefreshRecord
                         /\ [NoRefresh EXCEPT !.token = n].token = n
    /\ \A r \in RefreshRecord : /\ [r EXCEPT !.answered = TRUE] \in RefreshRecord
                                /\ [r EXCEPT !.answered = TRUE] # NoRefresh
    /\ \A r \in RefreshRecord, n \in Tokens :
          /\ [r EXCEPT !.answered = TRUE, !.got = n] \in RefreshRecord
          /\ [r EXCEPT !.answered = TRUE, !.got = n] # NoRefresh
<1>1. 0 \in Tokens
  BY SessionAssumption DEF Tokens
<1>2. NoRefresh \in RefreshRecord
  BY <1>1 DEF NoRefresh, RefreshRecord
<1>3. \A n \in Tokens : /\ [NoRefresh EXCEPT !.token = n] \in RefreshRecord
                        /\ [NoRefresh EXCEPT !.token = n].token = n
  BY <1>1 DEF NoRefresh, RefreshRecord
<1>4. \A r \in RefreshRecord : /\ [r EXCEPT !.answered = TRUE] \in RefreshRecord
                               /\ [r EXCEPT !.answered = TRUE] # NoRefresh
  BY DEF NoRefresh, RefreshRecord
<1>5. \A r \in RefreshRecord, n \in Tokens :
         /\ [r EXCEPT !.answered = TRUE, !.got = n] \in RefreshRecord
         /\ [r EXCEPT !.answered = TRUE, !.got = n] # NoRefresh
  BY DEF NoRefresh, RefreshRecord
<1>6. QED
  BY <1>2, <1>3, <1>4, <1>5

LEMMA NoToken == 0 \in Tokens
  BY SessionAssumption DEF Tokens

LEMMA TypeInit == Init => TypeOK
<1> SUFFICES ASSUME Init PROVE TypeOK
  OBVIOUS
<1>1. call \in [Calls -> CallRecord] /\ refresh \in [Tabs -> RefreshRecord] /\ Queued
  BY CallRecords, RefreshRecords DEF Init, Queued
<1>2. spent \in [Tabs -> [Tokens -> Nat]] /\ header \in [Tabs -> Tokens]
  BY NoToken DEF Init
<1>3. QED
  BY <1>1, <1>2, NoToken DEF Init, TypeOK

LEMMA TypeStep == TypeOK /\ [Next]_vars => TypeOK'
<1> SUFFICES ASSUME TypeOK, [Next]_vars PROVE TypeOK'
  OBVIOUS
<1> USE SessionAssumption
<1>1. ASSUME NEW c \in Calls, Login(c) PROVE TypeOK'
  <2>1. issued + 1 \in Tokens /\ "me" \in Kinds
    BY <1>1 DEF Login, TypeOK, Tokens, Kinds
  <2>2. call' \in [Calls -> CallRecord] /\ Queued'
    BY <1>1, <2>1, CallRecords DEF Login, TypeOK, Queued, InFlight
  <2>3. QED
    BY <1>1, <2>1, <2>2 DEF Login, TypeOK
<1>2. ASSUME NEW c \in Calls, NEW kind \in {"page", "me"}, Send(c, kind) PROVE TypeOK'
  <2>1. Bearer(TabOf[c]) \in Tokens /\ kind \in Kinds
    BY SessionAssumption DEF Bearer, TypeOK, Kinds
  <2>2. call' \in [Calls -> CallRecord] /\ Queued'
    BY <1>2, <2>1, CallRecords DEF Send, TypeOK, Queued, InFlight
  <2>3. QED
    BY <1>2, <2>2 DEF Send, TypeOK, server, page
<1>3. ASSUME NEW c \in Calls, Succeeds(c) PROVE TypeOK'
  <2>1. call' \in [Calls -> CallRecord] /\ Queued'
    BY <1>3, CallRecords DEF Succeeds, TypeOK, Queued, InFlight
  <2>2. QED
    BY <1>3, <2>1 DEF Succeeds, TypeOK, server
<1>4. ASSUME NEW c \in Calls, Fails(c) \/ RejectedAgain(c) PROVE TypeOK'
  <2>1. call' \in [Calls -> CallRecord] /\ Queued'
    BY <1>4, CallRecords DEF Fails, RejectedAgain, TypeOK, Queued, InFlight
  <2>2. Failed(TabOf[c], {call[c].kind})
    BY <1>4 DEF Fails, RejectedAgain
  <2>3. /\ store' \in Tokens /\ header' \in [Tabs -> Tokens]
        /\ me' \in [Tabs -> BOOLEAN] /\ loading' \in [Tabs -> BOOLEAN]
    BY <2>2, NoToken DEF Failed, Decided, TypeOK
  <2>4. QED
    BY <1>4, <2>1, <2>3 DEF Fails, RejectedAgain, TypeOK, server
<1>5. ASSUME NEW t \in Tabs, NEW calls, SessionEnds(t, calls)
      PROVE  /\ store' \in Tokens /\ header' \in [Tabs -> Tokens]
             /\ me' \in [Tabs -> BOOLEAN] /\ loading' \in [Tabs -> BOOLEAN]
             /\ expired' \in [Tabs -> BOOLEAN] /\ call' \in [Calls -> CallRecord]
             /\ \A c \in Calls : call'[c].phase = "waiting"
                                    => c \notin calls /\ call[c].phase = "waiting"
  BY <1>5, CallRecords, NoToken DEF SessionEnds, NobodyShown, TypeOK
<1>6. ASSUME NEW c \in Calls, Unauthorized(c) PROVE TypeOK'
  <2> DEFINE t == TabOf[c]
  <2>1. CASE store = 0
    <3>1. SessionEnds(t, {c}) /\ UNCHANGED <<refresh, spent, server, out>>
      BY <1>6, <2>1 DEF Unauthorized, StoredToken
    <3>2. Queued'
      BY <1>5, <3>1 DEF TypeOK, Queued, InFlight
    <3>3. QED
      BY <1>5, <3>1, <3>2 DEF TypeOK, server
  <2>2. CASE store # 0
    <3>1. /\ call' = [call EXCEPT ![c] = [@ EXCEPT !.phase = "waiting", !.retried = TRUE]]
          /\ UNCHANGED <<store, page, server, out>>
      BY <1>6, <2>2 DEF Unauthorized, StoredToken, TypeOK, CallRecord
    <3>2. call' \in [Calls -> CallRecord]
      BY <3>1, CallRecords DEF TypeOK
    <3>3. CASE InFlight(t)
      <4>1. UNCHANGED <<refresh, spent>>
        BY <1>6, <2>2, <3>3 DEF Unauthorized, StoredToken, Shares
      <4>2. Queued'
        BY <3>1, <3>3, <4>1 DEF TypeOK, Queued, InFlight
      <4>3. QED
        BY <3>1, <3>2, <4>1, <4>2 DEF TypeOK, server, page
    <3>4. CASE ~InFlight(t)
      <4>1. /\ refresh' = [refresh EXCEPT ![t] = [NoRefresh EXCEPT !.token = store]]
            /\ spent' = [spent EXCEPT ![t][store] = @ + 1]
        BY <1>6, <2>2, <3>4 DEF Unauthorized, StoredToken, Shares
      <4>2. refresh'[t] # NoRefresh /\ refresh' \in [Tabs -> RefreshRecord]
        BY <2>2, <4>1, RefreshRecords DEF TypeOK, NoRefresh
      <4>3. spent' \in [Tabs -> [Tokens -> Nat]]
        BY <4>1 DEF TypeOK
      <4>4. Queued'
        BY <3>1, <4>1, <4>2 DEF TypeOK, Queued, InFlight
      <4>5. QED
        BY <3>1, <3>2, <4>2, <4>3, <4>4 DEF TypeOK, server, page
    <3>5. QED
      BY <3>3, <3>4
  <2>3. QED
    BY <2>1, <2>2
<1>7. ASSUME NEW t \in Tabs, Logout(t) PROVE TypeOK'
  BY <1>7, NoToken DEF Logout, server, TypeOK, Queued, InFlight
<1>8. ASSUME NEW t \in Tabs, Load(t) PROVE TypeOK'
  <2> DEFINE forget == [c \in Calls |-> IF TabOf[c] = t THEN NoCall ELSE call[c]]
  <2>1. forget \in [Calls -> CallRecord]
    BY CallRecords DEF TypeOK
  <2>2. \/ call' = forget
        \/ \E c \in CallsOf(t) : call' = [forget EXCEPT ![c] = Sent("boot", store)]
    BY <1>8 DEF Load
  <2>3. "boot" \in Kinds /\ store \in Tokens
    BY DEF TypeOK, Kinds
  <2>4. /\ call' \in [Calls -> CallRecord]
        /\ \A c \in Calls : call'[c].phase = "waiting" => TabOf[c] # t /\ call'[c] = call[c]
    BY ZenonT(60), <2>1, <2>2, <2>3, CallRecords DEF CallsOf
  <2>5. loading' \in [Tabs -> BOOLEAN]
    BY <1>8 DEF Load, TypeOK
  <2>6. refresh' = [refresh EXCEPT ![t] = NoRefresh]
    BY <1>8 DEF Load
  <2>7. Queued'
    BY <2>4, <2>6 DEF TypeOK, Queued, InFlight
  <2>8. refresh' \in [Tabs -> RefreshRecord]
    BY <2>6, RefreshRecords DEF TypeOK
  <2>9. /\ me' \in [Tabs -> BOOLEAN] /\ expired' \in [Tabs -> BOOLEAN]
        /\ header' \in [Tabs -> Tokens] /\ spent' \in [Tabs -> [Tokens -> Nat]]
    BY <1>8 DEF Load, TypeOK
  <2>10. QED
    BY <1>8, <2>4, <2>5, <2>7, <2>8, <2>9 DEF Load, TypeOK, server
<1>9. ASSUME NEW t \in Tabs, Rotate(t) PROVE TypeOK'
  <2>1. /\ issued' \in Tokens /\ live' \subseteq Tokens /\ fresh' \subseteq Tokens
    BY <1>9 DEF Rotate, server, TypeOK, Tokens
  <2>2. \/ refresh' = [refresh EXCEPT ![t] = [@ EXCEPT !.answered = TRUE]]
        \/ refresh' = [refresh EXCEPT ![t] = [@ EXCEPT !.answered = TRUE, !.got = issued']]
    BY <1>9 DEF Rotate, TypeOK, RefreshRecord
  <2>3. refresh' \in [Tabs -> RefreshRecord] /\ \A u \in Tabs : InFlight(u) => InFlight(u)'
    <3>1. /\ refresh[t] \in RefreshRecord
          /\ \A r \in RefreshRecord : r # NoRefresh /\ refresh' = [refresh EXCEPT ![t] = r]
                => refresh' \in [Tabs -> RefreshRecord]
                   /\ \A u \in Tabs : InFlight(u) => InFlight(u)'
      BY DEF TypeOK, InFlight
    <3>2. QED
      BY <2>1, <2>2, <3>1, RefreshRecords
  <2>4. Queued'
    BY <1>9, <2>3 DEF Rotate, TypeOK, Queued
  <2>5. QED
    BY <1>9, <2>1, <2>3, <2>4 DEF Rotate, page, TypeOK
<1>10. ASSUME NEW t \in Tabs, Refreshed(t) PROVE TypeOK'
  <2>1. refresh[t].got \in Tokens /\ store' = refresh[t].got
    BY <1>10 DEF Refreshed, Rotated, TypeOK, RefreshRecord
  <2>2. /\ call' \in [Calls -> CallRecord]
        /\ \A c \in Calls : call'[c].phase = "waiting" => TabOf[c] # t /\ call'[c] = call[c]
    BY <1>10, <2>1, CallRecords DEF Refreshed, Waiting, CallsOf, TypeOK
  <2>3. refresh' = [refresh EXCEPT ![t] = NoRefresh]
    BY <1>10 DEF Refreshed
  <2>4. Queued' /\ refresh' \in [Tabs -> RefreshRecord]
    BY <2>2, <2>3, RefreshRecords DEF TypeOK, Queued, InFlight
  <2>5. QED
    BY <1>10, <2>1, <2>2, <2>4 DEF Refreshed, server, page, TypeOK
<1>11. ASSUME NEW t \in Tabs, NotRefreshed(t) PROVE TypeOK'
  <2>1. SessionEnds(t, Waiting(t)) /\ refresh' = [refresh EXCEPT ![t] = NoRefresh]
    BY <1>11 DEF NotRefreshed
  <2>2. refresh' \in [Tabs -> RefreshRecord]
    BY <2>1, RefreshRecords DEF TypeOK
  <2>3. ASSUME NEW c \in Calls, call'[c].phase = "waiting" PROVE InFlight(TabOf[c])'
    <3>1. call[c].phase = "waiting" /\ TabOf[c] # t /\ TabOf[c] \in Tabs
      BY <1>5, <2>1, <2>3 DEF Waiting, CallsOf
    <3>2. QED
      BY <2>1, <3>1 DEF TypeOK, Queued, InFlight
  <2>4. QED
    BY <1>5, <1>11, <2>1, <2>2, <2>3 DEF Queued, NotRefreshed, server, TypeOK
<1>12. ASSUME NEW n \in Tokens, Revoked(n) \/ Expires(n) PROVE TypeOK'
  BY <1>12 DEF Revoked, Expires, page, TypeOK, Queued, InFlight
<1>13. CASE UNCHANGED vars
  BY <1>13 DEF vars, server, page, TypeOK, Queued, InFlight
<1>14. QED
  BY <1>1, <1>2, <1>3, <1>4, <1>6, <1>7, <1>8, <1>9, <1>10, <1>11, <1>12, <1>13 DEF Next

\* Every variable of the clients and of the server keeps its type, and a call
\* that waits has a refresh to wait for.
THEOREM TypeCorrect == Spec => []TypeOK
<1>1. Safety => []TypeOK
  BY TypeInit, TypeStep, PTL DEF Safety
<1>2. QED
  BY <1>1, SpecIsSafe

-----------------------------------------------------------------------------
(* One presentation.  A token reaches storage once, straight from the      *)
(* answer that carried it; so a stored token a document has shown is the   *)
(* one its refresh is still waiting for.                                   *)

Handed(n) == n \in 1..issued

Unshown(n) == \A t \in Tabs : spent[t][n] = 0

SingleUse ==
    /\ \A t \in Tabs, n \in Tokens : spent[t][n] > 0 => spent[t][n] = 1 /\ Handed(n)
    /\ store # 0 => Handed(store)
    /\ \A t \in Tabs : refresh[t].token = 0 => refresh[t] = NoRefresh
    /\ \A t \in Tabs :
          store # 0 /\ spent[t][store] # 0 => refresh[t].token = store
    /\ \A t \in Tabs : refresh[t].got # 0 =>
          /\ Handed(refresh[t].got)
          /\ refresh[t].got # store
          /\ Unshown(refresh[t].got)
          /\ refresh[t].answered
          /\ \A u \in Tabs \ {t} : refresh[u].got # refresh[t].got

LEMMA SingleUseInit == Init => SingleUse
  BY DEF Init, SingleUse, NoRefresh

\* What loses a token, or a refresh with its document, disturbs nothing.
LEMMA Forgetting ==
    ASSUME TypeOK, SingleUse, issued' = issued, NEW t \in Tabs,
           store' = 0 \/ store' = store,
           \/ refresh' = refresh /\ spent' = spent
           \/ refresh' = [refresh EXCEPT ![t] = NoRefresh] /\ spent' = spent /\ store' = 0
           \/ /\ refresh' = [refresh EXCEPT ![t] = NoRefresh]
              /\ spent' = [spent EXCEPT ![t] = [n \in Tokens |-> 0]]
    PROVE  SingleUse'
<1>1. store' \in Tokens
  BY NoToken DEF TypeOK
<1>2. CASE refresh' = refresh /\ spent' = spent
  BY <1>2 DEF SingleUse, Handed, Unshown
<1>3. CASE refresh' = [refresh EXCEPT ![t] = NoRefresh] /\ spent' = spent /\ store' = 0
  <2>1. NoRefresh.token = 0 /\ NoRefresh.got = 0
    BY DEF NoRefresh
  <2>2. QED
    BY <1>3, <2>1 DEF SingleUse, Handed, Unshown, TypeOK
<1>4. CASE /\ refresh' = [refresh EXCEPT ![t] = NoRefresh]
           /\ spent' = [spent EXCEPT ![t] = [n \in Tokens |-> 0]]
  <2>1. NoRefresh.token = 0 /\ NoRefresh.got = 0
    BY DEF NoRefresh
  <2>2. \A u \in Tabs, n \in Tokens : spent'[u][n] = (IF u = t THEN 0 ELSE spent[u][n])
    BY <1>4 DEF TypeOK
  <2>3. \A u \in Tabs : refresh'[u] = (IF u = t THEN NoRefresh ELSE refresh[u])
    BY <1>4 DEF TypeOK
  <2>4. \A n \in Tokens : Unshown(n) => Unshown(n)'
    BY <2>2 DEF Unshown
  <2>5. \A u \in Tabs : refresh[u].got \in Tokens
    BY DEF TypeOK, RefreshRecord
  <2>6. QED
    BY <1>1, <2>1, <2>2, <2>3, <2>4, <2>5 DEF SingleUse, Handed
<1>5. QED
  BY <1>2, <1>3, <1>4

LEMMA SingleUseStep == TypeOK /\ SingleUse /\ [Next]_vars => SingleUse'
<1> SUFFICES ASSUME TypeOK, SingleUse, [Next]_vars PROVE SingleUse'
  OBVIOUS
<1> USE SessionAssumption
<1>1. ASSUME NEW c \in Calls, Login(c) PROVE SingleUse'
  <2>1. /\ issued \in Nat /\ issued' = issued + 1 /\ store' = issued + 1
        /\ issued + 1 \in Tokens
        /\ UNCHANGED <<refresh, spent>>
    BY <1>1 DEF Login, TypeOK, Tokens
  <2>2. /\ ~Handed(issued + 1) /\ issued + 1 \in 1..issued'
        /\ \A n \in 1..issued : n \in 1..issued'
    BY <2>1 DEF Handed
  <2>3. \A t \in Tabs : spent[t][issued + 1] = 0
    BY <2>1, <2>2 DEF SingleUse, TypeOK
  <2>4. QED
    BY <2>1, <2>2, <2>3 DEF SingleUse, Unshown, Handed
<1>2. ASSUME NEW c \in Calls, Unauthorized(c) PROVE SingleUse'
  <2> DEFINE t == TabOf[c]
  <2>1. CASE store = 0 \/ InFlight(t)
    <3>1. /\ issued' = issued /\ refresh' = refresh /\ spent' = spent
          /\ store' = 0 \/ store' = store
      BY <1>2, <2>1 DEF Unauthorized, StoredToken, Shares, SessionEnds, server
    <3>2. QED
      BY <3>1, Forgetting
  <2>2. CASE store # 0 /\ ~InFlight(t)
    <3>1. /\ refresh' = [refresh EXCEPT ![t] = [NoRefresh EXCEPT !.token = store]]
          /\ spent' = [spent EXCEPT ![t][store] = @ + 1]
          /\ UNCHANGED <<store, issued>>
      BY <1>2, <2>2 DEF Unauthorized, StoredToken, Shares, server
    <3>2. t \in Tabs /\ store \in Tokens /\ refresh[t].token = 0 /\ spent[t][store] = 0
      <4>1. t \in Tabs /\ store \in Tokens /\ spent[t][store] \in Nat
        BY DEF TypeOK
      <4>2. refresh[t].token = 0
        BY <2>2 DEF InFlight, NoRefresh
      <4>3. QED
        BY <2>2, <4>1, <4>2 DEF SingleUse
    <3>3. /\ \A u \in Tabs, n \in Tokens :
                spent'[u][n] = (IF u = t /\ n = store THEN 1 ELSE spent[u][n])
      BY <3>1, <3>2 DEF TypeOK
    <3>4. /\ refresh'[t].token = store /\ refresh'[t].got = 0
          /\ \A u \in Tabs \ {t} : refresh'[u] = refresh[u]
      BY <3>1, <3>2 DEF TypeOK, NoRefresh
    <3>5. \A u \in Tabs : refresh[u].got \in Tokens
      BY DEF TypeOK, RefreshRecord
    <3>6. \A n \in Tokens : Unshown(n) /\ n # store => Unshown(n)'
      BY <3>3 DEF Unshown
    <3>7. \A n : Handed(n) => Handed(n)'
      BY <3>1 DEF Handed
    <3>8. /\ \A u \in Tabs, n \in Tokens : spent'[u][n] > 0 => spent'[u][n] = 1 /\ Handed(n)'
          /\ (store # 0 => Handed(store))'
      BY <2>2, <3>1, <3>3, <3>7 DEF SingleUse
    <3>9. \A u \in Tabs : refresh'[u].token = 0 => refresh'[u] = NoRefresh
      BY <2>2, <3>4 DEF SingleUse
    <3>10. \A u \in Tabs : store' # 0 /\ spent'[u][store'] # 0 => refresh'[u].token = store'
      BY <3>1, <3>2, <3>3, <3>4 DEF SingleUse
    <3>11. \A u \in Tabs : refresh'[u].got # 0 =>
              /\ Handed(refresh[u].got)' /\ refresh'[u].got # store'
              /\ Unshown(refresh[u].got)' /\ refresh'[u].answered
              /\ \A v \in Tabs \ {u} : refresh'[v].got # refresh'[u].got
      BY <3>1, <3>4, <3>5, <3>6, <3>7 DEF SingleUse
    <3>12. QED
      BY <3>8, <3>9, <3>10, <3>11 DEF SingleUse
  <2>3. QED
    BY <2>1, <2>2
<1>3. ASSUME NEW t \in Tabs, Rotate(t) PROVE SingleUse'
  <2>1. CASE refresh[t].token \in live
    <3>1. /\ issued' = issued + 1
          /\ refresh' = [refresh EXCEPT ![t].answered = TRUE, ![t].got = issued + 1]
          /\ UNCHANGED <<store, spent>>
          /\ issued < MaxTokens
      BY <1>3, <2>1 DEF Rotate
    <3>2. issued \in Nat /\ issued + 1 \in Tokens
      BY <3>1 DEF TypeOK, Tokens
    <3>3. /\ ~Handed(issued + 1) /\ issued + 1 \in 1..issued'
          /\ \A n \in 1..issued : n \in 1..issued'
      BY <3>2, <3>1 DEF Handed
    <3>4. /\ refresh'[t].token = refresh[t].token /\ refresh'[t].got = issued + 1
          /\ refresh'[t].answered
          /\ \A u \in Tabs \ {t} : refresh'[u] = refresh[u]
      BY <3>1 DEF TypeOK, RefreshRecord
    <3>5. refresh[t].token # 0
      BY <1>3 DEF Rotate, InFlight, SingleUse
    <3>6. \A u \in Tabs : spent[u][issued + 1] = 0
      BY <3>2, <3>3 DEF SingleUse, Unshown, TypeOK
    <3>7. store # issued + 1 /\ \A u \in Tabs : refresh[u].got # issued + 1
      BY <3>1, <3>3 DEF SingleUse
    <3>8. \A u \in Tabs : refresh'[u].got # 0 =>
              /\ refresh'[u].got \in 1..issued' /\ refresh'[u].got # store
              /\ \A v \in Tabs : spent[v][refresh'[u].got] = 0
              /\ refresh'[u].answered
              /\ \A v \in Tabs \ {u} : refresh'[v].got # refresh'[u].got
      <4>1. ASSUME NEW u \in Tabs \ {t}, refresh'[u].got # 0
            PROVE  /\ refresh'[u].got \in 1..issued /\ refresh'[u].got # store
                   /\ \A v \in Tabs : spent[v][refresh'[u].got] = 0
                   /\ refresh'[u].answered
                   /\ \A v \in Tabs \ {u} : refresh[v].got # refresh'[u].got
        BY <3>4, <4>1 DEF SingleUse, Handed, Unshown
      <4>2. ASSUME NEW u \in Tabs \ {t}, refresh'[u].got # 0
            PROVE  \A v \in Tabs \ {u} : refresh'[v].got # refresh'[u].got
        BY <3>3, <3>4, <4>1, <4>2 DEF Handed
      <4>3. \A v \in Tabs \ {t} : refresh'[v].got # refresh'[t].got
        BY <3>4, <3>7
      <4>4. QED
        BY <3>3, <3>4, <3>6, <3>7, <4>1, <4>2, <4>3
    <3>9. \A u \in Tabs : refresh'[u].token = refresh[u].token
      BY <3>4
    <3>10. /\ \A u \in Tabs, n \in Tokens :
                 spent'[u][n] > 0 => spent'[u][n] = 1 /\ n \in 1..issued'
           /\ store' # 0 => store' \in 1..issued'
           /\ \A u \in Tabs : refresh'[u].token = 0 => refresh'[u] = NoRefresh
           /\ \A u \in Tabs : store' # 0 /\ spent'[u][store'] # 0 => refresh'[u].token = store'
      <4>1. \A u \in Tabs, n \in Tokens :
               spent'[u][n] > 0 => spent'[u][n] = 1 /\ n \in 1..issued'
        BY <3>1, <3>3 DEF SingleUse, Handed
      <4>2. store' # 0 => store' \in 1..issued'
        BY <3>1, <3>3 DEF SingleUse, Handed
      <4>3. ASSUME NEW u \in Tabs, refresh'[u].token = 0 PROVE refresh'[u] = NoRefresh
        <5>1. u # t
          BY <3>5, <3>9, <4>3
        <5>2. QED
          BY <3>4, <4>3, <5>1 DEF SingleUse
      <4>4. ASSUME NEW u \in Tabs, store' # 0, spent'[u][store'] # 0
            PROVE  refresh'[u].token = store'
        BY <3>1, <3>9, <4>4 DEF SingleUse
      <4>5. QED
        BY <4>1, <4>2, <4>3, <4>4
    <3>11. \A u \in Tabs : refresh'[u].got # 0 =>
              /\ Handed(refresh[u].got)' /\ Unshown(refresh[u].got)'
              /\ refresh'[u].got # store'
      BY <3>1, <3>8 DEF Handed, Unshown
    <3>12. /\ \A u \in Tabs, n \in Tokens : spent'[u][n] > 0 => spent'[u][n] = 1 /\ Handed(n)'
           /\ (store # 0 => Handed(store))'
      BY <3>10 DEF Handed
    <3>13. QED
      BY <3>8, <3>10, <3>11, <3>12 DEF SingleUse
  <2>2. CASE refresh[t].token \notin live
    <3>1. /\ refresh' = [refresh EXCEPT ![t].answered = TRUE]
          /\ UNCHANGED <<issued, store, spent>>
      BY <1>3, <2>2 DEF Rotate, server
    <3>2. /\ refresh'[t].token = refresh[t].token /\ refresh'[t].got = refresh[t].got
          /\ refresh'[t].answered
          /\ \A u \in Tabs \ {t} : refresh'[u] = refresh[u]
      BY <3>1 DEF TypeOK, RefreshRecord
    <3>3. refresh[t].token # 0
      BY <1>3 DEF Rotate, InFlight, SingleUse
    <3>4. QED
      BY <3>1, <3>2, <3>3 DEF SingleUse, Handed, Unshown
  <2>3. QED
    BY <2>1, <2>2
<1>4. ASSUME NEW t \in Tabs, Refreshed(t) PROVE SingleUse'
  <2>1. /\ store' = refresh[t].got /\ refresh[t].got # 0
        /\ refresh' = [refresh EXCEPT ![t] = NoRefresh]
        /\ UNCHANGED <<issued, spent>>
    BY <1>4 DEF Refreshed, Rotated, server
  <2>2. /\ refresh'[t] = NoRefresh /\ NoRefresh.got = 0 /\ NoRefresh.token = 0
        /\ \A u \in Tabs \ {t} : refresh'[u] = refresh[u]
    BY <2>1 DEF TypeOK, NoRefresh
  <2>3. QED
    BY <2>1, <2>2 DEF SingleUse, Handed, Unshown
<1>5. ASSUME NEW t \in Tabs, Logout(t) \/ Load(t) \/ NotRefreshed(t) PROVE SingleUse'
  BY <1>5, Forgetting DEF Logout, Load, NotRefreshed, SessionEnds, server
<1>6. ASSUME NEW c \in Calls, NEW kind, Send(c, kind) PROVE SingleUse'
  BY <1>6, Forgetting DEF Send, server
<1>7. ASSUME NEW c \in Calls, Succeeds(c) \/ Fails(c) \/ RejectedAgain(c) PROVE SingleUse'
  BY <1>7, Forgetting DEF Succeeds, Fails, RejectedAgain, Failed, server
<1>8. CASE (\E n \in Tokens : Revoked(n) \/ Expires(n)) \/ UNCHANGED vars
  BY <1>8 DEF Revoked, Expires, vars, server, SingleUse, Handed, Unshown
<1>9. QED
  BY <1>1, <1>2, <1>3, <1>4, <1>5, <1>6, <1>7, <1>8 DEF Next

\* However the answers interleave, in any number of tabs, no document shows
\* the server the same refresh token twice.
THEOREM ShownOnce == Spec => []OnePresentation
<1>1. TypeOK /\ SingleUse => OnePresentation
  BY DEF TypeOK, SingleUse, OnePresentation
<1>2. Safety => [](TypeOK /\ SingleUse)
  BY TypeInit, TypeStep, SingleUseInit, SingleUseStep, PTL DEF Safety
<1>3. QED
  BY <1>1, <1>2, SpecIsSafe, PTL

-----------------------------------------------------------------------------
(* The sign-out that sticks, and the screen that ends.                     *)

Quiet == out = "clean" => store = 0 /\ \A t \in Tabs : ~InFlight(t)

LEMMA QuietStep == TypeOK /\ Quiet /\ [Next]_vars => Quiet'
<1> SUFFICES ASSUME TypeOK, Quiet, [Next]_vars PROVE Quiet'
  OBVIOUS
<1> USE SessionAssumption DEF Quiet, InFlight
<1>1. ASSUME NEW c \in Calls, Login(c) PROVE Quiet'
  BY <1>1 DEF Login
<1>2. ASSUME NEW c \in Calls, NEW kind, Send(c, kind) PROVE Quiet'
  BY <1>2 DEF Send
<1>3. ASSUME NEW c \in Calls, Succeeds(c) \/ Fails(c) \/ RejectedAgain(c) PROVE Quiet'
  BY <1>3 DEF Succeeds, Fails, RejectedAgain, Failed
<1>4. ASSUME NEW c \in Calls, Unauthorized(c) PROVE Quiet'
  BY <1>4 DEF Unauthorized, StoredToken, SessionEnds
<1>5. ASSUME NEW t \in Tabs, Logout(t) PROVE Quiet'
  BY <1>5 DEF Logout
<1>6. ASSUME NEW t \in Tabs, Load(t) PROVE Quiet'
  BY <1>6 DEF Load, TypeOK
<1>7. ASSUME NEW t \in Tabs, Rotate(t) \/ Refreshed(t) \/ NotRefreshed(t) PROVE Quiet'
  <2>1. out' = out
    BY <1>7 DEF Rotate, Refreshed, NotRefreshed
  <2>2. InFlight(t)
    <3>1. NoRefresh.got = 0
      BY DEF NoRefresh
    <3>2. QED
      BY <1>7, <3>1 DEF Rotate, Refreshed, NotRefreshed, GivesUp
  <2>3. QED
    BY <2>1, <2>2
<1>8. CASE (\E n \in Tokens : Revoked(n) \/ Expires(n)) \/ UNCHANGED vars
  BY <1>8 DEF Revoked, Expires, vars
<1>9. QED
  BY <1>1, <1>2, <1>3, <1>4, <1>5, <1>6, <1>7, <1>8 DEF Next

\* A sign-out that no refresh is racing stays a sign-out, in every tab, until
\* somebody signs in.
THEOREM SignedOutForGood == Spec => []CleanLogoutSticks
<1>1. Init => Quiet
  BY DEF Init, Quiet
<1>2. Quiet => CleanLogoutSticks
  BY DEF Quiet, CleanLogoutSticks
<1>3. Safety => [](TypeOK /\ Quiet)
  BY <1>1, TypeInit, TypeStep, QuietStep, PTL DEF Safety
<1>4. QED
  BY <1>2, <1>3, SpecIsSafe, PTL

LEMMA LoadStep == TypeOK /\ LoadDecides /\ [Next]_vars => LoadDecides'
<1> SUFFICES ASSUME TypeOK, LoadDecides, [Next]_vars PROVE LoadDecides'
  OBVIOUS
<1> DEFINE Starting(k) == k.kind = "boot" /\ k.phase # "idle"
<1> USE SessionAssumption
<1>1. ASSUME \A t \in Tabs : loading'[t] =>
                 /\ loading[t]
                 /\ \A c \in CallsOf(t) : Starting(call[c]) => Starting(call'[c])
      PROVE  LoadDecides'
  BY <1>1 DEF LoadDecides, CallsOf
<1>2. NoCall.phase = "idle"
  BY DEF NoCall
<1>3. ASSUME NEW c \in Calls, call[c] = NoCall, NEW k, call' = [call EXCEPT ![c] = k],
             loading' = loading
      PROVE  LoadDecides'
  BY <1>1, <1>2, <1>3 DEF TypeOK
<1>4. ASSUME NEW c \in Calls, Login(c) PROVE LoadDecides'
  BY <1>3, <1>4 DEF Login
<1>5. ASSUME NEW c \in Calls, NEW kind, Send(c, kind) PROVE LoadDecides'
  BY <1>3, <1>5 DEF Send, page
<1>6. ASSUME NEW c \in Calls, NEW k, call' = [call EXCEPT ![c] = k],
             \/ loading' = loading /\ call[c].kind # "boot"
             \/ loading' = [loading EXCEPT ![TabOf[c]] = FALSE]
             \/ loading' = [loading EXCEPT ![TabOf[c]] = @ /\ call[c].kind # "boot"]
      PROVE  LoadDecides'
  <2>1. TabOf[c] \in Tabs /\ \A t \in Tabs : loading'[t] => loading[t]
    BY <1>6 DEF TypeOK
  <2>2. loading'[TabOf[c]] => call[c].kind # "boot"
    BY <1>6, <2>1 DEF TypeOK
  <2>3. \A d \in Calls \ {c} : call'[d] = call[d]
    BY <1>6 DEF TypeOK
  <2>4. QED
    BY <1>1, <2>1, <2>2, <2>3 DEF CallsOf
<1>7. ASSUME NEW c \in Calls, Succeeds(c) \/ Fails(c) \/ RejectedAgain(c) PROVE LoadDecides'
  BY <1>6, <1>7 DEF Succeeds, Fails, RejectedAgain, Failed, Decided
<1>8. ASSUME NEW t \in Tabs, NEW calls \in SUBSET CallsOf(t), SessionEnds(t, calls)
      PROVE  LoadDecides'
  <2>1. /\ \A u \in Tabs : loading'[u] => loading[u]
        /\ loading'[t] => \A c \in calls : call[c].kind # "boot"
    BY <1>8 DEF SessionEnds, TypeOK
  <2>2. \A c \in Calls \ calls : call'[c] = call[c]
    BY <1>8 DEF SessionEnds
  <2>3. QED
    BY <1>1, <1>8, <2>1, <2>2 DEF CallsOf
<1>9. ASSUME NEW c \in Calls, Unauthorized(c) PROVE LoadDecides'
  <2>1. CASE store = 0
    BY <1>8, <1>9, <2>1 DEF Unauthorized, StoredToken, CallsOf
  <2>2. CASE store # 0
    <3>1. /\ call' = [call EXCEPT ![c].phase = "waiting", ![c].retried = TRUE]
          /\ loading' = loading
      BY <1>9, <2>2 DEF Unauthorized, StoredToken, page
    <3>2. \A d \in Calls : Starting(call[d]) => Starting(call'[d])
      BY <3>1 DEF TypeOK, CallRecord
    <3>3. QED
      BY <1>1, <3>1, <3>2 DEF CallsOf
  <2>3. QED
    BY <2>1, <2>2
<1>10. ASSUME NEW t \in Tabs, Logout(t) \/ Rotate(t) PROVE LoadDecides'
  BY <1>1, <1>10 DEF Logout, Rotate, page
<1>11. ASSUME NEW t \in Tabs, Load(t) PROVE LoadDecides'
  <2> DEFINE forget == [c \in Calls |-> IF TabOf[c] = t THEN NoCall ELSE call[c]]
  <2>1. \A c \in Calls : TabOf[c] # t => forget[c] = call[c]
    OBVIOUS
  <2>2. CASE store = 0
    <3>1. call' = forget /\ loading' = [loading EXCEPT ![t] = FALSE]
      BY <1>11, <2>2 DEF Load
    <3>2. QED
      BY <1>1, <2>1, <3>1 DEF TypeOK, CallsOf
  <2>3. CASE store # 0
    <3>1. PICK c \in CallsOf(t) : /\ call' = [forget EXCEPT ![c] = Sent("boot", store)]
                                  /\ loading' = [loading EXCEPT ![t] = TRUE]
      BY <1>11, <2>3 DEF Load
    <3>2. Starting(call'[c])
      BY <3>1 DEF Sent, CallsOf
    <3>3. ASSUME NEW u \in Tabs \ {t}, loading'[u]
          PROVE  \E d \in CallsOf(u) : Starting(call'[d])
      <4>1. PICK d \in CallsOf(u) : Starting(call[d])
        BY <3>1, <3>3 DEF LoadDecides, TypeOK
      <4>2. call'[d] = call[d]
        BY <2>1, <3>1, <4>1 DEF CallsOf
      <4>3. QED
        BY <4>1, <4>2
    <3>4. QED
      BY <3>1, <3>2, <3>3 DEF LoadDecides, CallsOf
  <2>4. QED
    BY <2>2, <2>3
<1>12. ASSUME NEW t \in Tabs, Refreshed(t) PROVE LoadDecides'
  <2>1. loading' = loading
    BY <1>12 DEF Refreshed, page
  <2>2. \A c \in Calls : Starting(call[c]) => Starting(call'[c])
    BY <1>12 DEF Refreshed, TypeOK, CallRecord
  <2>3. QED
    BY <1>1, <2>1, <2>2 DEF CallsOf
<1>13. ASSUME NEW t \in Tabs, NotRefreshed(t) PROVE LoadDecides'
  BY <1>8, <1>13 DEF NotRefreshed, Waiting
<1>14. CASE (\E n \in Tokens : Revoked(n) \/ Expires(n)) \/ UNCHANGED vars
  BY <1>1, <1>14 DEF Revoked, Expires, vars, page
<1>15. QED
  BY <1>4, <1>5, <1>7, <1>9, <1>10, <1>11, <1>12, <1>13, <1>14 DEF Next

\* No tab stays behind its loading screen once the start-up call is over,
\* however that call, or the refresh it waited for, ended.
THEOREM ScreenEnds == Spec => []LoadDecides
<1>1. Init => LoadDecides
  BY DEF Init, LoadDecides
<1>2. Safety => [](TypeOK /\ LoadDecides)
  BY <1>1, TypeInit, TypeStep, LoadStep, PTL DEF Safety
<1>3. QED
  BY <1>2, SpecIsSafe, PTL
=============================================================================
