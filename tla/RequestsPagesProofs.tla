------------------------ MODULE RequestsPagesProofs ------------------------
(***************************************************************************)
(* What the pages keep, for any number of requests, calls and polls: their *)
(* types, the session, whose record is on screen, that nothing is taken    *)
(* off it, that a poll runs once at a time, and that a result comes with   *)
(* its record.                                                             *)
(*                                                                         *)
(* Two arguments.  For the screen: only the handler of an answer and the   *)
(* effects of a page touch the stores, and each of them does it in one of  *)
(* five ways (WhatAStepShows).  For the calls: a step moves the slots in   *)
(* one of six ways (CallsMove) and the table in one of four (TableMoves),  *)
(* and PagesKept, which says what a call may be answered and who runs a    *)
(* poll, is kept by each of them (PagesKeptOn).                            *)
(***************************************************************************)
EXTENDS RequestsPages, FiniteSetTheorems, TLAPS

\* The session is known once the sign-in is complete.
KnownSession == callback = "done" => session # "loading"

SessionInv == SessionTypeOK /\ KnownSession /\ SignInIsKept

\* A record with the fields of ExchangeStore.state.
IsExchange(x) == x = [id |-> x.id, of |-> x.of, status |-> x.status, version |-> x.version]

ScreenInv == IsExchange(exchange) /\ ShownBelongs

-----------------------------------------------------------------------------
(* The session. *)

LEMMA SpendKeepsTypes ==
  ASSUME SessionTypeOK, NEW what \in Rare, Spend(what)
  PROVE  left' \in [Rare -> Nat] /\ left'[what] # left[what]
  BY DEF Spend, SessionTypeOK

LEMMA SpendKeepsSession ==
  ASSUME SessionInv, UNCHANGED sessionVars,
         UNCHANGED left \/ \E what \in Rare : Spend(what)
  PROVE  SessionInv'
<1>1. left' \in [Rare -> Nat]
  BY SpendKeepsTypes DEF SessionInv, SessionTypeOK
<1> QED
  BY <1>1 DEF SessionInv, SessionTypeOK, KnownSession, SignInIsKept, sessionVars

LEMMA SessionStepKeeps ==
  ASSUME SessionInv,
         \/ InitReads \/ InitRenews \/ InitSettles \/ CodeExchanged \/ SignInCompletes
         \/ TokenRenewed \/ TokenExpires
         \/ HandleUnauthorized
         \/ SignIn \/ Reload \/ SignOut
  PROVE  SessionInv'
<1> USE DEF SessionInv, SessionTypeOK, KnownSession, SignInIsKept, Users
<1>1. CASE InitReads
  <2>1. PICK user \in {stored, "none"} :
            init' = [phase |-> IF user = "expired" THEN "renewing" ELSE "settling", user |-> user]
    BY <1>1 DEF InitReads
  <2>2. CASE user = "expired"
    BY <1>1, <2>1, <2>2 DEF InitReads
  <2>3. CASE user # "expired"
    BY <1>1, <2>1, <2>3 DEF InitReads
  <2> QED
    BY <2>2, <2>3
<1>2. CASE InitRenews
  BY <1>2 DEF InitRenews
<1>3. CASE InitSettles
  <2>1. init' = [phase |-> "done", user |-> "none"]
        /\ UNCHANGED <<sessionExpired, stored, callback, left>>
    BY <1>3, Zenon DEF InitSettles
  <2>2. CASE session # "loading"
    BY <1>3, <2>1, <2>2 DEF InitSettles
  <2>3. CASE session = "loading"
    <3>1. session' \in {"authenticated", "anonymous"}
      BY <1>3, <2>3 DEF InitSettles, SetUser
    <3>2. callback # "done"
      BY <2>3
    <3> QED
      BY <2>1, <3>1, <3>2
  <2> QED
    BY <2>2, <2>3
<1>4. CASE CodeExchanged
  BY <1>4 DEF CodeExchanged
<1>5. CASE SignInCompletes
  BY <1>5 DEF SignInCompletes, SetUser
<1>6. CASE TokenRenewed
  BY <1>6 DEF TokenRenewed
<1>7. CASE TokenExpires
  <2>1. left' \in [Rare -> Nat]
    BY <1>7, SpendKeepsTypes DEF TokenExpires, Rare
  <2> QED
    BY <1>7, <2>1 DEF TokenExpires
<1>8. CASE HandleUnauthorized
  BY <1>8 DEF HandleUnauthorized
<1>9. CASE SignIn \/ Reload \/ SignOut
  <2>1. PICK at \in {"exchanging", "none"}, user \in Users : Load(at, user)
    BY <1>9 DEF SignIn, Reload, SignOut
  <2>2. left' \in [Rare -> Nat]
    BY <2>1, SpendKeepsTypes DEF Load, Rare
  <2> QED
    BY <2>1, <2>2 DEF Load, InitReading
<1> QED
  BY <1>1, <1>2, <1>3, <1>4, <1>5, <1>6, <1>7, <1>8, <1>9, Zenon

\* How a step leaves the session.
SessionMoves ==
    \/ UNCHANGED sessionVars /\ (UNCHANGED left \/ \E what \in Rare : Spend(what))
    \/ InitReads \/ InitRenews \/ InitSettles \/ CodeExchanged \/ SignInCompletes
    \/ TokenRenewed \/ TokenExpires
    \/ HandleUnauthorized
    \/ SignIn \/ Reload \/ SignOut

-----------------------------------------------------------------------------
(* The screen. *)

\* What a step does to what is shown.
Refreshes == (\E incoming : items' = Merge(incoming)) /\ UNCHANGED exchange
ShowsAnswer ==
    /\ UNCHANGED items
    /\ \E k \in Slots : \E answer :
           exchange.id = calls[k].id /\ exchange' = Shows(k, answer)
StartsLoading ==
    /\ UNCHANGED items
    /\ \E r : exchange' = Loading(r)
    /\ exchange.status # "ready" \/ ~open
ScreenMoves ==
    \/ UNCHANGED <<items, exchange>>
    \/ Refreshes
    \/ ShowsAnswer
    \/ StartsLoading
    \/ Fresh /\ Spend("loads")

LEMMA RefreshKeeps ==
  ASSUME ScreenInv, Refreshes
  PROVE  ScreenInv' /\ StaysOnScreen
<1>1. PICK incoming : items' = Merge(incoming)
  BY DEF Refreshes
<1>2. \A r \in Requests : Known(r) => items'[r].status # "none"
  BY <1>1 DEF Merge, Known
<1> QED
  BY <1>2 DEF Refreshes, StaysOnScreen, ScreenInv, ShownBelongs

ExchangeFields(i, o, s, v) == [id |-> i, of |-> o, status |-> s, version |-> v]

\* The three forms of Shows.
LEMMA ShowsIsExchange ==
  ASSUME IsExchange(exchange), NEW k \in Slots, NEW answer
  PROVE  \/ Shows(k, answer) = ExchangeFields(exchange.id, calls[k].id, "ready", answer.version)
         \/ Shows(k, answer) = exchange /\ exchange.status = "ready"
         \/ /\ exchange.status # "ready"
            /\ \E s \in {"empty", "error"} :
                   Shows(k, answer) = ExchangeFields(exchange.id, exchange.of, s, exchange.version)
<1>1. exchange = ExchangeFields(exchange.id, exchange.of, exchange.status, exchange.version)
  BY Zenon DEF IsExchange, ExchangeFields
<1>2. CASE answer.code = "ok" /\ answer.version > 0
  <2>1. Shows(k, answer) = [exchange EXCEPT !.status = "ready", !.of = calls[k].id,
                                            !.version = answer.version]
    BY <1>2, Zenon DEF Shows
  <2> DEFINE a == ExchangeFields(exchange.id, exchange.of, "ready", exchange.version)
             b == ExchangeFields(exchange.id, calls[k].id, "ready", exchange.version)
  <2>2. [exchange EXCEPT !.status = "ready"] = a
    BY <1>1 DEF ExchangeFields
  <2>3. [a EXCEPT !.of = calls[k].id] = b
    BY DEF ExchangeFields
  <2>4. [b EXCEPT !.version = answer.version]
          = ExchangeFields(exchange.id, calls[k].id, "ready", answer.version)
    BY DEF ExchangeFields
  <2>5. [exchange EXCEPT !.status = "ready", !.of = calls[k].id, !.version = answer.version]
          = [[[exchange EXCEPT !.status = "ready"] EXCEPT !.of = calls[k].id]
                EXCEPT !.version = answer.version]
    BY Zenon
  <2> HIDE DEF a, b
  <2> QED
    BY <2>1, <2>2, <2>3, <2>4, <2>5, Zenon
<1>3. CASE ~(answer.code = "ok" /\ answer.version > 0) /\ exchange.status = "ready"
  BY <1>3, Zenon DEF Shows
<1>4. CASE ~(answer.code = "ok" /\ answer.version > 0) /\ exchange.status # "ready"
  <2>1. PICK s \in {"empty", "error"} : Shows(k, answer) = [exchange EXCEPT !.status = s]
    BY <1>4, Zenon DEF Shows
  <2>2. [exchange EXCEPT !.status = s]
          = ExchangeFields(exchange.id, exchange.of, s, exchange.version)
    BY <1>1 DEF ExchangeFields
  <2> QED
    BY <1>4, <2>1, <2>2
<1> QED
  BY <1>2, <1>3, <1>4

LEMMA AnswerKeeps ==
  ASSUME ScreenInv, ShowsAnswer
  PROVE  ScreenInv' /\ StaysOnScreen
<1>1. PICK k \in Slots : \E answer : exchange.id = calls[k].id /\ exchange' = Shows(k, answer)
  BY Zenon DEF ShowsAnswer
<1>2. PICK answer : exchange.id = calls[k].id /\ exchange' = Shows(k, answer)
  BY <1>1, Zenon
<1>3. \A r \in Requests : Known(r) => items'[r].status # "none"
  BY DEF ShowsAnswer, Known
<1>4. CASE exchange' = ExchangeFields(exchange.id, calls[k].id, "ready", answer.version)
  <2>1. IsExchange(exchange') /\ exchange'.id = exchange.id /\ exchange'.of = calls[k].id
        /\ exchange'.status = "ready"
    BY <1>4 DEF ExchangeFields, IsExchange
  <2> QED
    BY <1>2, <1>3, <2>1 DEF ScreenInv, ShownBelongs, StaysOnScreen, IsExchange
<1>5. CASE exchange' = exchange
  BY <1>3, <1>5 DEF ScreenInv, ShownBelongs, StaysOnScreen, IsExchange
<1>6. CASE /\ exchange.status # "ready"
           /\ \E s \in {"empty", "error"} :
                  exchange' = ExchangeFields(exchange.id, exchange.of, s, exchange.version)
  <2>1. PICK s \in {"empty", "error"} :
            exchange' = ExchangeFields(exchange.id, exchange.of, s, exchange.version)
    BY <1>6
  <2>2. IsExchange(exchange') /\ exchange'.status = s
    BY <2>1 DEF ExchangeFields, IsExchange
  <2> QED
    BY <1>3, <1>6, <2>2 DEF ScreenInv, ShownBelongs, StaysOnScreen, IsExchange
<1> QED
  BY <1>2, <1>4, <1>5, <1>6, ShowsIsExchange, Zenon DEF ScreenInv

LEMMA LoadingKeeps ==
  ASSUME ScreenInv, StartsLoading
  PROVE  ScreenInv' /\ StaysOnScreen
<1>1. PICK r : exchange' = Loading(r)
  BY DEF StartsLoading
<1>2. IsExchange(exchange') /\ exchange'.status = "loading"
  BY <1>1 DEF Loading, IsExchange
<1>3. \A q \in Requests : Known(q) => items'[q].status # "none"
  BY DEF StartsLoading, Known
<1>4. exchange.status # "ready" \/ ~open
  BY DEF StartsLoading
<1> QED
  BY <1>2, <1>3, <1>4 DEF ScreenInv, ShownBelongs, StaysOnScreen, IsExchange

LEMMA FreshKeeps ==
  ASSUME Fresh
  PROVE  ScreenInv'
  BY DEF Fresh, ScreenInv, ShownBelongs, IsExchange

LEMMA NothingKeeps ==
  ASSUME ScreenInv, UNCHANGED <<items, exchange>>
  PROVE  ScreenInv' /\ StaysOnScreen
  BY DEF ScreenInv, ShownBelongs, IsExchange, StaysOnScreen, Known

-----------------------------------------------------------------------------
(* The steps. *)

Moves == SessionMoves /\ ScreenMoves

LEMMA QuietMoves ==
  ASSUME UNCHANGED <<items, exchange, sessionVars>>,
         UNCHANGED left \/ \E what \in Rare : Spend(what)
  PROVE  Moves
  BY DEF Moves, SessionMoves, ScreenMoves

LEMMA ServerMoves ==
  ASSUME ServerStep
  PROVE  Moves
<1>1. UNCHANGED <<items, exchange, sessionVars>>
  BY DEF ServerStep, stores
<1>2. UNCHANGED left \/ Spend("records")
  BY Zenon DEF ServerStep, RecordWritten
<1> QED
  BY <1>1, <1>2, QuietMoves DEF Rare

LEMMA UserMoves ==
  ASSUME UserStep
  PROVE  Moves
<1>1. CASE OpenPage
  <2>1. UNCHANGED <<left, sessionVars>> /\ ~open
    BY <1>1, Zenon DEF OpenPage
  <2>2. CASE LoadsList \/ UNCHANGED <<stores, calls>>
    BY <2>1, <2>2, QuietMoves DEF LoadsList, stores
  <2>3. CASE OpensDetails(page)
    <3>1. UNCHANGED items /\ exchange' = Loading(page)
      BY <2>3, Zenon DEF OpensDetails, LoadsDetail
    <3> QED
      BY <2>1, <3>1 DEF Moves, SessionMoves, ScreenMoves, StartsLoading
  <2> QED
    BY <1>1, <2>2, <2>3, Zenon DEF OpenPage
<1>2. CASE TryAgain
  <2>1. UNCHANGED <<left, sessionVars>>
    BY <1>2, Zenon DEF TryAgain
  <2>2. \/ UNCHANGED <<items, exchange>>
        \/ exchange.status = "error" /\ exchange' = Loading(page) /\ UNCHANGED items
    BY <1>2, Zenon DEF TryAgain, PanelOffersTryAgain, LoadsList, LoadsDetail
  <2> QED
    BY <2>1, <2>2 DEF Moves, SessionMoves, ScreenMoves, StartsLoading
<1>3. CASE Submit
  BY <1>3, QuietMoves DEF Submit, stores
<1>4. CASE SendAgain
  BY <1>4, QuietMoves DEF SendAgain, Rare
<1>5. CASE TabHidden
  BY <1>5, QuietMoves DEF TabHidden, stores, Rare
<1>6. CASE TabShown
  BY <1>6, QuietMoves DEF TabShown, stores
<1>7. CASE \E p \in Pages : Navigate(p)
  BY <1>7, QuietMoves DEF Navigate, stores, Rare
<1>8. CASE \E r \in Requests : SentAgainElsewhere(r)
  BY <1>8, QuietMoves DEF SentAgainElsewhere, stores, Rare
<1> QED
  BY <1>1, <1>2, <1>3, <1>4, <1>5, <1>6, <1>7, <1>8, Zenon DEF UserStep

LEMMA LoadMoves ==
  ASSUME AppLoads
  PROVE  Moves
<1>1. SignIn \/ Reload \/ SignOut
  BY Zenon DEF AppLoads
<1>2. Fresh
  BY Zenon DEF AppLoads
<1>3. Spend("loads")
  BY <1>1, Zenon DEF SignIn, Reload, SignOut, Load
<1> QED
  BY <1>1, <1>2, <1>3, Zenon DEF Moves, SessionMoves, ScreenMoves

LEMMA AnswerMoves ==
  ASSUME NEW k \in Slots, NEW answer, ReadArrives(k, answer)
  PROVE  UNCHANGED sessionVars /\ ScreenMoves
<1>1. UNCHANGED sessionVars
  BY Zenon DEF ReadArrives
<1>2. CASE ListArrives(k, answer)
  <2>1. UNCHANGED exchange /\ (items' = Merge(answer.rows) \/ UNCHANGED items)
    BY <1>2, Zenon DEF ListArrives
  <2> QED
    BY <1>1, <2>1 DEF ScreenMoves, Refreshes
<1>3. CASE DetailArrives(k, answer)
  <2>1. UNCHANGED exchange /\ items' = Merge(answer.rows)
    BY <1>3, Zenon DEF DetailArrives
  <2> QED
    BY <1>1, <2>1 DEF ScreenMoves, Refreshes
<1>4. CASE ExchangeArrives(k, answer)
  <2>1. /\ UNCHANGED items
        /\ \/ exchange.id = calls[k].id /\ exchange' = Shows(k, answer)
           \/ UNCHANGED exchange
    BY <1>4, Zenon DEF ExchangeArrives
  <2> QED
    BY <1>1, <2>1, Zenon DEF ScreenMoves, ShowsAnswer
<1> QED
  BY <1>2, <1>3, <1>4, Zenon DEF ReadArrives

LEMMA CallMoves ==
  ASSUME NEW k \in Slots, CallStep(k)
  PROVE  Moves
<1>1. CASE Serves(k)
  BY <1>1, QuietMoves DEF Serves, stores
<1>2. CASE WriteFails(k)
  BY <1>2, QuietMoves DEF WriteFails, MayFail, stores, Rare
<1>3. CASE Unauthorized(k)
  BY <1>3 DEF Unauthorized, Moves, SessionMoves, ScreenMoves, stores
<1>4. CASE Arrives(k)
  <2>1. \E answer : ReadArrives(k, answer)
    BY <1>4, Zenon DEF Arrives
  <2>2. UNCHANGED left \/ Spend("failures")
    BY <1>4, Zenon DEF Arrives, MayFail
  <2>3. UNCHANGED sessionVars /\ ScreenMoves
    BY <2>1, AnswerMoves, Zenon
  <2> QED
    BY <2>2, <2>3 DEF Moves, SessionMoves, Rare
<1>5. CASE CreateArrives(k)
  <2>1. UNCHANGED <<exchange, left, sessionVars>>
        /\ ((\E incoming : items' = Merge(incoming)) \/ UNCHANGED items)
    BY <1>5, Zenon DEF CreateArrives
  <2> QED
    BY <2>1 DEF Moves, SessionMoves, ScreenMoves, Refreshes
<1>6. CASE RetryArrives(k)
  <2>1. UNCHANGED <<exchange, left, sessionVars>>
        /\ ((\E incoming : items' = Merge(incoming)) \/ UNCHANGED items)
    BY <1>6, Zenon DEF RetryArrives
  <2> QED
    BY <2>1 DEF Moves, SessionMoves, ScreenMoves, Refreshes
<1> QED
  BY <1>1, <1>2, <1>3, <1>4, <1>5, <1>6, Zenon DEF CallStep

LEMMA WhatAStepShows ==
  ASSUME [Next]_vars
  PROVE  Moves
<1>1. CASE TokenRunsOut
  BY <1>1 DEF TokenRunsOut, Moves, SessionMoves, ScreenMoves, stores
<1>2. CASE SessionStep
  BY <1>2 DEF SessionStep, Moves, SessionMoves, ScreenMoves, stores
<1>3. CASE \E p \in Polls : TimerFires(p)
  BY <1>3, QuietMoves DEF TimerFires, stores
<1>4. CASE UNCHANGED vars
  BY <1>4, QuietMoves DEF vars, stores
<1> QED
  BY <1>1, <1>2, <1>3, <1>4, ServerMoves, UserMoves, LoadMoves, CallMoves, Zenon DEF Next

-----------------------------------------------------------------------------
(* The theorems about the session and the screen. *)

\* The session's variables stay in their types, and whoever completed the
\* sign-in has a known session: authenticated until the API rejects the token.
THEOREM SessionHolds == Spec => []SessionInv
<1>1. ASSUME Init PROVE SessionInv
  <2>1. SessionInit
    BY <1>1, Zenon DEF Init
  <2>2. SessionTypeOK
    BY <2>1, SessionAssumption DEF SessionInit, SessionTypeOK, Users, InitReading
  <2>3. callback # "done"
    BY <2>1 DEF SessionInit
  <2> QED
    BY <2>2, <2>3, Zenon DEF SessionInv, KnownSession, SignInIsKept
<1>2. ASSUME SessionInv, [Next]_vars PROVE SessionInv'
  <2>1. SessionMoves
    BY <1>2, WhatAStepShows DEF Moves
  <2> QED
    BY <1>2, <2>1, SpendKeepsSession, SessionStepKeeps, Zenon DEF SessionMoves
<1> QED
  BY <1>1, <1>2, PTL DEF Spec

\* AuthStore.init never puts the sign-in page in front of somebody whose sign-in
\* finished while it was still reading.
THEOREM SignInKept == Spec => []SignInIsKept
<1>1. SessionInv => SignInIsKept
  BY DEF SessionInv
<1> QED
  BY <1>1, SessionHolds, PTL

LEMMA ScreenStepHolds == ScreenInv /\ [Next]_vars => ScreenInv'
<1> SUFFICES ASSUME ScreenInv, [Next]_vars PROVE ScreenInv'
  OBVIOUS
<1>1. ScreenMoves
  BY WhatAStepShows DEF Moves
<1> QED
  BY <1>1, RefreshKeeps, AnswerKeeps, LoadingKeeps, FreshKeeps, NothingKeeps, Zenon DEF ScreenMoves

LEMMA ScreenHolds == Spec => []ScreenInv
<1>1. Init => ScreenInv
  BY DEF Init, ScreenInv, ShownBelongs, IsExchange
<1> QED
  BY <1>1, ScreenStepHolds, PTL DEF Spec

\* The record that ExchangeStore shows is that of the request it is shown for,
\* in whatever order pages are opened and answers arrive.
THEOREM RecordBelongs == Spec => []ShownBelongs
<1>1. ScreenInv => ShownBelongs
  BY DEF ScreenInv
<1> QED
  BY <1>1, ScreenHolds, PTL

\* Within one load of the app no request and no record is taken off the screen
\* by an answer that is older, empty or a failure.
THEOREM NothingIsTakenAway == Spec => NothingTakenAway
<1>1. ASSUME SessionInv, ScreenInv, [Next]_vars, left'.loads = left.loads
      PROVE  StaysOnScreen
  <2>1. ScreenMoves
    BY <1>1, WhatAStepShows DEF Moves
  <2>2. ~Spend("loads")
    BY <1>1, SpendKeepsTypes DEF SessionInv, Rare
  <2> QED
    BY <1>1, <2>1, <2>2, RefreshKeeps, AnswerKeeps, LoadingKeeps, NothingKeeps, Zenon DEF ScreenMoves
<1>2. SessionInv /\ ScreenInv /\ [Next]_vars => [left'.loads = left.loads => StaysOnScreen]_vars
  BY <1>1
<1> QED
  BY <1>2, SessionHolds, ScreenHolds, PTL DEF Spec, NothingTakenAway

-----------------------------------------------------------------------------
(* Slots. *)

\* A non-empty set of slots has a lowest one: of the intervals that end at its
\* members, one includes no other.
LEMMA LowestIsLeast ==
  ASSUME NEW S, S \subseteq Slots, S # {}
  PROVE  Lowest(S) \in S
<1> DEFINE upTo(k) == 1 .. k
           ends == {upTo(k) : k \in S}
<1>1. \A k \in S : k \in Nat /\ upTo(k) \in SUBSET Nat /\ IsFiniteSet(upTo(k))
  BY FS_Interval DEF Slots
<1>2. ends \subseteq FiniteSubsetsOf(Nat)
  BY <1>1 DEF FiniteSubsetsOf
<1>3. ends # {}
  OBVIOUS
<1>4. \E x \in ends : \A y \in ends : ~(<<y, x>> \in StrictSubsetOrdering(Nat))
  <2> HIDE DEF ends
  <2> QED
    BY <1>2, <1>3, FS_StrictSubsetOrderingWellFounded, WFMin
<1>5. PICK k \in S : \A l \in S : <<upTo(l), upTo(k)>> \notin StrictSubsetOrdering(Nat)
  BY <1>4
<1>6. ASSUME NEW l \in S, ~(k <= l) PROVE FALSE
  <2>1. k \in Nat /\ l \in Nat /\ k > 0 /\ l < k
    BY <1>6 DEF Slots
  <2>2. upTo(l) \subseteq upTo(k) /\ upTo(l) # upTo(k)
    <3>1. k \in upTo(k) /\ k \notin upTo(l)
      BY <2>1
    <3> QED
      BY <2>1, <3>1
  <2>3. <<upTo(l), upTo(k)>> \in StrictSubsetOrdering(Nat)
    <3> HIDE DEF upTo
    <3> QED
      BY <1>1, <2>2 DEF StrictSubsetOrdering
  <2> QED
    BY <1>5, <2>3
<1> QED
  BY <1>6, Zenon DEF Lowest

\* A record with the fields of a call.
CallOf(t, i, a, m, c, f, h, w, l) ==
    [task |-> t, id |-> i, ask |-> a, mounted |-> m, code |-> c, from |-> f,
     had |-> h, read |-> w, token |-> l]

\* Its fields.
LEMMA CallSelects ==
  ASSUME NEW t, NEW i, NEW a, NEW m, NEW c, NEW f, NEW h, NEW w, NEW l
  PROVE  LET d == CallOf(t, i, a, m, c, f, h, w, l) IN
         /\ d.task = t /\ d.id = i /\ d.ask = a /\ d.mounted = m /\ d.code = c
         /\ d.from = f /\ d.had = h /\ d.read = w /\ d.token = l
  BY DEF CallOf

LEMMA CallFields ==
  ASSUME NEW c \in Calls
  PROVE  c = CallOf(c.task, c.id, c.ask, c.mounted, c.code, c.from, c.had, c.read, c.token)
  BY DEF Calls, CallOf

LEMMA CallOfTyped ==
  ASSUME NEW t \in Tasks \cup {"free"}, NEW i \in Requests \cup {NoRequest},
         NEW a \in {"list", "get", "exchange", "create", "retry"}, NEW m \in BOOLEAN,
         NEW c \in {"waiting", "ok", "not_found", "not_retryable", "failed"},
         NEW f \in [Requests -> Nat], NEW h \in Nat, NEW w \in Rows, NEW l \in Tokens
  PROVE  CallOf(t, i, a, m, c, f, h, w, l) \in Calls
  BY DEF Calls, CallOf

-----------------------------------------------------------------------------
(* What holds of the server, of the stores, of the screen and of the calls. *)

ServerTyped ==
    /\ log \in [Requests -> Seq(Rows)]
    /\ copy \in [Requests -> Nat]
    /\ records \in [Requests -> Nat]
    /\ inRun \in [Requests -> BOOLEAN]

Exchanges == [id : Requests \cup {NoRequest}, of : Requests \cup {NoRequest},
              status : {"none", "loading", "empty", "ready", "error"}, version : Nat]

Details == [id : Requests \cup {NoRequest},
            status : {"none", "loading", "ready", "not-found", "error"}]

StoresTyped ==
    /\ items \in [Requests -> Rows]
    /\ detail \in Details
    /\ exchange \in Exchanges
    /\ retrying \subseteq Requests
    /\ listState \in {"idle", "loading", "ready", "error"}

ScreenTyped == page \in Pages /\ open \in BOOLEAN /\ hidden \in BOOLEAN

\* A copy is at most one version behind.  A request that begins unstored is
\* created first, so that its results come no earlier than as third version.
LogKept(r) ==
    /\ Len(log[r]) > 0
    /\ copy[r] > 0 /\ copy[r] <= Len(log[r]) /\ Len(log[r]) <= copy[r] + 1
    /\ log[r][1].status = Start[r]
    /\ \A i \in 1 .. Len(log[r]) :
          /\ log[r][i].rec <= records[r]
          /\ log[r][i].status = "none" => i = 1
          /\ IsTerminal(log[r][i].status) /\ Start[r] = "none" => i > 2

LogsKept == \A r \in Requests : LogKept(r)

\* A call about a request has its id; it is answered with a version that there
\* is; only a page that is gone is refused a read; and the poll that has read
\* a result asks for the record at a time when there is one.
CallKept(c) ==
    /\ c.ask \in {"get", "exchange", "retry"} \/ c.code = "ok" => c.id \in Requests
    /\ c.task # "free" /\ c.ask = "list" => \A r \in Requests : c.from[r] > 0
    /\ c.ask \in {"get", "exchange"} => c.from[c.id] > 0
    /\ c.mounted /\ c.code = "failed" => c.ask \in {"create", "retry"}
    /\ c.task = "status poll" /\ c.ask = "exchange" =>
           /\ c.read.rec <= c.had
           /\ IsTerminal(c.read.status) /\ Start[c.id] = "none" => c.from[c.id] > 1

CallsKept == calls \in [Slots -> Calls] /\ \A k \in Slots : CallKept(calls[k])

\* The slot k runs the poll p of the page on screen.
On(p, k) == calls[k].task = p /\ calls[k].mounted

PollsKept ==
    /\ running \in [Polls -> BOOLEAN]
    /\ \A p \in Polls : running[p] <=> \E k \in Slots : On(p, k)
    /\ \A p \in Polls : \A k, l \in Slots : On(p, k) /\ On(p, l) => k = l

PagesInv ==
    /\ SessionInv
    /\ ServerTyped /\ StoresTyped /\ ScreenTyped
    /\ LogsKept /\ CallsKept /\ PollsKept

-----------------------------------------------------------------------------
(* What a step does to the calls. *)

\* The same call, with its answer or without its page.
Lasts(c, d) ==
    /\ d \in Calls
    /\ d.task = c.task /\ d.ask = c.ask /\ d.from = c.from /\ d.had = c.had
    /\ d.mounted => c.mounted
    /\ \/ d.id = c.id /\ d.code = c.code /\ d.read = c.read
       \/ c.ask \in {"create", "retry"} /\ (d.id \in Requests \/ (d.id = c.id /\ d.code # "ok"))
       \/ d.id = c.id /\ d.read = c.read /\ d.code = "failed" /\ ~d.mounted

Becomes(k, d) == calls' = [calls EXCEPT ![k] = d]

CallsLast ==
    /\ UNCHANGED running
    /\ calls' \in [Slots -> Calls]
    /\ \A k \in Slots : Lasts(calls[k], calls'[k]) /\ calls'[k].mounted = calls[k].mounted

PageLeft ==
    /\ running' = [p \in Polls |-> FALSE]
    /\ calls' \in [Slots -> Calls]
    /\ \A k \in Slots :
          /\ ~calls'[k].mounted
          /\ \/ Lasts(calls[k], calls'[k])
             \/ calls'[k] = Free /\ (calls[k].task = "create" \/ Spend("loads"))

CallEnds(k) ==
    /\ Arrives(k) \/ calls[k].task \in {"create", "retry"}
    /\ Becomes(k, Free)
    /\ running' = IF calls[k].mounted /\ calls[k].task \in Polls
                  THEN [running EXCEPT ![calls[k].task] = FALSE] ELSE running

AsksAgain(k) ==
    \E d \in Calls :
        /\ Becomes(k, d) /\ UNCHANGED running
        /\ d.task = calls[k].task /\ d.task # "free" /\ d.mounted = calls[k].mounted
        /\ CallKept(d)

\* A call that begins in a free slot.
Begins(k, d) == calls[k].task = "free" /\ d \in Calls /\ d.mounted /\ d.task # "free" /\ CallKept(d)

CallBegins(k) ==
    \E d : /\ Begins(k, d) /\ Becomes(k, d)
          /\ \/ d.task \notin Polls /\ UNCHANGED running
             \/ /\ d.task \in Polls /\ ~running[d.task]
                /\ running' = [running EXCEPT ![d.task] = TRUE]

TwoBegin(k, l) ==
    \E d, e : /\ Begins(k, d) /\ Begins(l, e) /\ k # l
             /\ calls' = [calls EXCEPT ![k] = d, ![l] = e]
             /\ d.task \notin Polls /\ e.task \notin Polls /\ UNCHANGED running

CallsMove ==
    \/ CallsLast \/ PageLeft
    \/ \E k \in Slots : CallEnds(k) \/ AsksAgain(k) \/ CallBegins(k)
    \/ \E k, l \in Slots : TwoBegin(k, l)

\* What a step does to the table and its copy.
Written(r, row) ==
    /\ Write(r, row)
    /\ row \in Rows /\ row.rec <= records[r] /\ row.status # "none"
    /\ IsTerminal(row.status) /\ Start[r] = "none" => Len(log[r]) > 1

TableMoves ==
    /\ inRun' \in [Requests -> BOOLEAN]
    /\ \/ UNCHANGED <<log, copy, records>>
       \/ \E r \in Requests, row \in Rows : Written(r, row) /\ UNCHANGED records
       \/ \E r \in Requests : records' = [records EXCEPT ![r] = @ + 1] /\ UNCHANGED <<log, copy>>
       \/ \E r \in Requests : copy' = [copy EXCEPT ![r] = Len(log[r])] /\ UNCHANGED <<log, records>>

-----------------------------------------------------------------------------
(* What these ways keep. *)

LEMMA ServerKept ==
  ASSUME ServerTyped, LogsKept, TableMoves
  PROVE  ServerTyped' /\ LogsKept'
<1>1. CASE UNCHANGED <<log, copy, records>>
  BY <1>1 DEF ServerTyped, LogsKept, LogKept, TableMoves
<1>2. ASSUME NEW r \in Requests, NEW row \in Rows, Written(r, row), UNCHANGED records
      PROVE  ServerTyped' /\ LogsKept'
  <2> DEFINE n == Len(log[r])
  <2>1. log[r] \in Seq(Rows) /\ n \in Nat /\ n > 0
    BY DEF ServerTyped, LogsKept, LogKept
  <2>2. /\ log'[r] = Append(log[r], row) /\ copy'[r] = n
        /\ \A q \in Requests \ {r} : log'[q] = log[q] /\ copy'[q] = copy[q]
    BY <1>2 DEF Written, Write, ServerTyped
  <2>3. /\ Append(log[r], row) \in Seq(Rows) /\ Len(Append(log[r], row)) = n + 1
        /\ \A i \in 1 .. n : Append(log[r], row)[i] = log[r][i]
        /\ Append(log[r], row)[n + 1] = row
    BY <2>1
  <2>4. ServerTyped'
    BY <1>2, <2>1, <2>3 DEF Written, Write, ServerTyped, TableMoves
  <2>5. LogKept(r)'
    <3> HIDE DEF n
    <3>1. LogKept(r) /\ n = Len(log[r])
      BY DEF LogsKept, n
    <3>2. Len(log'[r]) = n + 1 /\ copy'[r] = n
      BY <2>2, <2>3
    <3>3. ASSUME NEW i \in 1 .. n + 1
          PROVE  /\ log'[r][i].rec <= records'[r]
                 /\ log'[r][i].status = "none" => i = 1
                 /\ IsTerminal(log'[r][i].status) /\ Start[r] = "none" => i > 2
      <4>1. CASE i \in 1 .. n
        <5>1. log'[r][i] = log[r][i]
          BY <2>2, <2>3, <4>1
        <5> QED
          BY <1>2, <3>1, <4>1, <5>1 DEF LogKept
      <4>2. CASE i = n + 1
        <5>1. log'[r][i] = row
          BY <2>2, <2>3, <4>2
        <5> QED
          BY <1>2, <2>1, <3>1, <4>2, <5>1 DEF Written
      <4> QED
        BY <2>1, <4>1, <4>2
    <3>4. log'[r][1].status = Start[r]
      BY <2>1, <2>2, <2>3, <3>1 DEF LogKept
    <3> QED
      BY <2>1, <3>2, <3>3, <3>4 DEF LogKept
  <2>6. \A q \in Requests \ {r} : LogKept(q)'
    BY <1>2, <2>2 DEF LogsKept, LogKept
  <2> QED
    BY <2>1, <2>2, <2>3, <2>4, <2>5, <2>6 DEF LogsKept
<1>3. ASSUME NEW r \in Requests, records' = [records EXCEPT ![r] = @ + 1], UNCHANGED <<log, copy>>
      PROVE  ServerTyped' /\ LogsKept'
  <2>1. \A q \in Requests : records[q] \in Nat /\ records'[q] \in Nat /\ records'[q] >= records[q]
    BY <1>3 DEF ServerTyped
  <2>2. ASSUME NEW q \in Requests, NEW i \in 1 .. Len(log[q])
        PROVE  log[q][i].rec \in Nat
    <3>1. log[q] \in Seq(Rows)
      BY DEF ServerTyped
    <3>2. log[q][i] \in Rows
      BY <3>1
    <3> QED
      BY <3>2 DEF Rows
  <2>3. ServerTyped'
    BY <1>3, <2>1 DEF ServerTyped, TableMoves
  <2>4. ASSUME NEW q \in Requests PROVE LogKept(q)'
    <3>1. \A i \in 1 .. Len(log[q]) : log[q][i].rec <= records'[q]
      BY <2>1, <2>2 DEF LogsKept, LogKept
    <3> QED
      BY <1>3, <3>1 DEF LogsKept, LogKept
  <2> QED
    BY <2>3, <2>4 DEF LogsKept
<1>4. ASSUME NEW r \in Requests, copy' = [copy EXCEPT ![r] = Len(log[r])], UNCHANGED <<log, records>>
      PROVE  ServerTyped' /\ LogsKept'
  <2>1. \A q \in Requests : Len(log[q]) \in Nat
    BY DEF ServerTyped
  <2>2. ServerTyped'
    BY <1>4, <2>1 DEF ServerTyped, TableMoves
  <2>3. ASSUME NEW q \in Requests PROVE LogKept(q)'
    <3>1. LogKept(q) /\ copy'[q] \in {copy[q], Len(log[q])} /\ copy[q] \in Nat
      BY <1>4 DEF LogsKept, ServerTyped
    <3>2. copy'[q] > 0 /\ copy'[q] <= Len(log[q]) /\ Len(log[q]) <= copy'[q] + 1
      BY <2>1, <3>1 DEF LogKept
    <3> QED
      BY <1>4, <3>1, <3>2 DEF LogKept
  <2> QED
    BY <2>2, <2>3 DEF LogsKept
<1> QED
  BY <1>1, <1>2, <1>3, <1>4 DEF TableMoves


\* A call that lasts stays kept.
LEMMA CallLasts ==
  ASSUME NEW c, NEW d, Lasts(c, d), CallKept(c)
  PROVE  CallKept(d)
<1>1. /\ d.task = c.task /\ d.ask = c.ask /\ d.from = c.from /\ d.had = c.had
      /\ d.mounted => c.mounted
  BY DEF Lasts
<1>2. CASE d.id = c.id /\ d.code = c.code /\ d.read = c.read
  BY <1>1, <1>2 DEF CallKept
<1>3. CASE c.ask \in {"create", "retry"} /\ (d.id \in Requests \/ (d.id = c.id /\ d.code # "ok"))
  BY <1>1, <1>3 DEF CallKept
<1>4. CASE d.id = c.id /\ d.read = c.read /\ d.code = "failed" /\ ~d.mounted
  BY <1>1, <1>4 DEF CallKept
<1> QED
  BY <1>2, <1>3, <1>4 DEF Lasts

LEMMA FreeIsKept == Free \in Calls /\ CallKept(Free) /\ Free.task = "free" /\ ~Free.mounted
<1>1. Absent \in Rows
  BY DEF Absent, Rows
<1>2. Zeros \in [Requests -> Nat]
  BY DEF Zeros
<1>3. Free \in Calls
  <2> DEFINE no == FALSE
  <2>1. no \in BOOLEAN
    OBVIOUS
  <2>2. Free = CallOf("free", NoRequest, "list", no, "waiting", Zeros, 0, Absent, "good")
    BY DEF Free, CallOf
  <2> HIDE DEF no
  <2> QED
    BY <1>1, <1>2, <2>1, <2>2, CallOfTyped DEF Tokens
<1> QED
  BY <1>3 DEF Free, CallKept

LEMMA CallsKeptOn ==
  ASSUME CallsKept, CallsMove
  PROVE  CallsKept'
<1>1. calls \in [Slots -> Calls] /\ \A k \in Slots : CallKept(calls[k])
  BY DEF CallsKept
<1>2. CASE CallsLast \/ PageLeft
  BY <1>1, <1>2, CallLasts, FreeIsKept DEF CallsLast, PageLeft, CallsKept
<1>3. ASSUME NEW k \in Slots, CallEnds(k) \/ AsksAgain(k) \/ CallBegins(k)
      PROVE  CallsKept'
  <2>1. PICK d \in Calls : Becomes(k, d) /\ CallKept(d)
    BY <1>3, FreeIsKept, Zenon DEF CallEnds, AsksAgain, CallBegins, Begins
  <2> QED
    BY <1>1, <2>1 DEF CallsKept, Becomes
<1>4. ASSUME NEW k \in Slots, NEW l \in Slots, TwoBegin(k, l)
      PROVE  CallsKept'
  <2>1. PICK d, e : Begins(k, d) /\ Begins(l, e) /\ k # l /\ calls' = [calls EXCEPT ![k] = d, ![l] = e]
    BY <1>4, Zenon DEF TwoBegin
  <2> QED
    BY <1>1, <2>1 DEF CallsKept, Begins
<1> QED
  BY <1>2, <1>3, <1>4, Zenon DEF CallsMove

\* Who runs a poll, and `running`, change together.
LEMMA PollsKeptOn ==
  ASSUME CallsKept, PollsKept, CallsMove
  PROVE  PollsKept'
<1>0. calls \in [Slots -> Calls] /\ running \in [Polls -> BOOLEAN]
  BY DEF CallsKept, PollsKept
<1>1. CASE CallsLast
  <2>1. \A p \in Polls : \A k \in Slots : On(p, k)' <=> On(p, k)
    BY <1>1 DEF CallsLast, Lasts, On
  <2> QED
    BY <1>1, <2>1 DEF CallsLast, PollsKept
<1>2. CASE PageLeft
  BY <1>2 DEF PageLeft, PollsKept, On
<1>3. ASSUME NEW k \in Slots, CallEnds(k) PROVE PollsKept'
  <2>1. calls'[k] = Free /\ \A l \in Slots \ {k} : calls'[l] = calls[l]
    BY <1>0, <1>3 DEF CallEnds, Becomes
  <2>2. \A p : ~On(p, k)' /\ \A l \in Slots \ {k} : On(p, l)' <=> On(p, l)
    BY <2>1, FreeIsKept DEF On
  <2>3. \A p \in Polls : running'[p] = IF On(p, k) THEN FALSE ELSE running[p]
    BY <1>0, <1>3 DEF CallEnds, On
  <2> QED
    BY <1>0, <1>3, <2>2, <2>3 DEF PollsKept, CallEnds
<1>4. ASSUME NEW k \in Slots, AsksAgain(k) PROVE PollsKept'
  <2>1. UNCHANGED running /\ \A p : \A l \in Slots : On(p, l)' <=> On(p, l)
    BY <1>0, <1>4 DEF AsksAgain, Becomes, On
  <2> QED
    BY <2>1 DEF PollsKept
<1>5. ASSUME NEW k \in Slots, CallBegins(k) PROVE PollsKept'
  <2>1. PICK d : /\ Begins(k, d) /\ Becomes(k, d)
                 /\ \/ d.task \notin Polls /\ UNCHANGED running
                    \/ /\ d.task \in Polls /\ ~running[d.task]
                       /\ running' = [running EXCEPT ![d.task] = TRUE]
    BY <1>5, Zenon DEF CallBegins
  <2>2. /\ \A p \in Polls : ~On(p, k)
        /\ \A p : (On(p, k)' <=> p = d.task) /\ \A l \in Slots \ {k} : On(p, l)' <=> On(p, l)
    BY <1>0, <2>1 DEF Begins, Becomes, On, Polls
  <2>3. \A p \in Polls : running'[p] <=> running[p] \/ p = d.task
    BY <1>0, <2>1
  <2>4. running' \in [Polls -> BOOLEAN] /\ (d.task \in Polls => ~running[d.task])
    BY <1>0, <2>1
  <2> QED
    BY <2>2, <2>3, <2>4 DEF PollsKept
<1>6. ASSUME NEW k \in Slots, NEW l \in Slots, TwoBegin(k, l) PROVE PollsKept'
  <2>1. UNCHANGED running /\ \A p \in Polls : \A m \in Slots : On(p, m)' <=> On(p, m)
    BY <1>0, <1>6 DEF TwoBegin, Begins, On, Polls
  <2> QED
    BY <2>1 DEF PollsKept
<1> QED
  BY <1>1, <1>2, <1>3, <1>4, <1>5, <1>6, Zenon DEF CallsMove

-----------------------------------------------------------------------------
(* Questions. *)

Questions == {"list", "get", "exchange", "create", "retry"}

\* What a question can be answered with, from which version on.
AskedFrom(i, a) ==
    CASE a = "list" -> copy
      [] a \in {"get", "exchange"} -> [Zeros EXCEPT ![i] = copy[i]]
      [] OTHER -> Zeros

AskedHad(i, a) == IF a = "exchange" THEN records[i] ELSE 0

LEMMA AskedTyped ==
  ASSUME ServerTyped, NEW i \in Requests \cup {NoRequest}, NEW a \in Questions,
         a \in {"get", "exchange"} => i \in Requests
  PROVE  AskedFrom(i, a) \in [Requests -> Nat] /\ AskedHad(i, a) \in Nat
<1>1. Zeros \in [Requests -> Nat]
  BY DEF Zeros
<1>2. CASE a = "list"
  BY <1>2 DEF AskedFrom, AskedHad, ServerTyped
<1>3. CASE a \in {"get", "exchange"}
  <2>1. AskedFrom(i, a) = [Zeros EXCEPT ![i] = copy[i]]
    BY <1>3 DEF AskedFrom
  <2>2. i \in Requests /\ copy[i] \in Nat /\ records[i] \in Nat
    BY <1>3 DEF ServerTyped
  <2> QED
    BY <1>1, <2>1, <2>2 DEF AskedHad
<1>4. CASE a \in {"create", "retry"}
  BY <1>1, <1>4 DEF AskedFrom, AskedHad
<1> QED
  BY <1>2, <1>3, <1>4 DEF Questions

LEMMA AsksFields ==
  ASSUME ServerTyped, NEW c \in Calls, NEW a \in Questions,
         a \in {"get", "exchange"} => c.id \in Requests
  PROVE  /\ Asks(c, a) \in Calls
         /\ Asks(c, a).task = c.task /\ Asks(c, a).id = c.id /\ Asks(c, a).ask = a
         /\ Asks(c, a).mounted = c.mounted /\ Asks(c, a).code = c.code
         /\ Asks(c, a).from = AskedFrom(c.id, a) /\ Asks(c, a).had = AskedHad(c.id, a)
         /\ Asks(c, a).read = c.read
<1> DEFINE token == IF HasToken THEN "good" ELSE "none"
           f == AskedFrom(c.id, a)
           h == AskedHad(c.id, a)
           d == [c EXCEPT !.ask = a, !.token = token, !.from = f, !.had = h]
<1>1. Asks(c, a) = d
  BY Zenon DEF Asks, AskedFrom, AskedHad
<1>2. token \in Tokens /\ f \in [Requests -> Nat] /\ h \in Nat
  BY AskedTyped DEF Calls, Tokens
<1> HIDE DEF token, f, h
<1>3. /\ d \in Calls
      /\ d.task = c.task /\ d.id = c.id /\ d.ask = a /\ d.mounted = c.mounted /\ d.code = c.code
      /\ d.from = f /\ d.had = h /\ d.read = c.read
  BY <1>2 DEF Calls, Questions
<1> HIDE DEF d
<1> QED
  BY <1>1, <1>3 DEF f, h

\* A new call of the page.
LEMMA CallIsKept ==
  ASSUME ServerTyped, LogsKept,
         NEW t \in Tasks, NEW i \in Requests \cup {NoRequest}, NEW a \in Questions,
         a \in {"get", "exchange", "retry"} => i \in Requests,
         t = "status poll" => a # "exchange"
  PROVE  /\ Call(t, i, a) \in Calls /\ CallKept(Call(t, i, a))
         /\ Call(t, i, a).task = t /\ Call(t, i, a).mounted
<1> DEFINE yes == TRUE
           c == [Free EXCEPT !.task = t, !.id = i, !.mounted = yes]
           d == Call(t, i, a)
<1>1. yes \in BOOLEAN /\ yes
  OBVIOUS
<1>2. d = Asks(c, a)
  BY Zenon DEF Call
<1> HIDE DEF d
<1>3. Free \in Calls /\ Free.code = "waiting"
  BY FreeIsKept DEF Free
<1> HIDE DEF yes
<1>4. c \in Calls /\ c.task = t /\ c.id = i /\ c.mounted = yes /\ c.code = "waiting"
  BY <1>1, <1>3 DEF Calls
<1> HIDE DEF c
<1>5. /\ d \in Calls
      /\ d.task = t /\ d.id = i /\ d.ask = a /\ d.mounted = yes /\ d.code = "waiting"
      /\ d.from = AskedFrom(i, a)
  <2>1. /\ Asks(c, a) \in Calls
        /\ Asks(c, a).task = c.task /\ Asks(c, a).id = c.id /\ Asks(c, a).ask = a
        /\ Asks(c, a).mounted = c.mounted /\ Asks(c, a).code = c.code
        /\ Asks(c, a).from = AskedFrom(c.id, a)
    BY <1>4, AsksFields, Zenon
  <2> QED
    BY <1>2, <1>4, <2>1, Zenon
<1>6. \A r \in Requests : copy[r] \in Nat /\ copy[r] > 0
  BY DEF ServerTyped, LogsKept, LogKept
<1>7. a = "list" => d.from = copy
  BY <1>5 DEF AskedFrom
<1>8. a \in {"get", "exchange"} => d.from[i] > 0
  BY <1>5, <1>6 DEF AskedFrom, Zeros
<1>9. CallKept(d)
  BY <1>5, <1>6, <1>7, <1>8 DEF CallKept
<1> QED
  BY <1>1, <1>5, <1>9, Zenon DEF d

-----------------------------------------------------------------------------
(* The table. *)

LEMMA TableTyped ==
  ASSUME ServerTyped, LogsKept, NEW r \in Requests
  PROVE  /\ table[r] \in Rows /\ table[r].rec <= records[r] /\ records[r] \in Nat
         /\ Start[r] = "none" /\ Len(log[r]) = 1 => table[r].status = "none"
         /\ Len(log[r]) \in Nat /\ Len(log[r]) > 0
<1> DEFINE n == Len(log[r])
<1>1. log[r] \in Seq(Rows) /\ n \in Nat /\ n > 0 /\ records[r] \in Nat
  BY DEF ServerTyped, LogsKept, LogKept
<1>2. table[r] = log[r][n] /\ n \in 1 .. n
  BY <1>1 DEF table
<1>3. log[r][n] \in Rows
  BY <1>1
<1>4. log[r][n].rec <= records[r] /\ log[r][1].status = Start[r]
  BY <1>2 DEF LogsKept, LogKept
<1> HIDE DEF n
<1> QED
  BY <1>1, <1>2, <1>3, <1>4 DEF n

\* A version that the table gets.
LEMMA WriteMoves ==
  ASSUME ServerTyped, LogsKept, NEW r \in Requests, NEW row,
         Write(r, row), row \in Rows, row.rec <= records[r], row.status # "none",
         IsTerminal(row.status) => table[r].status # "none",
         UNCHANGED records, inRun' \in [Requests -> BOOLEAN]
  PROVE  TableMoves
<1>0. /\ table[r] \in Rows /\ table[r].rec <= records[r] /\ records[r] \in Nat
      /\ Start[r] = "none" /\ Len(log[r]) = 1 => table[r].status = "none"
      /\ Len(log[r]) \in Nat /\ Len(log[r]) > 0
  BY TableTyped, Zenon
<1>1. IsTerminal(row.status) /\ Start[r] = "none" => Len(log[r]) > 1
  <2>1. CASE table[r].status = "none"
    BY <2>1
  <2>2. CASE table[r].status # "none" /\ Start[r] = "none"
    <3>1. Len(log[r]) # 1
      BY <1>0, <2>2, Zenon
    <3>2. Len(log[r]) \in Nat /\ Len(log[r]) > 0
      BY <1>0, Zenon
    <3> DEFINE n == Len(log[r])
    <3> HIDE DEF n
    <3>3. n # 1 /\ n \in Nat /\ n > 0
      BY <3>1, <3>2 DEF n
    <3>4. n > 1
      BY <3>3
    <3> QED
      BY <3>4 DEF n
  <2> QED
    BY <2>1, <2>2
<1> QED
  BY <1>1, Zenon DEF TableMoves, Written

LEMMA EnqueuedMoves ==
  ASSUME ServerTyped, LogsKept, NEW r \in Requests, Enqueued(r)
  PROVE  TableMoves
<1> DEFINE row == [table[r] EXCEPT !.status = "queued"]
<1>1. row \in Rows /\ row.status = "queued" /\ row.rec = table[r].rec
  BY TableTyped DEF Rows, Statuses, DeliverableStatuses
<1>2. Write(r, row) /\ UNCHANGED <<records, inRun>>
  BY Zenon DEF Enqueued
<1> HIDE DEF row
<1>3. row.rec <= records[r] /\ row.status # "none" /\ ~IsTerminal(row.status)
  BY <1>1, TableTyped DEF IsTerminal, TerminalStatuses
<1>4. UNCHANGED records /\ inRun' \in [Requests -> BOOLEAN]
  BY <1>2 DEF ServerTyped
<1> QED
  BY <1>1, <1>2, <1>3, <1>4, WriteMoves, Zenon

LEMMA RecordMoves ==
  ASSUME ServerTyped, NEW r \in Requests, RecordWritten(r)
  PROVE  TableMoves
  BY DEF RecordWritten, TableMoves, ServerTyped

LEMMA FinishedMoves ==
  ASSUME ServerTyped, LogsKept, NEW r \in Requests, NEW result \in Results, Finished(r, result)
  PROVE  TableMoves
<1> DEFINE row == [table[r] EXCEPT !.status = result, !.rec = records[r]]
<1>0. table[r] \in Rows /\ table[r].rec <= records[r] /\ records[r] \in Nat
  BY TableTyped, Zenon
<1>1. row \in Rows /\ row.status = result /\ row.rec = records[r]
  <2>1. result \in Statuses
    BY PagesAssumption DEF Statuses
  <2> QED
    BY <1>0, <2>1 DEF Rows
<1>2. Write(r, row) /\ UNCHANGED <<records, inRun>> /\ table[r].status \in DeliverableStatuses
  BY Zenon DEF Finished
<1> HIDE DEF row
<1>3. row.rec <= records[r] /\ row.status # "none" /\ table[r].status # "none"
  <2>1. result \in TerminalStatuses
    BY PagesAssumption
  <2> QED
    BY <1>0, <1>1, <1>2, <2>1 DEF TerminalStatuses, DeliverableStatuses
<1>4. UNCHANGED records /\ inRun' \in [Requests -> BOOLEAN]
  BY <1>2 DEF ServerTyped
<1> QED
  BY <1>1, <1>2, <1>3, <1>4, WriteMoves, Zenon

LEMMA DecidedMoves ==
  ASSUME ServerTyped, LogsKept, NEW r \in Requests, Decided(r)
  PROVE  TableMoves
<1> DEFINE yes == TRUE
           row == [table[r] EXCEPT !.decided = yes]
<1>1. yes \in BOOLEAN
  OBVIOUS
<1>2. Write(r, row) /\ UNCHANGED <<records, inRun>> /\ table[r].status = "sent"
  BY Zenon DEF Decided
<1> HIDE DEF yes
<1>3. row \in Rows /\ row.status = table[r].status /\ row.rec = table[r].rec
  BY <1>1, TableTyped DEF Rows
<1> HIDE DEF row
<1>4. row.rec <= records[r] /\ row.status # "none" /\ table[r].status # "none"
  BY <1>2, <1>3, TableTyped
<1>5. UNCHANGED records /\ inRun' \in [Requests -> BOOLEAN]
  BY <1>2 DEF ServerTyped
<1> QED
  BY <1>2, <1>3, <1>4, <1>5, WriteMoves, Zenon

LEMMA RestartedRow ==
  ASSUME ServerTyped, LogsKept, NEW r \in Requests
  PROVE  Restarted(r) \in Rows /\ Restarted(r).status = "created" /\ Restarted(r).rec = 0
  BY TableTyped DEF Restarted, Rows, Statuses, DeliverableStatuses

LEMMA RestartMoves ==
  ASSUME ServerTyped, LogsKept, NEW r \in Requests, Restarts(r)
  PROVE  TableMoves
<1>1. Write(r, Restarted(r)) /\ UNCHANGED records
  BY Zenon DEF Restarts
<1>2. inRun' \in [Requests -> BOOLEAN]
  BY DEF Restarts, ServerTyped
<1>3. /\ Restarted(r) \in Rows /\ Restarted(r).rec <= records[r]
      /\ Restarted(r).status # "none" /\ ~IsTerminal(Restarted(r).status)
  BY RestartedRow, TableTyped DEF IsTerminal, TerminalStatuses
<1> QED
  BY <1>1, <1>2, <1>3, WriteMoves, Zenon

LEMMA CreateMoves ==
  ASSUME ServerTyped, LogsKept, NEW r \in Requests,
         Write(r, [Absent EXCEPT !.status = "created"]), UNCHANGED <<records, inRun>>
  PROVE  TableMoves
<1> DEFINE row == [Absent EXCEPT !.status = "created"]
<1>1. row \in Rows /\ row.status = "created" /\ row.rec = 0
  BY DEF Absent, Rows, Statuses, DeliverableStatuses
<1>2. Write(r, row)
  OBVIOUS
<1> HIDE DEF row
<1>3. row.rec <= records[r] /\ row.status # "none" /\ ~IsTerminal(row.status)
  BY <1>1, TableTyped DEF IsTerminal, TerminalStatuses
<1>4. UNCHANGED records /\ inRun' \in [Requests -> BOOLEAN]
  BY DEF ServerTyped
<1> QED
  BY <1>1, <1>2, <1>3, <1>4, WriteMoves, Zenon

LEMMA CopyMoves ==
  ASSUME ServerTyped, NEW r \in Requests, CopyCatchesUp(r)
  PROVE  TableMoves
  BY DEF CopyCatchesUp, TableMoves, ServerTyped

LEMMA TableStays ==
  ASSUME ServerTyped, UNCHANGED server
  PROVE  TableMoves
  BY DEF server, TableMoves, ServerTyped

-----------------------------------------------------------------------------
(* Calls that last. *)

\* What the proofs below have of the state before the step.
PagesKept == ServerTyped /\ StoresTyped /\ ScreenTyped /\ LogsKept /\ CallsKept /\ PollsKept

PageStep == TableMoves /\ CallsMove /\ StoresTyped' /\ ScreenTyped'

LEMMA SlotTyped ==
  ASSUME CallsKept, NEW k \in Slots
  PROVE  calls[k] \in Calls /\ CallKept(calls[k]) /\ Lasts(calls[k], calls[k])
  BY DEF CallsKept, Lasts

LEMMA StoresStay ==
  ASSUME StoresTyped, UNCHANGED stores
  PROVE  StoresTyped'
  BY DEF StoresTyped, stores

LEMMA ScreenStays ==
  ASSUME ScreenTyped, UNCHANGED <<page, open, hidden>>
  PROVE  ScreenTyped'
  BY DEF ScreenTyped

LEMMA CallsStay ==
  ASSUME CallsKept, UNCHANGED <<calls, running>>
  PROVE  CallsMove
<1>1. calls' \in [Slots -> Calls]
  BY DEF CallsKept
<1>2. \A k \in Slots : Lasts(calls[k], calls'[k]) /\ calls'[k].mounted = calls[k].mounted
  BY SlotTyped
<1> QED
  BY <1>1, <1>2, Zenon DEF CallsMove, CallsLast

LEMMA CallsLastAt ==
  ASSUME CallsKept, NEW k \in Slots, NEW d, Becomes(k, d), Lasts(calls[k], d),
         d.mounted = calls[k].mounted, UNCHANGED running
  PROVE  CallsMove
<1>1. calls \in [Slots -> Calls] /\ d \in Calls
  BY DEF CallsKept, Lasts
<1>2. calls' \in [Slots -> Calls]
  BY <1>1 DEF Becomes
<1>3. \A l \in Slots : Lasts(calls[l], calls'[l]) /\ calls'[l].mounted = calls[l].mounted
  <2>1. calls'[k] = d /\ \A l \in Slots \ {k} : calls'[l] = calls[l]
    BY <1>1 DEF Becomes
  <2> QED
    BY <2>1, SlotTyped
<1> QED
  BY <1>2, <1>3, Zenon DEF CallsMove, CallsLast

LEMMA ServesMoves ==
  ASSUME PagesKept, NEW k \in Slots, Serves(k)
  PROVE  PageStep
<1> DEFINE c == calls[k]
<1>0. UNCHANGED <<stores, screen>> /\ StoresTyped' /\ ScreenTyped' /\ UNCHANGED running
  BY StoresStay, ScreenStays DEF Serves, screen, PagesKept
<1>1. c \in Calls /\ CallKept(c)
  BY SlotTyped DEF PagesKept
<1> HIDE DEF c
<1>2. CASE ServesCreate(k)
  <2>1. PICK r \in Requests :
            /\ Write(r, [Absent EXCEPT !.status = "created"])
            /\ Becomes(k, [c EXCEPT !.code = "ok", !.id = r])
    BY <1>2, Zenon DEF ServesCreate, Becomes, c
  <2>2. c.ask = "create" /\ UNCHANGED <<records, inRun>>
    BY <1>2, Zenon DEF ServesCreate, c
  <2> DEFINE d == [c EXCEPT !.code = "ok", !.id = r]
  <2>3. Lasts(c, d) /\ d.mounted = c.mounted
    BY <1>1, <2>2 DEF Calls, Lasts
  <2>4. Becomes(k, d)
    BY <2>1, Zenon
  <2>5. TableMoves
    BY <2>1, <2>2, CreateMoves, Zenon DEF PagesKept
  <2> HIDE DEF d
  <2>6. CallsMove
    BY <1>0, <2>3, <2>4, CallsLastAt, Zenon DEF PagesKept, c
  <2> QED
    BY <1>0, <2>5, <2>6, Zenon DEF PageStep
<1>3. CASE ServesRetry(k)
  <2>1. c.ask = "retry" /\ c.id \in Requests
    BY <1>1, <1>3 DEF ServesRetry, CallKept, c
  <2>2. CASE table[c.id].status = "failed"
    <3> DEFINE w == Restarted(c.id)
               d == [c EXCEPT !.code = "ok", !.read = w]
    <3>1. Becomes(k, d) /\ Restarts(c.id)
      BY <1>3, <2>2, Zenon DEF ServesRetry, Becomes, c
    <3>2. w \in Rows
      BY <2>1, RestartedRow DEF PagesKept
    <3> HIDE DEF w
    <3>3. Lasts(c, d) /\ d.mounted = c.mounted
      BY <1>1, <2>1, <3>2 DEF Calls, Lasts
    <3>4. TableMoves
      BY <2>1, <3>1, RestartMoves, Zenon DEF PagesKept
    <3> HIDE DEF d
    <3>5. CallsMove
      BY <1>0, <3>1, <3>3, CallsLastAt, Zenon DEF PagesKept, c
    <3> QED
      BY <1>0, <3>4, <3>5, Zenon DEF PageStep
  <2>3. CASE table[c.id].status # "failed"
    <3>1. PICK code \in {"not_found", "not_retryable"} :
              Becomes(k, [c EXCEPT !.code = code]) /\ UNCHANGED server
      BY <1>3, <2>3, Zenon DEF ServesRetry, Becomes, c
    <3> DEFINE d == [c EXCEPT !.code = code]
    <3>2. Becomes(k, d)
      BY <3>1, Zenon
    <3>3. Lasts(c, d) /\ d.mounted = c.mounted
      BY <1>1, <2>1, <3>1 DEF Calls, Lasts
    <3>4. TableMoves
      BY <3>1, TableStays, Zenon DEF PagesKept
    <3> HIDE DEF d
    <3>5. CallsMove
      BY <1>0, <3>2, <3>3, CallsLastAt, Zenon DEF PagesKept, c
    <3> QED
      BY <1>0, <3>4, <3>5, Zenon DEF PageStep
  <2> QED
    BY <2>2, <2>3, Zenon
<1> QED
  BY <1>2, <1>3, Zenon DEF Serves

LEMMA WriteFailsMoves ==
  ASSUME PagesKept, NEW k \in Slots, WriteFails(k)
  PROVE  PageStep
<1> DEFINE c == calls[k]
           w == Absent
           d == [c EXCEPT !.code = "failed", !.read = w]
<1>0. UNCHANGED <<server, stores, screen>>
  BY Zenon DEF WriteFails
<1>1. StoresTyped' /\ ScreenTyped' /\ UNCHANGED running
  BY <1>0, StoresStay, ScreenStays DEF screen, PagesKept
<1>2. TableMoves
  BY <1>0, TableStays, Zenon DEF PagesKept
<1>3. c \in Calls
  BY SlotTyped DEF PagesKept
<1>4. Becomes(k, d)
  BY Zenon DEF WriteFails, Becomes
<1>5. w \in Rows
  BY DEF Absent, Rows
<1>6. c.ask \in {"create", "retry"}
  BY <1>3 DEF WriteFails, IsRead, Calls
<1> HIDE DEF c, w
<1>7. Lasts(c, d) /\ d.mounted = c.mounted
  BY <1>3, <1>5, <1>6 DEF Calls, Lasts
<1> HIDE DEF d
<1>8. CallsMove
  BY <1>1, <1>4, <1>7, CallsLastAt, Zenon DEF PagesKept, c
<1> QED
  BY <1>1, <1>2, <1>8, Zenon DEF PageStep

\* A call without its page.
LEMMA Unmounted ==
  ASSUME NEW c \in Calls
  PROVE  LET d == [c EXCEPT !.mounted = FALSE] IN Lasts(c, d) /\ ~d.mounted
<1> DEFINE no == FALSE
           d == [c EXCEPT !.mounted = no]
<1>1. no \in BOOLEAN /\ ~no
  OBVIOUS
<1> HIDE DEF no
<1>2. Lasts(c, d) /\ d.mounted = no
  BY <1>1 DEF Calls, Lasts
<1> QED
  BY <1>1, <1>2, Zenon DEF no

LEMMA UnmountedFails ==
  ASSUME NEW c \in Calls
  PROVE  LET d == [c EXCEPT !.code = "failed", !.mounted = FALSE] IN Lasts(c, d) /\ ~d.mounted
<1> DEFINE no == FALSE
           d == [c EXCEPT !.code = "failed", !.mounted = no]
<1>1. no \in BOOLEAN /\ ~no
  OBVIOUS
<1> HIDE DEF no
<1>2. Lasts(c, d) /\ d.mounted = no
  BY <1>1 DEF Calls, Lasts
<1> QED
  BY <1>1, <1>2, Zenon DEF no

LEMMA UnauthorizedMoves ==
  ASSUME PagesKept, NEW k \in Slots, Unauthorized(k)
  PROVE  PageStep
<1>1. /\ UNCHANGED <<server, stores, page, hidden>> /\ open' = FALSE
      /\ running' = [p \in Polls |-> FALSE]
  BY Zenon DEF Unauthorized, Unmount
<1>2. TableMoves /\ StoresTyped'
  BY <1>1, TableStays, StoresStay, Zenon DEF PagesKept
<1>3. ScreenTyped'
  BY <1>1 DEF PagesKept, ScreenTyped
<1> DEFINE d(l) == IF l = k THEN [calls[l] EXCEPT !.code = "failed", !.mounted = FALSE]
                   ELSE [calls[l] EXCEPT !.mounted = FALSE]
<1>4. calls' = [l \in Slots |-> d(l)]
  BY Zenon DEF Unauthorized
<1>5. \A l \in Slots : Lasts(calls[l], d(l)) /\ ~d(l).mounted
  BY SlotTyped, Unmounted, UnmountedFails, Zenon DEF PagesKept
<1> HIDE DEF d
<1>6. \A l \in Slots : calls'[l] = d(l) /\ d(l) \in Calls
  BY <1>4, <1>5 DEF Lasts
<1>7. calls' \in [Slots -> Calls]
  BY <1>4, <1>6
<1>8. PageLeft
  BY <1>1, <1>5, <1>6, <1>7, Zenon DEF PageLeft
<1> QED
  BY <1>2, <1>3, <1>8, Zenon DEF PageStep, CallsMove

LEMMA TokenRunsOutMoves ==
  ASSUME PagesKept, TokenRunsOut
  PROVE  PageStep
<1>1. UNCHANGED <<server, stores, screen>>
  BY Zenon DEF TokenRunsOut
<1>2. TableMoves /\ StoresTyped' /\ ScreenTyped' /\ UNCHANGED running
  BY <1>1, TableStays, StoresStay, ScreenStays DEF PagesKept, screen
<1> DEFINE worn == "worn"
           d(k) == IF Waits(k) /\ calls[k].token = "good" THEN [calls[k] EXCEPT !.token = worn] ELSE calls[k]
<1>3. calls' = [k \in Slots |-> d(k)]
  BY Zenon DEF TokenRunsOut
<1>4. worn \in Tokens
  BY DEF Tokens
<1> HIDE DEF worn
<1>5. ASSUME NEW k \in Slots PROVE Lasts(calls[k], d(k)) /\ d(k).mounted = calls[k].mounted
  <2> DEFINE c == calls[k]
  <2>1. c \in Calls /\ Lasts(c, c)
    BY SlotTyped, Zenon DEF PagesKept
  <2> HIDE DEF c
  <2>2. LET e == [c EXCEPT !.token = worn] IN Lasts(c, e) /\ e.mounted = c.mounted
    BY <1>4, <2>1 DEF Calls, Lasts
  <2> QED
    BY <2>1, <2>2, Zenon DEF c
<1> HIDE DEF d
<1>6. calls' \in [Slots -> Calls] /\ \A k \in Slots : calls'[k] = d(k)
  BY <1>3, <1>5 DEF Lasts
<1>7. CallsLast
  BY <1>2, <1>5, <1>6, Zenon DEF CallsLast
<1> QED
  BY <1>2, <1>7, Zenon DEF PageStep, CallsMove

\* Every page that is left, with its polls.
LEMMA LeavesPage ==
  ASSUME CallsKept, Unmount,
         calls' = [k \in Slots |-> [calls[k] EXCEPT !.mounted = FALSE]]
  PROVE  CallsMove /\ open' = FALSE
<1> DEFINE d(k) == [calls[k] EXCEPT !.mounted = FALSE]
<1>1. \A k \in Slots : Lasts(calls[k], d(k)) /\ ~d(k).mounted
  BY SlotTyped, Unmounted, Zenon
<1>2. calls' = [k \in Slots |-> d(k)]
  BY Zenon
<1> HIDE DEF d
<1>3. calls' \in [Slots -> Calls] /\ \A k \in Slots : calls'[k] = d(k)
  BY <1>1, <1>2 DEF Lasts
<1>4. open' = FALSE /\ running' = [p \in Polls |-> FALSE]
  BY Zenon DEF Unmount
<1>5. PageLeft
  BY <1>1, <1>3, <1>4, Zenon DEF PageLeft
<1> QED
  BY <1>4, <1>5, Zenon DEF CallsMove

LEMMA NavigateMoves ==
  ASSUME PagesKept, NEW p \in Pages, Navigate(p)
  PROVE  PageStep
<1>1. UNCHANGED <<server, stores, hidden>> /\ page' = p
  BY Zenon DEF Navigate, Goes
<1>2. TableMoves /\ StoresTyped'
  BY <1>1, TableStays, StoresStay, Zenon DEF PagesKept
<1>3. open' = FALSE /\ CallsMove
  <2>1. CASE {page, p} \subseteq Requests
    <3>1. open' = FALSE /\ UNCHANGED <<calls, running>>
      BY <2>1, Zenon DEF Navigate, Goes, LeftBehind
    <3> QED
      BY <3>1, CallsStay DEF PagesKept
  <2>2. CASE ~({page, p} \subseteq Requests)
    <3>1. Unmount /\ calls' = [k \in Slots |-> [calls[k] EXCEPT !.mounted = FALSE]]
      BY <2>2, Zenon DEF Navigate, Goes, LeftBehind
    <3> QED
      BY <3>1, LeavesPage, Zenon DEF PagesKept
  <2> QED
    BY <2>1, <2>2, Zenon
<1>4. ScreenTyped'
  BY <1>1, <1>3 DEF PagesKept, ScreenTyped
<1> QED
  BY <1>2, <1>3, <1>4, Zenon DEF PageStep

LEMMA FreshMoves ==
  ASSUME Fresh, Spend("loads")
  PROVE  CallsMove /\ StoresTyped' /\ open' = FALSE
<1>1. calls' = [k \in Slots |-> Free] /\ running' = [p \in Polls |-> FALSE] /\ open' = FALSE
  BY Zenon DEF Fresh
<1>2. calls' \in [Slots -> Calls] /\ \A k \in Slots : calls'[k] = Free /\ ~calls'[k].mounted
  BY <1>1, FreeIsKept
<1>3. CallsMove
  BY <1>1, <1>2, Zenon DEF CallsMove, PageLeft
<1>4. StoresTyped'
  <2>1. Absent \in Rows
    BY DEF Absent, Rows
  <2> QED
    BY <2>1 DEF Fresh, StoresTyped, Exchanges, Details
<1> QED
  BY <1>1, <1>3, <1>4

LEMMA AppLoadsMoves ==
  ASSUME PagesKept, AppLoads
  PROVE  PageStep
<1>1. Fresh /\ UNCHANGED <<server, hidden>> /\ (UNCHANGED page \/ page' = "list")
  BY Zenon DEF AppLoads
<1>2. Spend("loads")
  BY Zenon DEF AppLoads, SignIn, Reload, SignOut, Load
<1>3. TableMoves
  BY <1>1, TableStays, Zenon DEF PagesKept
<1>4. CallsMove /\ StoresTyped' /\ open' = FALSE
  BY <1>1, <1>2, FreshMoves, Zenon
<1>5. ScreenTyped'
  BY <1>1, <1>4 DEF PagesKept, ScreenTyped, Pages
<1> QED
  BY <1>3, <1>4, <1>5, Zenon DEF PageStep

LEMMA MergeTyped ==
  ASSUME StoresTyped, NEW incoming \in [Requests -> Rows]
  PROVE  Merge(incoming) \in [Requests -> Rows]
  BY DEF StoresTyped, Merge

LEMMA OnlyTyped ==
  ASSUME NEW r \in Requests, NEW row \in Rows
  PROVE  Only(r, row) \in [Requests -> Rows]
<1>1. Absent \in Rows
  BY DEF Absent, Rows
<1> QED
  BY <1>1 DEF Only, NoRows

\* The end of a call: its slot is free again.
LEMMA EndsMoves ==
  ASSUME NEW k \in Slots, NEW code, Ends(k, code),
         Arrives(k) \/ calls[k].task \in {"create", "retry"}
  PROVE  CallsMove
<1>1. CallEnds(k)
  BY Zenon DEF Ends, CallEnds, Becomes
<1> QED
  BY <1>1, Zenon DEF CallsMove

\* The page is left for a new request, and the call that created it is over.
LEMMA GoesFreeing ==
  ASSUME CallsKept, NEW k \in Slots, NEW p, calls[k].task = "create",
         Goes(p), calls' = [LeftBehind(p) EXCEPT ![k] = Free]
  PROVE  CallsMove /\ running' \in {running, [q \in Polls |-> FALSE]}
<1>1. CASE {page, p} \subseteq Requests
  <2>1. Becomes(k, Free) /\ running' = running
    BY <1>1, Zenon DEF Goes, LeftBehind, Becomes
  <2>2. "create" \notin Polls
    BY DEF Polls
  <2>3. CallEnds(k)
    BY <2>1, <2>2 DEF CallEnds
  <2> QED
    BY <2>1, <2>3, Zenon DEF CallsMove
<1>2. CASE ~({page, p} \subseteq Requests)
  <2> DEFINE e(l) == [calls[l] EXCEPT !.mounted = FALSE]
             d(l) == IF l = k THEN Free ELSE e(l)
  <2>1. /\ running' = [q \in Polls |-> FALSE]
        /\ calls' = [[l \in Slots |-> e(l)] EXCEPT ![k] = Free]
    BY <1>2, Zenon DEF Goes, LeftBehind, Unmount
  <2>2. \A l \in Slots : Lasts(calls[l], e(l)) /\ ~e(l).mounted
    BY SlotTyped, Unmounted, Zenon
  <2> HIDE DEF e
  <2>3. calls' = [l \in Slots |-> d(l)]
    BY <2>1
  <2>4. Free \in Calls /\ ~Free.mounted
    BY FreeIsKept, Zenon
  <2>5. \A l \in Slots : /\ d(l) \in Calls /\ ~d(l).mounted
                         /\ Lasts(calls[l], d(l)) \/ (d(l) = Free /\ calls[l].task = "create")
    BY <2>2, <2>4 DEF Lasts
  <2> HIDE DEF d
  <2>6. calls' \in [Slots -> Calls] /\ \A l \in Slots : calls'[l] = d(l)
    BY <2>3, <2>5
  <2>7. PageLeft
    BY <2>1, <2>5, <2>6, Zenon DEF PageLeft
  <2> QED
    BY <2>1, <2>7, Zenon DEF CallsMove
<1> QED
  BY <1>1, <1>2, Zenon

LEMMA CreateArrivesMoves ==
  ASSUME PagesKept, NEW k \in Slots, CreateArrives(k)
  PROVE  PageStep
<1>1. /\ UNCHANGED <<server, detail, retrying, listState, exchange, hidden>>
      /\ calls[k].task = "create"
  BY Zenon DEF CreateArrives
<1>2. TableMoves
  BY <1>1, TableStays, Zenon DEF PagesKept
<1>3. CASE calls[k].code = "ok"
  <2>1. calls[k].id \in Requests
    BY <1>3, SlotTyped DEF CallKept, PagesKept
  <2>2. /\ items' = Merge(Only(calls[k].id, [Absent EXCEPT !.status = "created"]))
        /\ page' = calls[k].id /\ open' = FALSE
        /\ Goes(calls[k].id) /\ calls' = [LeftBehind(calls[k].id) EXCEPT ![k] = Free]
    BY <1>3, Zenon DEF CreateArrives, Goes, Unmount
  <2>3. [Absent EXCEPT !.status = "created"] \in Rows
    BY DEF Absent, Rows, Statuses, DeliverableStatuses
  <2>4. items' \in [Requests -> Rows]
    BY <2>1, <2>2, <2>3, OnlyTyped, MergeTyped, Zenon DEF PagesKept
  <2>5. StoresTyped'
    BY <1>1, <2>4 DEF StoresTyped, PagesKept
  <2>6. CallsMove /\ running' \in {running, [q \in Polls |-> FALSE]}
    BY <1>1, <2>2, GoesFreeing, Zenon DEF PagesKept
  <2>7. ScreenTyped'
    BY <1>1, <2>1, <2>2, <2>6 DEF ScreenTyped, Pages, PagesKept
  <2> QED
    BY <1>2, <2>5, <2>6, <2>7, Zenon DEF PageStep
<1>4. CASE calls[k].code # "ok"
  <2>1. Ends(k, calls[k].code) /\ UNCHANGED <<items, page, open>>
    BY <1>4, Zenon DEF CreateArrives
  <2>2. CallsMove
    BY <1>1, <2>1, EndsMoves, Zenon
  <2>3. StoresTyped' /\ ScreenTyped'
    BY <1>1, <2>1 DEF StoresTyped, ScreenTyped, PagesKept
  <2> QED
    BY <1>2, <2>2, <2>3, Zenon DEF PageStep
<1> QED
  BY <1>3, <1>4, Zenon

-----------------------------------------------------------------------------
(* Answers. *)

\* What is known of a version that a call can be given.
IsVersion(r, row) ==
    /\ row \in Rows /\ row.rec <= records[r]
    /\ IsTerminal(row.status) /\ Start[r] = "none" => copy[r] > 1

LEMMA SeenTyped ==
  ASSUME PagesKept, NEW k \in Slots, NEW r \in Requests, NEW row \in Seen(k, r),
         calls[k].from[r] > 0
  PROVE  /\ IsVersion(r, row)
         /\ row.status = "none" => calls[k].from[r] <= 1 /\ Start[r] = "none"
<1>1. /\ log[r] \in Seq(Rows) /\ Len(log[r]) \in Nat /\ LogKept(r) /\ copy[r] \in Nat
      /\ calls[k].from[r] \in Nat
  BY SlotTyped DEF PagesKept, ServerTyped, LogsKept, Calls
<1>2. PICK i \in calls[k].from[r] .. Len(log[r]) : row = log[r][i]
  BY DEF Seen
<1>3. i \in 1 .. Len(log[r]) /\ i >= calls[k].from[r]
  BY <1>1, <1>2
<1>4. row \in Rows
  BY <1>1, <1>2, <1>3
<1>5. /\ row.rec <= records[r]
      /\ row.status = "none" => i = 1
      /\ IsTerminal(row.status) /\ Start[r] = "none" => i > 2
      /\ log[r][1].status = Start[r] /\ Len(log[r]) <= copy[r] + 1
  BY <1>1, <1>2, <1>3, Zenon DEF LogKept
<1>6. IsTerminal(row.status) /\ Start[r] = "none" => copy[r] > 1
  <2>1. CASE i > 2
    BY <1>1, <1>3, <1>5, <2>1
  <2> QED
    BY <1>5, <2>1, Zenon
<1>7. row.status = "none" => calls[k].from[r] <= 1 /\ Start[r] = "none"
  <2>1. CASE i = 1
    BY <1>1, <1>2, <1>3, <1>5, <2>1
  <2> QED
    BY <1>5, <2>1, Zenon
<1> QED
  BY <1>4, <1>5, <1>6, <1>7, Zenon DEF IsVersion

IsAnswer(k, answer) ==
    /\ answer.rows \in [Requests -> Rows]
    /\ answer.version \in Nat
    /\ answer.code \in {"ok", "not_found", "failed"}
    /\ calls[k].ask = "get" => IsVersion(calls[k].id, answer.rows[calls[k].id])

LEMMA FailureIsAnswer ==
  ASSUME PagesKept, NEW k \in Slots
  PROVE  IsAnswer(k, Failure)
<1>1. Failure.code = "failed" /\ Failure.rows = NoRows /\ Failure.version = 0
  BY DEF Failure, Answer
<1>2. Absent \in Rows /\ Absent.rec = 0 /\ Absent.status = "none"
  BY DEF Absent, Rows
<1>3. NoRows \in [Requests -> Rows] /\ \A r \in Requests : NoRows[r] = Absent
  BY <1>2 DEF NoRows
<1>4. ASSUME NEW r \in Requests PROVE IsVersion(r, Absent)
  <2>1. records[r] \in Nat
    BY DEF PagesKept, ServerTyped
  <2> QED
    BY <1>2, <2>1 DEF IsVersion, IsTerminal, TerminalStatuses
<1>5. calls[k].ask = "get" => calls[k].id \in Requests
  BY SlotTyped DEF PagesKept, CallKept
<1> QED
  BY <1>1, <1>3, <1>4, <1>5 DEF IsAnswer

LEMMA AnswersTyped ==
  ASSUME PagesKept, NEW k \in Slots, IsRead(k), calls[k].task # "free",
         NEW answer \in ReadAnswers(k)
  PROVE  IsAnswer(k, answer)
<1> DEFINE c == calls[k]
           i == c.id
<1>0. c \in Calls /\ CallKept(c)
  BY SlotTyped DEF PagesKept
<1>1. CASE c.ask = "list"
  <2>1. answer \in ListAnswers(k)
    BY <1>1 DEF ReadAnswers
  <2>2. PICK rows \in [Requests -> UNION {Seen(k, r) : r \in Requests}] :
            answer = Answer("ok", rows, 0) /\ \A r \in Requests : rows[r] \in Seen(k, r)
    BY <2>1, Zenon DEF ListAnswers
  <2>3. \A r \in Requests : c.from[r] > 0
    BY <1>0, <1>1, Zenon DEF CallKept
  <2>4. \A r \in Requests : rows[r] \in Rows
    BY <2>2, <2>3, SeenTyped, Zenon DEF IsVersion
  <2>5. rows \in [Requests -> Rows]
    BY <2>2, <2>4
  <2>6. answer.code = "ok" /\ answer.rows = rows /\ answer.version = 0
    BY <2>2 DEF Answer
  <2> QED
    BY <1>1, <2>5, <2>6 DEF IsAnswer
<1>2. CASE c.ask = "get"
  <2>1. i \in Requests /\ c.from[i] > 0
    BY <1>0, <1>2, Zenon DEF CallKept
  <2>2. answer \in GetAnswers(k)
    BY <1>2 DEF ReadAnswers
  <2>3. PICK row \in Seen(k, i), code \in {"ok", "not_found"} :
            answer = Answer(code, Only(i, row), 0)
    BY <2>2, Zenon DEF GetAnswers
  <2>4. IsVersion(i, row)
    BY <2>1, <2>3, SeenTyped, Zenon
  <2>5. Only(i, row) \in [Requests -> Rows]
    BY <2>1, <2>4, OnlyTyped, Zenon DEF IsVersion
  <2>6. Only(i, row)[i] = row
    BY <2>1 DEF Only, NoRows
  <2>7. answer.code = code /\ answer.rows = Only(i, row) /\ answer.version = 0
    BY <2>3 DEF Answer
  <2> HIDE DEF i, c
  <2>8. answer.code \in {"ok", "not_found", "failed"} /\ answer.version \in Nat
    BY <2>3, <2>7
  <2> QED
    BY <2>4, <2>5, <2>6, <2>7, <2>8, Zenon DEF IsAnswer, c, i
<1>3. CASE c.ask = "exchange"
  <2>1. i \in Requests /\ c.from[i] > 0
    BY <1>0, <1>3, Zenon DEF CallKept
  <2>2. answer \in ExchangeAnswers(k)
    BY <1>3 DEF ReadAnswers
  <2>3. PICK row \in Seen(k, i), version \in c.had .. records[i] :
            answer = IF row.status = "none" THEN Answer("not_found", NoRows, 0)
                     ELSE Answer("ok", NoRows, version)
    BY <2>2 DEF ExchangeAnswers, RecordsFound
  <2>4. version \in Nat
    <3>1. c.had \in Nat /\ records[i] \in Nat
      BY <1>0, <2>1 DEF Calls, PagesKept, ServerTyped
    <3> HIDE DEF c, i
    <3> QED
      BY <2>3, <3>1
  <2>5. NoRows \in [Requests -> Rows]
    BY DEF NoRows, Absent, Rows
  <2>6. PICK code \in {"ok", "not_found"}, v \in {0, version} : answer = Answer(code, NoRows, v)
    BY <2>3, Zenon
  <2>7. answer.code = code /\ answer.rows = NoRows /\ answer.version = v
    BY <2>6 DEF Answer
  <2> QED
    BY <1>3, <2>4, <2>5, <2>6, <2>7 DEF IsAnswer
<1> QED
  BY <1>1, <1>2, <1>3 DEF IsRead

-----------------------------------------------------------------------------
(* What arrives. *)

LEMMA ShowsTyped ==
  ASSUME StoresTyped, CallsKept, NEW k \in Slots, NEW answer,
         answer.version \in Nat, exchange' = Shows(k, answer)
  PROVE  exchange' \in Exchanges
<1>1. exchange \in Exchanges
  BY DEF StoresTyped
<1>2. IsExchange(exchange)
  BY <1>1 DEF IsExchange, Exchanges
<1>3. calls[k].id \in Requests \cup {NoRequest}
  BY SlotTyped DEF Calls
<1>4. \/ exchange' = ExchangeFields(exchange.id, calls[k].id, "ready", answer.version)
      \/ exchange' = exchange
      \/ \E s \in {"empty", "error"} :
             exchange' = ExchangeFields(exchange.id, exchange.of, s, exchange.version)
  BY <1>2, ShowsIsExchange, Zenon
<1> QED
  BY <1>1, <1>3, <1>4 DEF ExchangeFields, Exchanges

LEMMA ReadStores ==
  ASSUME PagesKept, NEW k \in Slots, NEW answer, IsAnswer(k, answer),
         ReadArrives(k, answer)
  PROVE  StoresTyped'
<1>1. retrying' \subseteq Requests
  <2>1. retrying' \subseteq retrying
    BY DEF ReadArrives
  <2> QED
    BY <2>1 DEF PagesKept, StoresTyped
<1>2. Merge(answer.rows) \in [Requests -> Rows]
  BY MergeTyped DEF PagesKept, IsAnswer
<1>3. CASE ListArrives(k, answer)
  <2>1. /\ items' = Merge(answer.rows) \/ UNCHANGED items
        /\ UNCHANGED <<detail, exchange>>
        /\ listState' \in {"ready", "error", listState}
    BY <1>3, Zenon DEF ListArrives
  <2> QED
    BY <1>1, <1>2, <2>1 DEF StoresTyped, PagesKept
<1>4. CASE DetailArrives(k, answer)
  <2>1. /\ items' = Merge(answer.rows) /\ UNCHANGED <<listState, exchange>>
        /\ \/ UNCHANGED detail
           \/ \E s \in {"ready", "not-found", "error"} : detail' = [detail EXCEPT !.status = s]
    BY <1>4, Zenon DEF DetailArrives
  <2>2. detail' \in Details
    BY <2>1 DEF StoresTyped, PagesKept, Details
  <2> QED
    BY <1>1, <1>2, <2>1, <2>2 DEF StoresTyped, PagesKept
<1>5. CASE ExchangeArrives(k, answer)
  <2>1. /\ UNCHANGED <<items, detail, listState>>
        /\ exchange' = Shows(k, answer) \/ UNCHANGED exchange
    BY <1>5, Zenon DEF ExchangeArrives
  <2>2. exchange' \in Exchanges
    <3>1. CASE UNCHANGED exchange
      BY <3>1 DEF StoresTyped, PagesKept
    <3>2. CASE exchange' = Shows(k, answer)
      BY <3>2, ShowsTyped, Zenon DEF PagesKept, IsAnswer
    <3> QED
      BY <2>1, <3>1, <3>2, Zenon
  <2> QED
    BY <1>1, <2>1, <2>2 DEF StoresTyped, PagesKept
<1> QED
  BY <1>3, <1>4, <1>5, Zenon DEF ReadArrives

\* A method that asks again.
LEMMA GoesOnMoves ==
  ASSUME PagesKept, NEW k \in Slots, calls[k].task # "free",
         NEW a \in {"get", "exchange"}, NEW w \in Rows, calls[k].id \in Requests,
         GoesOn(k, a, w),
         a = "exchange" => IsVersion(calls[k].id, w)
  PROVE  CallsMove
<1> DEFINE c == calls[k]
           e == Asks(c, a)
           d == [e EXCEPT !.code = "waiting", !.read = w]
<1>1. Becomes(k, d) /\ UNCHANGED running
  BY Zenon DEF GoesOn, Becomes
<1>2. c \in Calls /\ c.task # "free" /\ c.id \in Requests
  BY SlotTyped DEF PagesKept
<1> HIDE DEF c
<1>3. /\ e \in Calls
      /\ e.task = c.task /\ e.id = c.id /\ e.ask = a /\ e.mounted = c.mounted
      /\ e.from = AskedFrom(c.id, a) /\ e.had = AskedHad(c.id, a)
  BY <1>2, AsksFields DEF PagesKept, Questions
<1> HIDE DEF e
<1>4. /\ d \in Calls
      /\ d.task = c.task /\ d.id = c.id /\ d.ask = a /\ d.mounted = c.mounted
      /\ d.from = e.from /\ d.had = e.had /\ d.code = "waiting" /\ d.read = w
  BY <1>3 DEF Calls
<1> HIDE DEF d
<1>5. copy[c.id] \in Nat /\ copy[c.id] > 0
  BY <1>2 DEF PagesKept, ServerTyped, LogsKept, LogKept
<1>6. d.from[c.id] = copy[c.id]
  BY <1>2, <1>3, <1>4 DEF AskedFrom, Zeros
<1>7. a = "exchange" => d.had = records[c.id]
  BY <1>3, <1>4 DEF AskedHad
<1>8. a = "exchange" => /\ w.rec <= records[c.id]
                        /\ IsTerminal(w.status) /\ Start[c.id] = "none" => copy[c.id] > 1
  BY Zenon DEF IsVersion, c
<1>9. CallKept(d)
  BY <1>2, <1>4, <1>5, <1>6, <1>7, <1>8 DEF CallKept
<1>10. AsksAgain(k)
  BY <1>1, <1>2, <1>4, <1>9, Zenon DEF AsksAgain, c
<1> QED
  BY <1>10, Zenon DEF CallsMove

LEMMA PollAsksTwice == PollAsks[1] = "get" /\ PollAsks[2] = "exchange"
  BY DEF PollAsks

LEMMA ReadMoves ==
  ASSUME PagesKept, NEW k \in Slots, Arrives(k), NEW answer, IsAnswer(k, answer),
         ReadArrives(k, answer)
  PROVE  PageStep
<1>0. UNCHANGED <<server, page, open, hidden>>
  BY Zenon DEF ReadArrives
<1>1. TableMoves /\ ScreenTyped'
  BY <1>0, TableStays, ScreenStays DEF PagesKept
<1>2. StoresTyped'
  BY ReadStores, Zenon
<1>3. CASE calls[k].task = "status poll" /\ calls[k].ask = "get"
  <2> DEFINE w == answer.rows[calls[k].id]
  <2>1. GoesOn(k, "exchange", w)
    BY <1>3, PollAsksTwice, Zenon DEF ReadArrives
  <2>2. IsVersion(calls[k].id, w) /\ w \in Rows
    BY <1>3, Zenon DEF IsAnswer, IsVersion
  <2>3. calls[k].id \in Requests
    BY <1>3, SlotTyped DEF PagesKept, CallKept
  <2>4. calls[k].task # "free"
    BY <1>3
  <2>5. "exchange" \in {"get", "exchange"}
    OBVIOUS
  <2> HIDE DEF w
  <2>6. CallsMove
    BY <2>1, <2>2, <2>3, <2>4, <2>5, GoesOnMoves, Zenon
  <2> QED
    BY <1>1, <1>2, <2>6, Zenon DEF PageStep
<1>4. CASE ~(calls[k].task = "status poll" /\ calls[k].ask = "get")
  <2>1. Ends(k, answer.code)
    BY <1>4, PollAsksTwice, Zenon DEF ReadArrives
  <2>2. CallsMove
    BY <2>1, EndsMoves, Zenon
  <2> QED
    BY <1>1, <1>2, <2>2, Zenon DEF PageStep
<1> QED
  BY <1>3, <1>4, Zenon

LEMMA ArrivesMoves ==
  ASSUME PagesKept, NEW k \in Slots, Arrives(k)
  PROVE  PageStep
<1>1. IsRead(k) /\ calls[k].task # "free"
  BY Zenon DEF Arrives
<1>2. \E answer : IsAnswer(k, answer) /\ ReadArrives(k, answer)
  BY <1>1, AnswersTyped, FailureIsAnswer, Zenon DEF Arrives
<1> QED
  BY <1>2, ReadMoves, Zenon

LEMMA RetryArrivesMoves ==
  ASSUME PagesKept, NEW k \in Slots, RetryArrives(k)
  PROVE  PageStep
<1> DEFINE i == calls[k].id
           w == calls[k].read
<1>0. /\ UNCHANGED <<server, detail, listState, exchange, page, open, hidden>>
      /\ calls[k].task = "retry" /\ calls[k].ask = "retry"
  BY Zenon DEF RetryArrives
<1>1. TableMoves /\ ScreenTyped'
  BY <1>0, TableStays, ScreenStays DEF PagesKept
<1>2. i \in Requests /\ w \in Rows
  BY <1>0, SlotTyped DEF PagesKept, CallKept, Calls
<1>3. items' = Merge(Only(i, w)) \/ UNCHANGED items
  BY Zenon DEF RetryArrives
<1>4. items' \in [Requests -> Rows]
  <2>1. Merge(Only(i, w)) \in [Requests -> Rows]
    BY <1>2, OnlyTyped, MergeTyped, Zenon DEF PagesKept
  <2> QED
    BY <1>3, <2>1 DEF PagesKept, StoresTyped
<1>5. retrying' \subseteq Requests
  <2>1. retrying' \subseteq retrying
    BY DEF RetryArrives, Releases
  <2> QED
    BY <2>1 DEF PagesKept, StoresTyped
<1>6. StoresTyped'
  BY <1>0, <1>4, <1>5 DEF PagesKept, StoresTyped
<1>7. CASE calls[k].code = "not_retryable"
  <2>1. GoesOn(k, "get", Absent)
    BY <1>7, Zenon DEF RetryArrives
  <2>2. Absent \in Rows /\ "get" \in {"get", "exchange"} /\ "get" # "exchange" /\ calls[k].task # "free"
    BY <1>0 DEF Absent, Rows
  <2>3. CallsMove
    BY <1>2, <2>1, <2>2, GoesOnMoves, Zenon
  <2> QED
    BY <1>1, <1>6, <2>3, Zenon DEF PageStep
<1>8. CASE calls[k].code # "not_retryable"
  <2>1. Ends(k, calls[k].code)
    BY <1>8, Zenon DEF RetryArrives
  <2>2. calls[k].task \in {"create", "retry"}
    BY <1>0
  <2>3. CallsMove
    BY <2>1, <2>2, EndsMoves, Zenon
  <2> QED
    BY <1>1, <1>6, <2>3, Zenon DEF PageStep
<1> QED
  BY <1>7, <1>8, Zenon

LEMMA CallStepMoves ==
  ASSUME PagesKept, NEW k \in Slots, CallStep(k)
  PROVE  PageStep
  BY ServesMoves, WriteFailsMoves, UnauthorizedMoves, ArrivesMoves, CreateArrivesMoves,
     RetryArrivesMoves, Zenon DEF CallStep

-----------------------------------------------------------------------------
(* Calls that begin. *)

LEMMA FreeSlotIsFree ==
  ASSUME FreeSlots # {}
  PROVE  Lowest(FreeSlots) \in Slots /\ calls[Lowest(FreeSlots)].task = "free"
<1>1. FreeSlots \subseteq Slots
  BY DEF FreeSlots
<1>2. Lowest(FreeSlots) \in FreeSlots
  BY <1>1, LowestIsLeast, Zenon
<1> QED
  BY <1>2, Zenon DEF FreeSlots

LEMMA StartsMoves ==
  ASSUME PagesKept, NEW t \in Tasks, NEW i \in Requests \cup {NoRequest}, NEW a \in Questions,
         a \in {"get", "exchange", "retry"} => i \in Requests,
         t = "status poll" => a # "exchange",
         Starts(Call(t, i, a)),
         \/ t \notin Polls /\ UNCHANGED running
         \/ t \in Polls /\ ~running[t] /\ running' = [running EXCEPT ![t] = TRUE]
  PROVE  CallsMove
<1> DEFINE d == Call(t, i, a)
           k == Lowest(FreeSlots)
<1>1. FreeSlots # {} /\ Becomes(k, d)
  BY Zenon DEF Starts, Becomes
<1>2. k \in Slots /\ calls[k].task = "free"
  BY <1>1, FreeSlotIsFree, Zenon
<1>3. d \in Calls /\ CallKept(d) /\ d.task = t /\ d.mounted
  BY CallIsKept, Zenon DEF PagesKept
<1>4. t # "free"
  BY DEF Tasks, Polls
<1> HIDE DEF d, k
<1>5. Begins(k, d)
  BY <1>2, <1>3, <1>4, Zenon DEF Begins
<1>6. CallBegins(k)
  BY <1>1, <1>3, <1>5, Zenon DEF CallBegins
<1> QED
  BY <1>2, <1>6, Zenon DEF CallsMove

LEMMA TickMoves ==
  ASSUME PagesKept, NEW p \in Polls, Enabled(p), Tick(p)
  PROVE  CallsMove
<1>1. /\ ~running[p] /\ Starts(PollCall(p))
      /\ running' = [running EXCEPT ![p] = TRUE]
  BY Zenon DEF Tick
<1>2. p \in Tasks
  BY DEF Tasks
<1>3. CASE p = "list poll"
  <2>1. PollCall(p) = Call(p, NoRequest, "list")
    BY <1>3 DEF PollCall
  <2>2. "list" \in Questions /\ "list" \notin {"get", "exchange", "retry"} /\ "list" # "exchange"
    BY DEF Questions
  <2> QED
    BY <1>1, <1>2, <2>1, <2>2, StartsMoves, Zenon
<1>4. CASE p \in {"status poll", "decision poll"}
  <2>1. PollCall(p) = Call(p, page, "get")
    BY <1>4, PollAsksTwice DEF PollCall
  <2>2. page \in Requests
    BY <1>4 DEF Enabled
  <2>3. "get" \in Questions /\ "get" # "exchange"
    BY DEF Questions
  <2> QED
    BY <1>1, <1>2, <2>1, <2>2, <2>3, StartsMoves, Zenon
<1> QED
  BY <1>3, <1>4 DEF Polls

LEMMA TimerMoves ==
  ASSUME PagesKept, NEW p \in Polls, TimerFires(p)
  PROVE  PageStep
<1>1. UNCHANGED <<server, stores, page, open, hidden>> /\ Enabled(p) /\ Tick(p)
  BY Zenon DEF TimerFires
<1>2. TableMoves /\ StoresTyped' /\ ScreenTyped'
  BY <1>1, TableStays, StoresStay, ScreenStays DEF PagesKept
<1>3. CallsMove
  BY <1>1, TickMoves, Zenon
<1> QED
  BY <1>2, <1>3, Zenon DEF PageStep

LEMMA TabMoves ==
  ASSUME PagesKept, TabHidden \/ TabShown
  PROVE  PageStep
<1>1. UNCHANGED <<server, stores, page, open>> /\ hidden' \in BOOLEAN
  BY DEF TabHidden, TabShown
<1>2. TableMoves /\ StoresTyped'
  BY <1>1, TableStays, StoresStay, Zenon DEF PagesKept
<1>3. ScreenTyped'
  BY <1>1 DEF ScreenTyped, PagesKept
<1>4. CallsMove
  <2>1. \/ UNCHANGED <<calls, running>>
        \/ \E p \in Polls : Enabled(p) /\ Tick(p)
    BY Zenon DEF TabHidden, TabShown
  <2> QED
    BY <2>1, CallsStay, TickMoves, Zenon DEF PagesKept
<1> QED
  BY <1>2, <1>3, <1>4, Zenon DEF PageStep

\* A call that is no poll.
LEMMA StartsOther ==
  ASSUME PagesKept, NEW t \in {"load list", "load detail", "load exchange", "create", "retry"},
         NEW i \in Requests \cup {NoRequest}, NEW a \in Questions,
         a \in {"get", "exchange", "retry"} => i \in Requests,
         Starts(Call(t, i, a)), UNCHANGED running
  PROVE  CallsMove
<1>1. t \in Tasks /\ t \notin Polls /\ t # "status poll"
  BY DEF Tasks, Polls
<1> QED
  BY <1>1, StartsMoves, Zenon

LEMMA LoadsListMoves ==
  ASSUME PagesKept, LoadsList, UNCHANGED running
  PROVE  CallsMove /\ StoresTyped'
<1>1. Starts(Call("load list", NoRequest, "list"))
  BY Zenon DEF LoadsList
<1>2. /\ "load list" \in {"load list", "load detail", "load exchange", "create", "retry"}
      /\ "list" \in Questions /\ "list" \notin {"get", "exchange", "retry"}
  BY DEF Questions
<1>3. CallsMove
  BY <1>1, <1>2, StartsOther, Zenon
<1>4. StoresTyped'
  BY DEF LoadsList, PagesKept, StoresTyped
<1> QED
  BY <1>3, <1>4

LEMMA LoadingTyped ==
  ASSUME NEW r \in Requests, exchange' = Loading(r)
  PROVE  exchange' \in Exchanges
  BY DEF Loading, Exchanges

LEMMA DetailLoads ==
  ASSUME PagesKept, NEW r \in Requests, LoadsDetail(r)
  PROVE  /\ detail' \in Details
         /\ UNCHANGED <<items, retrying, listState>>
<1>1. PICK s \in {"ready", "loading"} : detail' = [id |-> r, status |-> s]
  BY Zenon DEF LoadsDetail
<1>2. UNCHANGED <<items, retrying, listState>>
  BY Zenon DEF LoadsDetail
<1> QED
  BY <1>1, <1>2 DEF Details

\* The two calls of a page that opens on a request.
LEMMA OpensMoves ==
  ASSUME PagesKept, NEW r \in Requests, OpensDetails(r), UNCHANGED running
  PROVE  CallsMove /\ StoresTyped'
<1>1. LoadsDetail(r) /\ exchange' = Loading(r)
  BY Zenon DEF OpensDetails
<1>2. StoresTyped'
  BY <1>1, DetailLoads, LoadingTyped DEF PagesKept, StoresTyped
<1>3. /\ "exchange" \in Questions /\ "get" \in Questions
      /\ \A t \in {"load detail", "load exchange"} : t \in Tasks /\ t \notin Polls /\ t # "status poll"
      /\ "load exchange" \in {"load list", "load detail", "load exchange", "create", "retry"}
  BY DEF Questions, Tasks, Polls
<1>4. CASE Known(r)
  <2>1. Starts(Call("load exchange", r, "exchange"))
    BY <1>4, Zenon DEF OpensDetails
  <2>2. CallsMove
    BY <1>3, <2>1, StartsOther, Zenon
  <2> QED
    BY <1>2, <2>2
<1>5. CASE ~Known(r)
  <2> DEFINE S == FreeSlots
             k == Lowest(S)
             l == Lowest(S \ {k})
             d == Call("load detail", r, "get")
             e == Call("load exchange", r, "exchange")
  <2>0. Cardinality(S) >= 2
    BY <1>5, Zenon DEF OpensDetails
  <2>1. calls' = [calls EXCEPT ![k] = d, ![l] = e]
    BY <1>5, Zenon DEF OpensDetails
  <2>2. S \subseteq Slots /\ \A m \in S : calls[m].task = "free"
    BY DEF FreeSlots
  <2>3. IsFiniteSet(Slots)
    BY FS_Interval, PagesAssumption DEF Slots
  <2> HIDE DEF S
  <2>4. IsFiniteSet(S)
    BY <2>2, <2>3, FS_Subset
  <2>5. S # {}
    BY <2>0, FS_EmptySet
  <2>6. k \in S
    BY <2>2, <2>5, LowestIsLeast, Zenon
  <2> HIDE DEF k
  <2>7. S \ {k} # {}
    <3>1. Cardinality({k}) = 1
      BY FS_Singleton
    <3>2. S # {k}
      BY <2>0, <3>1
    <3> QED
      BY <2>6, <3>2
  <2>8. l \in S /\ l # k
    <3>1. S \ {k} \subseteq Slots
      BY <2>2
    <3>2. l \in S \ {k}
      BY <2>7, <3>1, LowestIsLeast, Zenon
    <3> QED
      BY <3>2
  <2> HIDE DEF l
  <2>9. d \in Calls /\ CallKept(d) /\ d.task = "load detail" /\ d.mounted
    BY <1>3, CallIsKept, Zenon DEF PagesKept
  <2>10. e \in Calls /\ CallKept(e) /\ e.task = "load exchange" /\ e.mounted
    BY <1>3, CallIsKept, Zenon DEF PagesKept
  <2> HIDE DEF d, e
  <2>11. d.task # "free" /\ e.task # "free" /\ d.task \notin Polls /\ e.task \notin Polls
    BY <2>9, <2>10 DEF Polls
  <2>12. TwoBegin(k, l)
    BY <2>1, <2>2, <2>6, <2>8, <2>9, <2>10, <2>11, Zenon DEF TwoBegin, Begins
  <2>13. CallsMove
    BY <2>2, <2>6, <2>8, <2>12, Zenon DEF CallsMove
  <2> QED
    BY <1>2, <2>13
<1> QED
  BY <1>4, <1>5

-----------------------------------------------------------------------------
(* The user. *)

LEMMA OpenPageMoves ==
  ASSUME PagesKept, OpenPage
  PROVE  PageStep
<1>1. UNCHANGED <<server, page, hidden, running>> /\ open' = TRUE
  BY Zenon DEF OpenPage
<1>2. TableMoves
  BY <1>1, TableStays, Zenon DEF PagesKept
<1>3. ScreenTyped'
  BY <1>1 DEF ScreenTyped, PagesKept
<1>4. UNCHANGED running
  BY <1>1
<1>5. CallsMove /\ StoresTyped'
  <2>1. CASE LoadsList
    BY <1>4, <2>1, LoadsListMoves, Zenon
  <2>2. CASE UNCHANGED <<stores, calls>>
    <3>1. UNCHANGED stores /\ UNCHANGED <<calls, running>>
      BY <1>4, <2>2, Zenon
    <3> QED
      BY <3>1, StoresStay, CallsStay, Zenon DEF PagesKept
  <2>3. CASE page \in Requests /\ OpensDetails(page)
    BY <1>4, <2>3, OpensMoves, Zenon
  <2> QED
    BY <2>1, <2>2, <2>3, Zenon DEF OpenPage
<1> QED
  BY <1>2, <1>3, <1>5, Zenon DEF PageStep

LEMMA TryAgainMoves ==
  ASSUME PagesKept, TryAgain
  PROVE  PageStep
<1>1. UNCHANGED <<server, screen>>
  BY Zenon DEF TryAgain
<1>2. TableMoves /\ ScreenTyped' /\ UNCHANGED running
  BY <1>1, TableStays, ScreenStays DEF PagesKept, screen
<1>3. /\ "load detail" \in {"load list", "load detail", "load exchange", "create", "retry"}
      /\ "load exchange" \in {"load list", "load detail", "load exchange", "create", "retry"}
      /\ "get" \in Questions /\ "exchange" \in Questions
  BY DEF Questions
<1>4. CASE LoadsList
  BY <1>2, <1>4, LoadsListMoves, Zenon DEF PageStep
<1>5. CASE /\ page \in Requests /\ LoadsDetail(page)
           /\ Starts(Call("load detail", page, "get")) /\ UNCHANGED exchange
  <2>1. CallsMove
    BY <1>2, <1>3, <1>5, StartsOther, Zenon
  <2>2. StoresTyped'
    BY <1>5, DetailLoads DEF PagesKept, StoresTyped
  <2> QED
    BY <1>2, <2>1, <2>2, Zenon DEF PageStep
<1>6. CASE /\ page \in Requests /\ exchange' = Loading(page)
           /\ Starts(Call("load exchange", page, "exchange"))
           /\ UNCHANGED <<items, detail, retrying, listState>>
  <2>1. CallsMove
    BY <1>2, <1>3, <1>6, StartsOther, Zenon
  <2>2. StoresTyped'
    BY <1>6, LoadingTyped DEF PagesKept, StoresTyped
  <2> QED
    BY <1>2, <2>1, <2>2, Zenon DEF PageStep
<1> QED
  BY <1>4, <1>5, <1>6, Zenon DEF TryAgain

LEMMA SubmitMoves ==
  ASSUME PagesKept, Submit
  PROVE  PageStep
<1>1. UNCHANGED <<server, stores, screen>> /\ Starts(Call("create", NoRequest, "create"))
  BY Zenon DEF Submit
<1>2. TableMoves /\ StoresTyped' /\ ScreenTyped' /\ UNCHANGED running
  BY <1>1, TableStays, StoresStay, ScreenStays DEF PagesKept, screen
<1>3. /\ "create" \in {"load list", "load detail", "load exchange", "create", "retry"}
      /\ "create" \in Questions /\ "create" \notin {"get", "exchange", "retry"}
  BY DEF Questions
<1>4. CallsMove
  BY <1>1, <1>2, <1>3, StartsOther, Zenon
<1> QED
  BY <1>2, <1>4, Zenon DEF PageStep

LEMMA SendAgainMoves ==
  ASSUME PagesKept, SendAgain
  PROVE  PageStep
<1>1. /\ UNCHANGED <<server, items, detail, listState, exchange, screen>>
      /\ page \in Requests /\ retrying' = retrying \cup {page}
      /\ Starts(Call("retry", page, "retry"))
  BY Zenon DEF SendAgain
<1>2. TableMoves /\ ScreenTyped' /\ UNCHANGED running
  BY <1>1, TableStays, ScreenStays DEF PagesKept, screen
<1>3. StoresTyped'
  BY <1>1 DEF PagesKept, StoresTyped
<1>4. /\ "retry" \in {"load list", "load detail", "load exchange", "create", "retry"}
      /\ "retry" \in Questions
  BY DEF Questions
<1>5. CallsMove
  BY <1>1, <1>2, <1>4, StartsOther, Zenon
<1> QED
  BY <1>2, <1>3, <1>5, Zenon DEF PageStep

\* A step that touches no store, no page and no call.
LEMMA ElsewhereMoves ==
  ASSUME PagesKept, UNCHANGED <<stores, screen, calls>>, TableMoves
  PROVE  PageStep
<1>1. UNCHANGED stores /\ UNCHANGED <<page, open, hidden>> /\ UNCHANGED <<calls, running>>
  BY DEF screen
<1>2. StoresTyped' /\ ScreenTyped' /\ CallsMove
  BY <1>1, StoresStay, ScreenStays, CallsStay, Zenon DEF PagesKept
<1> QED
  BY <1>2, Zenon DEF PageStep

LEMMA UserStepMoves ==
  ASSUME PagesKept, UserStep
  PROVE  PageStep
<1>1. ASSUME NEW r \in Requests, SentAgainElsewhere(r) PROVE PageStep
  <2>1. Restarts(r) /\ UNCHANGED <<stores, screen, calls>>
    BY <1>1, Zenon DEF SentAgainElsewhere
  <2>2. TableMoves
    BY <2>1, RestartMoves, Zenon DEF PagesKept
  <2> QED
    BY <2>1, <2>2, ElsewhereMoves, Zenon
<1> QED
  BY <1>1, OpenPageMoves, TryAgainMoves, SubmitMoves, SendAgainMoves, TabMoves, NavigateMoves, Zenon
     DEF UserStep

LEMMA ServerStepMoves ==
  ASSUME PagesKept, ServerStep
  PROVE  PageStep
<1>1. UNCHANGED <<stores, screen, calls>>
  BY Zenon DEF ServerStep
<1>2. PICK r \in Moving :
          \/ RecordWritten(r) \/ Enqueued(r) \/ Decided(r) \/ CopyCatchesUp(r)
          \/ \E result \in Results : Finished(r, result)
  BY Zenon DEF ServerStep
<1>3. r \in Requests
  BY PagesAssumption
<1>4. ServerTyped /\ LogsKept
  BY Zenon DEF PagesKept
<1>5. TableMoves
  BY <1>2, <1>3, <1>4, RecordMoves, EnqueuedMoves, DecidedMoves, CopyMoves, FinishedMoves, Zenon
<1> QED
  BY <1>1, <1>5, ElsewhereMoves, Zenon

LEMMA NextMoves ==
  ASSUME PagesKept, [Next]_vars
  PROVE  PageStep
<1>1. CASE SessionStep \/ UNCHANGED vars
  <2>1. UNCHANGED server /\ UNCHANGED <<stores, screen, calls>>
    BY <1>1, Zenon DEF SessionStep, vars
  <2>2. TableMoves
    BY <2>1, TableStays, Zenon DEF PagesKept
  <2> QED
    BY <2>1, <2>2, ElsewhereMoves, Zenon
<1> QED
  BY <1>1, ServerStepMoves, UserStepMoves, AppLoadsMoves, TokenRunsOutMoves, CallStepMoves,
     TimerMoves, Zenon DEF Next

LEMMA PagesKeptOn ==
  ASSUME PagesKept, [Next]_vars
  PROVE  PagesKept'
<1>1. PageStep
  BY NextMoves, Zenon
<1>2. ServerTyped' /\ LogsKept'
  BY <1>1, ServerKept, Zenon DEF PagesKept, PageStep
<1>3. CallsKept' /\ PollsKept'
  BY <1>1, CallsKeptOn, PollsKeptOn, Zenon DEF PagesKept, PageStep
<1> QED
  BY <1>1, <1>2, <1>3, Zenon DEF PagesKept, PageStep

-----------------------------------------------------------------------------
(* The theorems about the types and the polls. *)

LEMMA PagesBegin ==
  ASSUME Init
  PROVE  PagesKept
<1>1. /\ records = [r \in Requests |-> IF IsTerminal(Start[r]) THEN 1 ELSE 0]
      /\ log = [r \in Requests |-> <<[status |-> Start[r], decided |-> FALSE, rec |-> records[r]]>>]
      /\ copy = [r \in Requests |-> 1]
      /\ inRun = [r \in Requests |-> FALSE]
  BY Zenon DEF Init
<1>2. records \in [Requests -> Nat]
  BY <1>1
<1>3. ASSUME NEW r \in Requests
      PROVE  /\ log[r] \in Seq(Rows) /\ Len(log[r]) = 1
             /\ log[r][1].status = Start[r] /\ log[r][1].rec = records[r]
  <2> DEFINE no == FALSE
             row == [status |-> Start[r], decided |-> no, rec |-> records[r]]
  <2>1. log[r] = <<row>>
    BY <1>1
  <2>2. no \in BOOLEAN /\ Start[r] \in Statuses \cup {"none"} /\ records[r] \in Nat
    BY <1>2, PagesAssumption
  <2> HIDE DEF no
  <2>3. row \in Rows /\ row.status = Start[r] /\ row.rec = records[r]
    BY <2>2 DEF Rows
  <2> HIDE DEF row
  <2> QED
    BY <2>1, <2>3
<1>4. ServerTyped
  BY <1>1, <1>2, <1>3 DEF ServerTyped
<1>5. LogsKept
  <2>1. ASSUME NEW r \in Requests PROVE LogKept(r)
    <3>1. copy[r] = 1 /\ records[r] \in Nat
      BY <1>1, <1>2
    <3>2. \A i \in 1 .. Len(log[r]) : i = 1
      <4>1. Len(log[r]) = 1
        BY <1>3
      <4> QED
        BY <4>1
    <3>3. IsTerminal(Start[r]) => Start[r] # "none"
      BY DEF IsTerminal, TerminalStatuses
    <3> QED
      BY <1>3, <3>1, <3>2, <3>3 DEF LogKept
  <2> QED
    BY <2>1 DEF LogsKept
<1>6. StoresTyped
  <2>1. Absent \in Rows
    BY DEF Absent, Rows
  <2> QED
    BY <2>1 DEF Init, StoresTyped, Exchanges, Details
<1>7. ScreenTyped
  BY PagesAssumption DEF Init, ScreenTyped, Pages
<1>8. calls = [k \in Slots |-> Free] /\ running = [p \in Polls |-> FALSE]
  BY Zenon DEF Init
<1>9. CallsKept
  BY <1>8, FreeIsKept DEF CallsKept
<1>10. PollsKept
  BY <1>8, FreeIsKept DEF PollsKept, On
<1> QED
  BY <1>4, <1>5, <1>6, <1>7, <1>9, <1>10, Zenon DEF PagesKept

LEMMA PagesHold == Spec => []PagesKept
<1>1. Init => PagesKept
  BY PagesBegin
<1>2. PagesKept /\ [Next]_vars => PagesKept'
  BY PagesKeptOn
<1> QED
  BY <1>1, <1>2, PTL DEF Spec

\* The variables of the pages stay in their types: the stores, the session, the
\* table and its copy, and every call with what it may be answered.
THEOREM TypeCorrect == Spec => []TypeOK
<1>1. SessionInv /\ PagesKept => TypeOK
  BY DEF SessionInv, PagesKept, TypeOK, ServerTyped, StoresTyped, ScreenTyped, CallsKept, PollsKept,
     Exchanges, Details
<1> QED
  BY <1>1, SessionHolds, PagesHold, PTL

\* A poll runs at most once at a time, and usePolling's `running` is set exactly
\* while it runs.
THEOREM PollsRunOnce == Spec => []OnePollAtATime
<1>1. ASSUME PagesKept PROVE OnePollAtATime
  <2>1. ASSUME NEW p \in Polls
        PROVE  Cardinality({k \in Slots : On(p, k)}) = IF running[p] THEN 1 ELSE 0
    <3>1. CASE running[p]
      <4>1. PICK k \in Slots : On(p, k)
        BY <1>1, <3>1, Zenon DEF PagesKept, PollsKept
      <4>2. \A l \in Slots : On(p, l) => l = k
        BY <1>1, <4>1, Zenon DEF PagesKept, PollsKept
      <4>3. {l \in Slots : On(p, l)} = {k}
        BY <4>1, <4>2
      <4> QED
        BY <3>1, <4>3, FS_Singleton
    <3>2. CASE ~running[p]
      <4>1. {l \in Slots : On(p, l)} = {}
        BY <1>1, <3>2 DEF PagesKept, PollsKept
      <4> QED
        BY <3>2, <4>1, FS_EmptySet
    <3> QED
      BY <3>1, <3>2, Zenon
  <2> QED
    BY <2>1 DEF OnePollAtATime, On
<1>2. PagesKept => OnePollAtATime
  BY <1>1
<1> QED
  BY <1>2, PagesHold, PTL

-----------------------------------------------------------------------------
(* The record of a result. *)

LEMMA NothingSpent ==
  ASSUME SessionInv, UNCHANGED left, NEW what \in Rare
  PROVE  ~Spend(what)
  BY SpendKeepsTypes DEF SessionInv

\* Only an answer frees the slot of the poll while its page is there.
LEMMA PollIsAnswered ==
  ASSUME SessionInv, PagesKept, CallsMove, NEW k \in Slots, PollEnds(k)
  PROVE  Arrives(k)
<1>0. /\ calls[k].task = "status poll" /\ calls'[k] = Free /\ Free.task = "free"
      /\ UNCHANGED left
  BY FreeIsKept, Zenon DEF PollEnds
<1>1. calls'[k].task # calls[k].task
  BY <1>0
<1>2. ~CallsLast
  BY <1>1, Zenon DEF CallsLast, Lasts
<1>3. ~PageLeft
  <2>1. ~Spend("loads")
    BY <1>0, NothingSpent DEF Rare
  <2>2. calls[k].task # "create"
    BY <1>0
  <2> QED
    BY <1>1, <2>1, <2>2, Zenon DEF PageLeft, Lasts
<1>4. calls \in [Slots -> Calls]
  BY Zenon DEF PagesKept, CallsKept
<1>5. ASSUME NEW j \in Slots, CallEnds(j) PROVE Arrives(k)
  <2>1. j = k
    BY <1>1, <1>4, <1>5 DEF CallEnds, Becomes
  <2> QED
    BY <1>0, <1>5, <2>1 DEF CallEnds
<1>6. ASSUME NEW j \in Slots, AsksAgain(j) PROVE FALSE
  <2>1. PICK d \in Calls : Becomes(j, d) /\ d.task = calls[j].task
    BY <1>6, Zenon DEF AsksAgain
  <2> QED
    BY <1>1, <1>4, <2>1 DEF Becomes
<1>7. ASSUME NEW j \in Slots, CallBegins(j) PROVE FALSE
  <2>1. PICK d : Becomes(j, d) /\ Begins(j, d)
    BY <1>7, Zenon DEF CallBegins
  <2>2. j # k
    BY <1>0, <2>1 DEF Begins
  <2> QED
    BY <1>1, <1>4, <2>1, <2>2 DEF Becomes
<1>8. ASSUME NEW j \in Slots, NEW l \in Slots, TwoBegin(j, l) PROVE FALSE
  <2>1. PICK d, e : Begins(j, d) /\ Begins(l, e) /\ calls' = [calls EXCEPT ![j] = d, ![l] = e]
    BY <1>8, Zenon DEF TwoBegin
  <2>2. j # k /\ l # k
    BY <1>0, <2>1 DEF Begins
  <2> QED
    BY <1>1, <1>4, <2>1, <2>2
<1> QED
  BY <1>2, <1>3, <1>5, <1>6, <1>7, <1>8, Zenon DEF CallsMove

LEMMA PollShowsRecord ==
  ASSUME SessionInv, PagesKept, PagesKept', [Next]_vars, NEW k \in Slots, PollEnds(k),
         IsTerminal(ReadByPoll(k).status)
  PROVE  exchange'.version >= ReadByPoll(k).rec
<1> DEFINE c == calls[k]
           i == c.id
           w == c.read
<1>1. /\ c.task = "status poll" /\ c.ask = "exchange" /\ c.mounted
      /\ exchange.id = i /\ UNCHANGED left
  BY PollAsksTwice, Zenon DEF PollEnds
<1>2. ReadByPoll(k) = w
  BY <1>1 DEF ReadByPoll
<1>3. c \in Calls /\ CallKept(c)
  BY SlotTyped, Zenon DEF PagesKept
<1>4. /\ i \in Requests /\ w.rec <= c.had /\ c.code # "failed"
      /\ c.from[i] > 0
      /\ Start[i] = "none" => c.from[i] > 1
  BY <1>1, <1>2, <1>3 DEF CallKept
<1>5. Arrives(k)
  <2>1. CallsMove
    BY NextMoves, Zenon DEF PageStep
  <2> QED
    BY <2>1, PollIsAnswered, Zenon
<1>6. PICK answer \in ReadAnswers(k) : ReadArrives(k, answer)
  <2>1. ~MayFail
    BY <1>1, NothingSpent, Zenon DEF MayFail, Rare
  <2> QED
    BY <1>4, <1>5, <2>1, Zenon DEF Arrives
<1>7. answer \in ExchangeAnswers(k)
  BY <1>1 DEF ReadAnswers
<1>8. PICK row \in Seen(k, i), version \in c.had .. records[i] :
          answer = IF row.status = "none" THEN Answer("not_found", NoRows, 0)
                   ELSE Answer("ok", NoRows, version)
  BY <1>7 DEF ExchangeAnswers, RecordsFound
<1>9. row.status # "none"
  <2>1. row.status = "none" => c.from[i] <= 1 /\ Start[i] = "none"
    BY <1>4, SeenTyped, Zenon
  <2>2. c.from[i] \in Nat
    BY <1>3, <1>4 DEF Calls
  <2> HIDE DEF i, c
  <2> QED
    BY <1>4, <2>1, <2>2
<1>10. answer = Answer("ok", NoRows, version)
  BY <1>8, <1>9, Zenon
<1>11. answer.code = "ok" /\ answer.version = version
  BY <1>10 DEF Answer
<1>12. exchange' = Shows(k, answer)
  <2>1. ExchangeArrives(k, answer)
    BY <1>1, <1>6 DEF ReadArrives, ListArrives, DetailArrives
  <2> QED
    BY <1>1, <2>1, Zenon DEF ExchangeArrives
<1>13. version \in Nat /\ version >= w.rec /\ w.rec \in Nat
  <2>1. c.had \in Nat /\ records[i] \in Nat /\ w \in Rows
    BY <1>3, <1>4 DEF Calls, PagesKept, ServerTyped
  <2>2. w.rec \in Nat
    BY <2>1 DEF Rows
  <2> HIDE DEF c, i, w
  <2> QED
    BY <1>4, <1>8, <2>1, <2>2
<1>14. exchange'.version >= w.rec
  <2>1. CASE version > 0
    <3>1. Shows(k, answer) = [exchange EXCEPT !.status = "ready", !.of = calls[k].id,
                                              !.version = answer.version]
      BY <1>11, <2>1, Zenon DEF Shows
    <3>2. exchange \in Exchanges
      BY Zenon DEF PagesKept, StoresTyped
    <3>3. exchange'.version = version
      BY <1>11, <1>12, <3>1, <3>2 DEF Exchanges
    <3> QED
      BY <1>13, <3>3, Zenon
  <2>2. CASE ~(version > 0)
    <3>1. exchange'.version \in Nat
      BY DEF PagesKept, StoresTyped, Exchanges
    <3>2. w.rec = 0
      <4> HIDE DEF w
      <4> QED
        BY <1>13, <2>2
    <3> HIDE DEF w
    <3> QED
      BY <3>1, <3>2
  <2> QED
    BY <2>1, <2>2, Zenon
<1> QED
  BY <1>2, <1>14, Zenon

\* The poll of a request that has got its result leaves the record of that
\* result on screen: the request is read first, and the worker writes the record
\* before the status.
THEOREM RecordComesAlong == Spec => ResultComesWithRecord
<1> DEFINE Shown ==
        \A k \in Slots : PollEnds(k) /\ IsTerminal(ReadByPoll(k).status)
                             => exchange'.version >= ReadByPoll(k).rec
<1>1. ASSUME SessionInv, PagesKept, PagesKept', [Next]_vars PROVE Shown
  BY <1>1, PollShowsRecord, Zenon
<1> HIDE DEF Shown
<1>2. SessionInv /\ PagesKept /\ PagesKept' /\ [Next]_vars => [Shown]_vars
  BY <1>1
<1>3. Spec => [][Shown]_vars
  BY <1>2, SessionHolds, PagesHold, PTL DEF Spec
<1> QED
  BY <1>3 DEF Shown, ResultComesWithRecord
==============================================================================
