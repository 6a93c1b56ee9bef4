------------------------ MODULE ProviderLoginProofs ------------------------
(***************************************************************************)
(* For all choices of providers, tabs and people, however often they are   *)
(* redirected: what a login makes of an answer, which state it is          *)
(* completed with, and that no other tab undoes it.                        *)
(***************************************************************************)
EXTENDS ProviderLogin, TLAPS

(* A social login that was made of an answer is completed. *)
Completes(who, answer) ==
    /\ answer \in Profiles \cup Refusals
    /\ answer \in Answers(provider.fetch)
    /\ SocialLogin(provider, answer, who).kind = "login"
    /\ \E t \in Tab : \E id, state, copy :
         Complete(t, id, who, SocialLogin(provider, answer, who), state, copy,
                  answer.claim)
    /\ UNCHANGED <<provider, setting>>

Nothing == Unseen /\ UNCHANGED <<provider, setting, accounts>>

LEMMA AnswerCompletes ==
    ASSUME NEW t \in Tab, NEW answer \in Profiles \cup Refusals, Answer(t, answer)
    PROVE  Nothing \/ Completes(tab[t].who, answer)
BY DEF Answer, Completes, Nothing

LEMMA TokenCompletes ==
    ASSUME NEW t \in Tab, NEW who, NEW answer \in Profiles \cup Refusals,
           TokenLogin(t, who, answer)
    PROVE  Completes(who, answer)
BY DEF TokenLogin, Completes

(* Two steps make a login of an answer. *)
LEMMA StepIsLogin ==
    ASSUME [Next]_vars
    PROVE  \/ UNCHANGED vars \/ Nothing
           \/ \E t \in Tab, answer \in Profiles \cup Refusals :
                 Answer(t, answer) \/ \E who : TokenLogin(t, who, answer)
<1>1. ASSUME NEW t \in Tab,
             \/ RequestToken(t) \/ Decide(t) \/ PostAnswer(t) \/ PostToken(t)
             \/ CallbackWithCode(t) \/ CallbackWithToken(t) \/ CallbackSigned(t)
             \/ CallbackPosted(t) \/ ExchangeCode(t) \/ ExchangeToken(t)
      PROVE  Nothing
  BY <1>1 DEF RequestToken, Decide, PostAnswer, PostToken, Keep, CallbackWithCode,
     CallbackWithToken, CallbackSigned, CallbackPosted, ExchangeCode, ExchangeToken,
     Nothing
<1>2. ASSUME NEW t \in Tab, NEW what,
             Redirect(t, what) \/ RedirectForToken(t, what) \/ Unsolicited(t, what)
      PROVE  Nothing
  BY <1>2 DEF Redirect, RedirectForToken, Unsolicited, Nothing
<1>3. CASE SignOut \/ TimePasses \/ Restart \/ Rename
  BY <1>3 DEF SignOut, TimePasses, Restart, Rename, Nothing
<1>. QED
  BY <1>1, <1>2, <1>3 DEF Next

(* Every step completes such a login, or nothing. *)
LEMMA StepCompletes ==
    ASSUME [Next]_vars
    PROVE  UNCHANGED vars \/ Nothing \/ \E who, answer : Completes(who, answer)
BY StepIsLogin, AnswerCompletes, TokenCompletes

----------------------------------------------------------------------------

(* Nothing but the provider, or who vouches for it, verifies an address. *)
THEOREM VouchedHolds == Spec => []Vouched
<1>1. Init => Vouched
  BY DEF Init, Vouched
<1>2. Vouched /\ [Next]_vars => Vouched'
  <2>. SUFFICES ASSUME Vouched, [Next]_vars PROVE Vouched'
    OBVIOUS
  <2>1. CASE UNCHANGED vars
    BY <2>1 DEF Vouched, vars
  <2>2. CASE Nothing
    BY <2>2 DEF Vouched, Nothing, Unseen
  <2>3. ASSUME NEW who, NEW answer, Completes(who, answer)
        PROVE  Vouched'
    <3>1. \/ done' = None
          \/ /\ done'.address = AddressOf(provider, answer)
             /\ done'.claim = answer.claim
      BY <2>3 DEF Completes, Complete, SocialLogin, Unseen
    <3>2. AddressOf(provider, answer).verified =>
            \/ answer.claim \/ setting.vouched
            \/ provider.person.verified = "always"
      BY DEF AddressOf, Verified
    <3>3. UNCHANGED <<provider, setting>>
      BY <2>3 DEF Completes
    <3>. QED
      BY <3>1, <3>2, <3>3 DEF Vouched
  <2>. QED
    BY <2>1, <2>2, <2>3, StepCompletes
<1>. QED
  BY <1>1, <1>2, PTL DEF Spec

(* An answer that has a uid, of a provider whose uids can be depended on,  *)
(* has the uid of who approved.                                            *)
LEMMA UidIsId ==
    ASSUME provider \in Choice, Dependable(provider), NEW who, NEW answer,
           answer \in Profiles \cup Refusals, answer \in Answers(provider.fetch),
           SocialLogin(provider, answer, who).kind = "login"
    PROVE  SocialLogin(provider, answer, who).uid
             = [by |-> "id", of |-> who, seed |-> 0]
<1>. DEFINE body == Read(provider.channel, provider.fetch, answer)
            uid == UidOf(provider.person, body, who)
<1>1. SocialLogin(provider, answer, who).uid = uid
  BY DEF SocialLogin
<1>2. uid.by # "error" /\ uid.by # "crash"
  BY DEF SocialLogin
<1>3. CASE body # "empty"
  BY <1>1, <1>3 DEF UidOf, UidOfProfile, Dependable
<1>4. CASE body = "empty"
  <2>1. answer.kind # "profile"
    BY <1>4 DEF Read
  <2>2. answer \notin Profiles
    BY <2>1 DEF Profiles
  <2>3. provider.fetch.status \notin {"token", "signed"}
    BY <2>2 DEF Answers
  <2>4. /\ provider.fetch.status \notin {"raises", "query"}
        /\ "body" \notin provider.fetch.also /\ provider.fetch.root # "part"
    BY <1>4 DEF Read
  <2>5. provider.fetch.status = "ignored"
    BY <2>3, <2>4, ChoiceAssumption
  <2>6. provider.person.uid # "text"
    BY <2>4, <2>5 DEF Dependable
  <2>7. uid.by \in {"error", "crash"}
    BY <1>4, <2>6 DEF UidOf
  <2>. QED
    BY <1>2, <2>7
<1>. QED
  BY <1>3, <1>4

IdsOnly ==
    /\ provider \in Choice
    /\ Dependable(provider) =>
         \A a \in accounts : a.uid = [by |-> "id", of |-> a.who, seed |-> 0]

(* Whatever is answered or renamed, and whatever restarts: one person, one *)
(* uid.                                                                    *)
THEOREM UidsArePeopleHolds == Spec => []UidsArePeople
<1>1. Init => IdsOnly
  BY DEF Init, IdsOnly
<1>2. IdsOnly /\ [Next]_vars => IdsOnly'
  <2>. SUFFICES ASSUME IdsOnly, [Next]_vars PROVE IdsOnly'
    OBVIOUS
  <2>1. CASE UNCHANGED vars
    BY <2>1 DEF IdsOnly, vars, Dependable
  <2>2. CASE Nothing
    BY <2>2 DEF IdsOnly, Nothing, Dependable
  <2>3. ASSUME NEW who, NEW answer, Completes(who, answer)
        PROVE  IdsOnly'
    <3>. DEFINE login == SocialLogin(provider, answer, who)
    <3>1. provider' = provider
      BY <2>3 DEF Completes
    <3>2. \/ accounts' = accounts
          \/ accounts' = accounts \cup {[uid |-> login.uid, who |-> who]}
      BY <2>3 DEF Completes, Complete
    <3>3. Dependable(provider) => login.uid = [by |-> "id", of |-> who, seed |-> 0]
      BY <2>3, UidIsId DEF Completes, IdsOnly
    <3>. HIDE DEF login
    <3>4. Dependable(provider)' <=> Dependable(provider)
      BY <3>1 DEF Dependable
    <3>. QED
      BY <3>1, <3>2, <3>3, <3>4 DEF IdsOnly
  <2>. QED
    BY <2>1, <2>2, <2>3, StepCompletes
<1>3. IdsOnly => UidsArePeople
  <2>. SUFFICES ASSUME IdsOnly, Dependable(provider), NEW a \in accounts,
                       NEW b \in accounts
                PROVE  a.uid = b.uid <=> a.who = b.who
    BY DEF UidsArePeople
  <2>1. /\ a.uid = [by |-> "id", of |-> a.who, seed |-> 0]
        /\ b.uid = [by |-> "id", of |-> b.who, seed |-> 0]
    BY DEF IdsOnly
  <2>2. a.uid.of = a.who /\ b.uid.of = b.who
    BY <2>1
  <2>. QED
    BY <2>1, <2>2
<1>. QED
  BY <1>1, <1>2, <1>3, PTL DEF Spec

----------------------------------------------------------------------------

(* What each step makes of a tab *)

TabOf(at, id, who, copy, state) ==
    [at |-> at, id |-> id, who |-> who, copy |-> copy, state |-> state]

Tabs ==
    /\ tab = [t \in Tab |-> tab[t]]
    /\ \A t \in Tab : tab[t] = TabOf(tab[t].at, tab[t].id, tab[t].who, tab[t].copy,
                                     tab[t].state)

Becomes(t, r) == tab' = [s \in Tab |-> IF s = t THEN r ELSE tab[s]]

LEMMA Moved ==
    ASSUME Tabs, NEW t \in Tab, NEW at, tab' = [tab EXCEPT ![t].at = at]
    PROVE  Becomes(t, TabOf(at, tab[t].id, tab[t].who, tab[t].copy, tab[t].state))
BY DEF Tabs, Becomes, TabOf

LEMMA MovedWithWho ==
    ASSUME Tabs, NEW t \in Tab, NEW at, NEW who,
           tab' = [tab EXCEPT ![t].at = at, ![t].who = who]
    PROVE  Becomes(t, TabOf(at, tab[t].id, who, tab[t].copy, tab[t].state))
<1>. DEFINE r == TabOf(at, tab[t].id, tab[t].who, tab[t].copy, tab[t].state)
            moved == [s \in Tab |-> IF s = t THEN r ELSE tab[s]]
<1>1. [tab EXCEPT ![t].at = at] = moved
  BY DEF Tabs, TabOf
<1>2. [tab EXCEPT ![t].at = at, ![t].who = who]
        = [[tab EXCEPT ![t].at = at] EXCEPT ![t].who = who]
  OBVIOUS
<1>3. [moved EXCEPT ![t].who = who]
        = [s \in Tab |-> IF s = t THEN [r EXCEPT !.who = who] ELSE tab[s]]
  OBVIOUS
<1>4. [r EXCEPT !.who = who] = TabOf(at, tab[t].id, who, tab[t].copy, tab[t].state)
  BY DEF TabOf
<1>. HIDE DEF r
<1>. QED
  BY <1>1, <1>2, <1>3, <1>4 DEF Becomes

LEMMA MovedWithId ==
    ASSUME Tabs, NEW t \in Tab, NEW at, NEW id, NEW who,
           tab' = [tab EXCEPT ![t].at = at, ![t].id = id, ![t].who = who]
    PROVE  Becomes(t, TabOf(at, id, who, tab[t].copy, tab[t].state))
<1>. DEFINE r == TabOf(at, tab[t].id, tab[t].who, tab[t].copy, tab[t].state)
            q == TabOf(at, id, tab[t].who, tab[t].copy, tab[t].state)
            Put(x) == [s \in Tab |-> IF s = t THEN x ELSE tab[s]]
<1>1. [tab EXCEPT ![t].at = at] = Put(r)
  BY DEF Tabs, TabOf
<1>2. [tab EXCEPT ![t].at = at, ![t].id = id, ![t].who = who]
        = [[[tab EXCEPT ![t].at = at] EXCEPT ![t].id = id] EXCEPT ![t].who = who]
  OBVIOUS
<1>3. [Put(r) EXCEPT ![t].id = id] = Put([r EXCEPT !.id = id])
  OBVIOUS
<1>4. [r EXCEPT !.id = id] = q
  BY DEF TabOf
<1>5. [Put(q) EXCEPT ![t].who = who] = Put([q EXCEPT !.who = who])
  OBVIOUS
<1>6. [q EXCEPT !.who = who] = TabOf(at, id, who, tab[t].copy, tab[t].state)
  BY DEF TabOf
<1>7. Put([q EXCEPT !.who = who])
        = Put(TabOf(at, id, who, tab[t].copy, tab[t].state))
  BY <1>6
<1>8. Put([r EXCEPT !.id = id]) = Put(q)
  BY <1>4
<1>. HIDE DEF r, q, Put
<1>9. tab' = Put(TabOf(at, id, who, tab[t].copy, tab[t].state))
  BY <1>1, <1>2, <1>3, <1>5, <1>7, <1>8
<1>. QED
  BY <1>9 DEF Becomes, Put

LEMMA MovedWithCopy ==
    ASSUME Tabs, NEW t \in Tab, NEW at, NEW copy,
           tab' = [tab EXCEPT ![t].at = at, ![t].copy = copy]
    PROVE  Becomes(t, TabOf(at, tab[t].id, tab[t].who, copy, tab[t].state))
<1>. DEFINE r == TabOf(at, tab[t].id, tab[t].who, tab[t].copy, tab[t].state)
            moved == [s \in Tab |-> IF s = t THEN r ELSE tab[s]]
<1>1. [tab EXCEPT ![t].at = at] = moved
  BY DEF Tabs, TabOf
<1>2. [tab EXCEPT ![t].at = at, ![t].copy = copy]
        = [[tab EXCEPT ![t].at = at] EXCEPT ![t].copy = copy]
  OBVIOUS
<1>3. [moved EXCEPT ![t].copy = copy]
        = [s \in Tab |-> IF s = t THEN [r EXCEPT !.copy = copy] ELSE tab[s]]
  OBVIOUS
<1>4. [r EXCEPT !.copy = copy] = TabOf(at, tab[t].id, tab[t].who, copy, tab[t].state)
  BY DEF TabOf
<1>. HIDE DEF r
<1>. QED
  BY <1>1, <1>2, <1>3, <1>4 DEF Becomes

LEMMA MovedWithState ==
    ASSUME Tabs, NEW t \in Tab, NEW at, NEW copy, NEW state,
           tab' = [tab EXCEPT ![t].at = at, ![t].copy = copy, ![t].state = state]
    PROVE  Becomes(t, TabOf(at, tab[t].id, tab[t].who, copy, state))
<1>. DEFINE r == TabOf(at, tab[t].id, tab[t].who, tab[t].copy, tab[t].state)
            q == TabOf(at, tab[t].id, tab[t].who, copy, tab[t].state)
            Put(x) == [s \in Tab |-> IF s = t THEN x ELSE tab[s]]
<1>1. [tab EXCEPT ![t].at = at] = Put(r)
  BY DEF Tabs, TabOf
<1>2. [tab EXCEPT ![t].at = at, ![t].copy = copy, ![t].state = state]
        = [[[tab EXCEPT ![t].at = at] EXCEPT ![t].copy = copy] EXCEPT ![t].state = state]
  OBVIOUS
<1>3. [Put(r) EXCEPT ![t].copy = copy] = Put([r EXCEPT !.copy = copy])
  OBVIOUS
<1>4. [r EXCEPT !.copy = copy] = q
  BY DEF TabOf
<1>5. [Put(q) EXCEPT ![t].state = state] = Put([q EXCEPT !.state = state])
  OBVIOUS
<1>6. [q EXCEPT !.state = state] = TabOf(at, tab[t].id, tab[t].who, copy, state)
  BY DEF TabOf
<1>7. Put([q EXCEPT !.state = state])
        = Put(TabOf(at, tab[t].id, tab[t].who, copy, state))
  BY <1>6
<1>8. Put([r EXCEPT !.copy = copy]) = Put(q)
  BY <1>4
<1>. HIDE DEF r, q, Put
<1>9. tab' = Put(TabOf(at, tab[t].id, tab[t].who, copy, state))
  BY <1>1, <1>2, <1>3, <1>5, <1>7, <1>8
<1>. QED
  BY <1>9 DEF Becomes, Put

LEMMA Replaced ==
    ASSUME Tabs, NEW t \in Tab, NEW r, tab' = [tab EXCEPT ![t] = r]
    PROVE  Becomes(t, r)
BY DEF Tabs, Becomes

(* A tab has the state of its own redirect, or has yet to look for it. *)
Fits(r) == r.state = None \/ r.state.id = r.id

TabsFit == Tabs /\ \A t \in Tab : Fits(tab[t])

PostedFits == posted = None \/ Fits(posted)

Finds == provider.state = "id" /\ ~provider.keeps

OwnStates == OwnAnswer /\ (Finds => TabsFit /\ PostedFits)

LEMMA BecomesFits ==
    ASSUME TabsFit, NEW t \in Tab, NEW at, NEW id, NEW who, NEW copy, NEW state,
           Becomes(t, TabOf(at, id, who, copy, state)),
           state = None \/ state.id = id
    PROVE  TabsFit'
<1>. DEFINE r == TabOf(at, id, who, copy, state)
<1>1. /\ r = TabOf(r.at, r.id, r.who, r.copy, r.state)
      /\ Fits(r)
  BY DEF TabOf, Fits
<1>. HIDE DEF r
<1>2. tab' = [s \in Tab |-> IF s = t THEN r ELSE tab[s]]
  BY DEF Becomes, r
<1>3. \A s \in Tab : tab'[s] = IF s = t THEN r ELSE tab[s]
  BY <1>2
<1>4. tab' = [s \in Tab |-> tab'[s]]
  BY <1>2
<1>5. \A s \in Tab : Fits(tab'[s])
  BY <1>1, <1>3 DEF TabsFit
<1>6. \A s \in Tab : tab'[s] = TabOf(tab'[s].at, tab'[s].id, tab'[s].who,
                                    tab'[s].copy, tab'[s].state)
  BY <1>1, <1>3 DEF TabsFit, Tabs
<1>. QED
  BY <1>4, <1>5, <1>6 DEF TabsFit, Tabs, Fits

LEMMA GotoFits ==
    ASSUME TabsFit, NEW t \in Tab, NEW place, Goto(t, place)
    PROVE  TabsFit'
<1>1. Becomes(t, TabOf(place, tab[t].id, tab[t].who, tab[t].copy, tab[t].state))
  BY Moved DEF Goto, TabsFit
<1>2. Fits(tab[t])
  BY DEF TabsFit
<1>. QED
  BY <1>1, <1>2, BecomesFits DEF Fits

LEMMA IdleFits ==
    ASSUME TabsFit, NEW t \in Tab, Leave(t)
    PROVE  TabsFit'
<1>1. Becomes(t, TabOf("idle", 0, None, NewSession, None))
  BY Replaced DEF Leave, IdleTab, TabOf, TabsFit
<1>. QED
  BY <1>1, BecomesFits

LEMMA Started ==
    ASSUME NEW at, NEW id, NEW copy
    PROVE  /\ [IdleTab EXCEPT !.at = at, !.id = id]
                = TabOf(at, id, None, NewSession, None)
           /\ [IdleTab EXCEPT !.at = at, !.id = id, !.copy = copy]
                = TabOf(at, id, None, copy, None)
<1>1. [IdleTab EXCEPT !.at = at] = TabOf(at, 0, None, NewSession, None)
  BY DEF IdleTab, TabOf
<1>2. [TabOf(at, 0, None, NewSession, None) EXCEPT !.id = id]
        = TabOf(at, id, None, NewSession, None)
  BY DEF TabOf
<1>3. [TabOf(at, id, None, NewSession, None) EXCEPT !.copy = copy]
        = TabOf(at, id, None, copy, None)
  BY DEF TabOf
<1>4. [IdleTab EXCEPT !.at = at, !.id = id]
        = [[IdleTab EXCEPT !.at = at] EXCEPT !.id = id]
  OBVIOUS
<1>5. [IdleTab EXCEPT !.at = at, !.id = id, !.copy = copy]
        = [[[IdleTab EXCEPT !.at = at] EXCEPT !.id = id] EXCEPT !.copy = copy]
  OBVIOUS
<1>. QED
  BY <1>1, <1>2, <1>3, <1>4, <1>5

LEMMA StartFits ==
    ASSUME TabsFit, NEW t \in Tab, NEW at, NEW id, NEW copy,
           tab' = [tab EXCEPT ![t] = TabOf(at, id, None, copy, None)]
    PROVE  TabsFit'
<1>1. Becomes(t, TabOf(at, id, None, copy, None))
  BY Replaced DEF TabsFit
<1>. QED
  BY <1>1, BecomesFits

(* What is found under an id has it. *)
LEMMA UnstashedHasId ==
    ASSUME NEW s, NEW id, Unstashed(s, id) # None
    PROVE  Unstashed(s, id).id = id
BY DEF Unstashed

LEMMA RedirectFits ==
    ASSUME TabsFit, NEW t \in Tab, NEW process,
           Redirect(t, process) \/ RedirectForToken(t, process)
    PROVE  TabsFit'
<1>1. CASE Redirect(t, process)
  <2>1. tab' = [tab EXCEPT ![t] = TabOf("away", serial + 1, None, NewSession, None)]
    BY <1>1, Started DEF Redirect
  <2>. QED
    BY <2>1, StartFits
<1>2. CASE RedirectForToken(t, process)
  <2>1. tab' = [tab EXCEPT ![t] =
                   TabOf("asking", serial + 1, None,
                         Stashed(session, serial + 1, process), None)]
    <3>. DEFINE id == serial + 1
                copy == Stashed(session, id, process)
    <3>1. tab' = [tab EXCEPT ![t] =
                     [IdleTab EXCEPT !.at = "asking", !.id = id, !.copy = copy]]
      BY <1>2 DEF RedirectForToken
    <3>. HIDE DEF id, copy
    <3>2. tab' = [tab EXCEPT ![t] = TabOf("asking", id, None, copy, None)]
      BY <3>1, Started
    <3>. QED
      BY <3>2 DEF id, copy
  <2>. QED
    BY <2>1, StartFits
<1>. QED
  BY <1>1, <1>2

LEMMA DecideFits ==
    ASSUME TabsFit, NEW t \in Tab, RequestToken(t) \/ Decide(t)
    PROVE  TabsFit'
<1>1. CASE tab' = [tab EXCEPT ![t].at = "away", ![t].copy = NewSession]
  <2>1. Becomes(t, TabOf("away", tab[t].id, tab[t].who, NewSession, tab[t].state))
    BY <1>1, MovedWithCopy DEF TabsFit
  <2>2. Fits(tab[t])
    BY DEF TabsFit
  <2>. QED
    BY <2>1, <2>2, BecomesFits DEF Fits
<1>2. ASSUME NEW who, tab' = [tab EXCEPT ![t].at = "back", ![t].who = who]
      PROVE  TabsFit'
  <2>1. Becomes(t, TabOf("back", tab[t].id, who, tab[t].copy, tab[t].state))
    BY <1>2, MovedWithWho DEF TabsFit
  <2>2. Fits(tab[t])
    BY DEF TabsFit
  <2>. QED
    BY <2>1, <2>2, BecomesFits DEF Fits
<1>. QED
  BY <1>1, <1>2, IdleFits DEF RequestToken, Decide, ErrorPage, Crash

LEMMA CallbackFits ==
    ASSUME TabsFit, NEW t \in Tab,
           CallbackWithCode(t) \/ CallbackWithToken(t) \/ CallbackSigned(t)
    PROVE  TabsFit'
<1>1. ASSUME NEW place, NEW copy, NEW state, Waits(t, place, copy, state),
             state = None \/ state.id = tab[t].id
      PROVE  TabsFit'
  <2>1. Becomes(t, TabOf(place, tab[t].id, tab[t].who, copy, state))
    BY <1>1, MovedWithState DEF Waits, TabsFit
  <2>. QED
    BY <1>1, <2>1, BecomesFits
<1>2. ASSUME CallbackWithCode(t) PROVE TabsFit'
  BY <1>1, <1>2, IdleFits, UnstashedHasId DEF CallbackWithCode, ErrorPage
<1>3. ASSUME CallbackWithToken(t) PROVE TabsFit'
  BY <1>1, <1>3, IdleFits DEF CallbackWithToken
<1>4. ASSUME CallbackSigned(t) PROVE TabsFit'
  BY <1>1, <1>4, IdleFits DEF CallbackSigned
<1>. QED
  BY <1>2, <1>3, <1>4

LEMMA CallbackPostedFits ==
    ASSUME TabsFit, PostedFits, NEW t \in Tab, CallbackPosted(t)
    PROVE  TabsFit' /\ PostedFits'
<1>1. PostedFits'
  BY DEF CallbackPosted, PostedFits
<1>2. ASSUME posted # None,
             tab' = [tab EXCEPT ![t] = TabOf("profile", posted.id, posted.who,
                                             session, posted.state)]
      PROVE  TabsFit'
  <2>1. Becomes(t, TabOf("profile", posted.id, posted.who, session, posted.state))
    BY <1>2, Replaced DEF TabsFit
  <2>. QED
    BY <1>2, <2>1, BecomesFits DEF PostedFits, Fits
<1>. QED
  BY <1>1, <1>2, IdleFits DEF CallbackPosted, TabOf

LEMMA ExchangeFits ==
    ASSUME TabsFit, ~provider.keeps, NEW t \in Tab,
           ExchangeCode(t) \/ ExchangeToken(t)
    PROVE  TabsFit'
BY GotoFits, IdleFits DEF ExchangeCode, ExchangeToken, ErrorPage, Crash

LEMMA KeepFits ==
    ASSUME TabsFit, NEW t \in Tab, Keep(t)
    PROVE  TabsFit' /\ PostedFits'
BY GotoFits DEF Keep, PostedFits, Fits

LEMMA UnsolicitedFits ==
    ASSUME TabsFit, NEW t \in Tab, NEW who, Unsolicited(t, who)
    PROVE  TabsFit' /\ PostedFits'
<1>1. tab' = [tab EXCEPT ![t] = TabOf("posted", serial + 1, None, NewSession, None)]
  BY Started DEF Unsolicited
<1>2. PostedFits'
  BY DEF Unsolicited, PostedFits, Fits
<1>. QED
  BY <1>1, <1>2, StartFits

LEMMA TimePassesFits ==
    ASSUME TabsFit, TimePasses
    PROVE  TabsFit'
<1>. DEFINE Older(r) == [r EXCEPT !.copy = Aged(@)]
<1>1. ASSUME NEW s \in Tab
      PROVE  Older(tab[s]) = TabOf(tab[s].at, tab[s].id, tab[s].who,
                                   Aged(tab[s].copy), tab[s].state)
  BY DEF TabsFit, Tabs, TabOf
<1>2. tab' = [s \in Tab |-> TabOf(tab[s].at, tab[s].id, tab[s].who,
                                  Aged(tab[s].copy), tab[s].state)]
  BY <1>1 DEF TimePasses
<1>3. \A s \in Tab : Fits(tab'[s])
  BY <1>2 DEF TabsFit, Fits, TabOf
<1>4. Tabs'
  BY <1>2 DEF Tabs, TabOf
<1>. QED
  BY <1>3, <1>4 DEF TabsFit, Fits

LEMMA RestartFits ==
    ASSUME TabsFit, Restart
    PROVE  TabsFit'
<1>1. /\ IdleTab = TabOf(IdleTab.at, IdleTab.id, IdleTab.who, IdleTab.copy,
                         IdleTab.state)
      /\ Fits(IdleTab)
  BY DEF IdleTab, TabOf, Fits
<1>2. /\ tab' = [s \in Tab |-> tab'[s]]
      /\ \A s \in Tab : tab'[s] = IdleTab \/ tab'[s] = tab[s]
  BY DEF Restart
<1>3. \A s \in Tab : Fits(tab'[s])
  BY <1>1, <1>2 DEF TabsFit
<1>. QED
  BY <1>1, <1>2, <1>3 DEF TabsFit, Tabs, Fits

LEMMA CompleteFits ==
    ASSUME Finds, TabsFit, NEW t \in Tab, NEW answer, NEW who,
           Answer(t, answer) \/ TokenLogin(t, who, answer)
    PROVE  TabsFit'
<1>1. ASSUME NEW id, NEW person, NEW login, NEW state, NEW copy, NEW claim,
             Complete(t, id, person, login, state, copy, claim)
      PROVE  TabsFit'
  BY <1>1, IdleFits DEF Complete
<1>2. CASE Answer(t, answer)
  BY <1>1, <1>2, IdleFits DEF Answer, ErrorPage, Crash
<1>3. CASE TokenLogin(t, who, answer)
  BY <1>1, <1>3 DEF TokenLogin
<1>. QED
  BY <1>2, <1>3

LEMMA CompleteOwns ==
    ASSUME Finds, TabsFit, NEW t \in Tab, NEW answer, NEW who,
           Answer(t, answer) \/ TokenLogin(t, who, answer)
    PROVE  done' # None => done'.state = done'.answer
<1>1. ASSUME NEW id, NEW person, NEW login, NEW state, NEW copy, NEW claim,
             Complete(t, id, person, login, state, copy, claim), state.id = id
      PROVE  done' # None => done'.state = done'.answer
  BY <1>1 DEF Complete, Unseen
<1>2. CASE Answer(t, answer)
  <2>1. StateFor(t) # None => StateFor(t).id = tab[t].id
    <3>1. Fits(tab[t])
      BY DEF TabsFit
    <3>. QED
      BY <3>1, UnstashedHasId DEF StateFor, Finds, Fits
  <2>. QED
    BY <1>1, <1>2, <2>1 DEF Answer, Unseen
<1>3. CASE TokenLogin(t, who, answer)
  BY <1>1, <1>3 DEF TokenLogin
<1>. QED
  BY <1>2, <1>3

LEMMA StepFits ==
    ASSUME Finds, TabsFit, PostedFits, [Next]_vars
    PROVE  TabsFit' /\ PostedFits'
<1>1. ASSUME NEW t \in Tab, NEW process,
             Redirect(t, process) \/ RedirectForToken(t, process)
      PROVE  TabsFit' /\ PostedFits'
  BY <1>1, RedirectFits DEF Redirect, RedirectForToken, PostedFits
<1>2. ASSUME NEW t \in Tab,
             \/ RequestToken(t) \/ Decide(t)
             \/ CallbackWithCode(t) \/ CallbackWithToken(t) \/ CallbackSigned(t)
             \/ ExchangeCode(t) \/ ExchangeToken(t)
      PROVE  TabsFit' /\ PostedFits'
  <2>1. TabsFit'
    BY <1>2, DecideFits, CallbackFits, ExchangeFits DEF Finds
  <2>2. UNCHANGED posted
    BY <1>2 DEF RequestToken, Decide, CallbackWithCode, CallbackWithToken,
       CallbackSigned, ExchangeCode, ExchangeToken
  <2>. QED
    BY <2>1, <2>2 DEF PostedFits
<1>3. ASSUME NEW t \in Tab, PostAnswer(t) \/ PostToken(t)
      PROVE  TabsFit' /\ PostedFits'
  BY <1>3, KeepFits DEF PostAnswer, PostToken
<1>4. ASSUME NEW t \in Tab, NEW who, NEW answer,
             Answer(t, answer) \/ TokenLogin(t, who, answer)
      PROVE  TabsFit' /\ PostedFits'
  BY <1>4, CompleteFits DEF Answer, TokenLogin, PostedFits, Finds
<1>5. CASE SignOut \/ Rename \/ UNCHANGED vars
  BY <1>5 DEF SignOut, Rename, vars, TabsFit, Tabs, PostedFits
<1>6. CASE TimePasses \/ Restart
  <2>1. UNCHANGED posted
    BY <1>6 DEF TimePasses, Restart
  <2>. QED
    BY <1>6, <2>1, TimePassesFits, RestartFits DEF PostedFits
<1>. QED
  BY <1>1, <1>2, <1>3, <1>4, <1>5, <1>6, CallbackPostedFits, UnsolicitedFits DEF Next

(* With any number of tabs, redirects and answers under way, a login is    *)
(* completed with the state of its own redirect.                           *)
THEOREM OwnAnswerHolds == Spec => []OwnAnswer
<1>1. Init => OwnStates
  <2>. SUFFICES ASSUME Init PROVE OwnStates
    OBVIOUS
  <2>1. /\ tab = [t \in Tab |-> IdleTab]
        /\ IdleTab = TabOf("idle", 0, None, NewSession, None)
    BY DEF Init, IdleTab, TabOf
  <2>2. TabsFit
    BY <2>1 DEF TabsFit, Tabs, TabOf, Fits
  <2>. QED
    BY <2>2 DEF Init, OwnStates, OwnAnswer, PostedFits
<1>2. OwnStates /\ [Next]_vars => OwnStates'
  <2>. SUFFICES ASSUME OwnStates, [Next]_vars PROVE OwnStates'
    OBVIOUS
  <2>1. UNCHANGED provider
    BY StepCompletes DEF Nothing, Completes, vars
  <2>2. CASE ~Finds
    BY <2>1, <2>2 DEF OwnStates, OwnAnswer, Finds
  <2>3. CASE Finds
    <3>1. TabsFit' /\ PostedFits'
      BY <2>3, StepFits DEF OwnStates
    <3>2. done' # None => done'.state = done'.answer
      <4>1. CASE Nothing
        BY <4>1 DEF Nothing, Unseen
      <4>2. CASE UNCHANGED vars
        BY <2>3, <4>2 DEF vars, OwnStates, OwnAnswer, Finds
      <4>3. ASSUME NEW t \in Tab, NEW who, NEW answer,
                   Answer(t, answer) \/ TokenLogin(t, who, answer)
            PROVE  done' # None => done'.state = done'.answer
        BY <2>3, <4>3, CompleteOwns DEF OwnStates
      <4>. QED
        BY <4>1, <4>2, <4>3, StepIsLogin
    <3>. QED
      BY <2>3, <3>1, <3>2 DEF OwnStates, OwnAnswer
  <2>. QED
    BY <2>2, <2>3
<1>3. OwnStates => OwnAnswer
  BY DEF OwnStates
<1>. QED
  BY <1>1, <1>2, <1>3, PTL DEF Spec

----------------------------------------------------------------------------

(* What the numbers say: a key belongs to one login, or to none *)

IsSession(c) ==
    c = [key |-> c.key, user |-> c.user, states |-> c.states, token |-> c.token]

TabsFormed ==
    /\ Tabs
    /\ \A t \in Tab : /\ IsSession(tab[t].copy)
                      /\ tab[t].at # "idle" => tab[t].id # 0

Someone(user) == user = TRUE

(* The redirects that an answer may still be of *)
Numbered(id) ==
    \/ id = 0
    \/ \E t \in Tab : tab[t].id = id
    \/ posted # None /\ posted.id = id

(* Some copy of the session has the key, and is of a user or is not. *)
Known(key, user) ==
    \/ key = 0 /\ user = FALSE
    \/ key = session.key /\ user = session.user
    \/ \E t \in Tab : key = tab[t].copy.key /\ user = tab[t].copy.user

Keys ==
    /\ serial \in Nat
    /\ \A id : Numbered(id) => id \in 0..serial
    /\ \A key, user :
         Known(key, user) => /\ key \in 0..serial
                             /\ key # 0 /\ Numbered(key) => Someone(user)
    /\ \A key, user, other :
         Known(key, user) /\ Known(key, other) => user = other

Formed ==
    /\ TabsFormed
    /\ posted # None => posted.id # 0
    /\ IsSession(session)

Coherent == Formed /\ Keys

(* What a step may make of the tabs, of what is posted and of the session; *)
(* fresh is the number of a redirect that begins.                          *)
TabsFrom(fresh) ==
    /\ TabsFormed'
    /\ \A t \in Tab :
         /\ Numbered(tab'[t].id) \/ tab'[t].id = fresh
         /\ Known(tab'[t].copy.key, tab'[t].copy.user)

PostedFrom(fresh) ==
    posted' # None =>
        posted'.id # 0 /\ (Numbered(posted'.id) \/ posted'.id = fresh)

SessionFrom ==
    /\ IsSession(session')
    /\ \/ Known(session'.key, session'.user)
       \/ Someone(session'.user) /\ session'.key # 0 /\ Numbered(session'.key)
    /\ session.user => session'.user

GoesOn == serial' = serial /\ TabsFrom(0) /\ PostedFrom(0) /\ SessionFrom

Begins ==
    /\ serial' = serial + 1
    /\ TabsFrom(serial + 1) /\ PostedFrom(serial + 1)
    /\ IsSession(session')
    /\ session'.key = session.key /\ session'.user = session.user

Renews ==
    /\ serial' = serial + 1
    /\ TabsFrom(0) /\ PostedFrom(0)
    /\ IsSession(session')
    /\ session'.key = serial + 1
    /\ session'.user = TRUE \/ SignOut

LEMMA GoingOn ==
    ASSUME Coherent, GoesOn
    PROVE  Coherent' /\ (session.user => session'.user \/ SignOut)
<1>1. Formed'
  BY DEF GoesOn, TabsFrom, PostedFrom, SessionFrom, Formed
<1>2. ASSUME NEW id, Numbered(id)' PROVE Numbered(id)
  BY <1>2 DEF GoesOn, TabsFrom, PostedFrom, Numbered
<1>3. ASSUME NEW key, NEW user, Known(key, user)'
      PROVE  Known(key, user) \/ (Someone(user) /\ key # 0 /\ Numbered(key))
  BY <1>3 DEF GoesOn, TabsFrom, SessionFrom, Known
<1>4. serial' = serial
  BY DEF GoesOn
<1>5. Keys
  BY DEF Coherent
<1>6. Keys'
  <2>1. serial' \in Nat /\ \A id : Numbered(id)' => id \in 0..serial'
    BY <1>2, <1>4, <1>5 DEF Keys
  <2>2. ASSUME NEW key, NEW user, Known(key, user)'
        PROVE  /\ key \in 0..serial'
               /\ key # 0 /\ Numbered(key)' => Someone(user)
    <3>1. key \in 0..serial
      BY <1>3, <1>5, <2>2 DEF Keys
    <3>2. ASSUME key # 0, Numbered(key)' PROVE Someone(user)
      <4>1. CASE Known(key, user)
        BY <1>2, <1>5, <3>2, <4>1 DEF Keys
      <4>. QED
        BY <1>3, <2>2, <4>1
    <3>. QED
      BY <1>4, <3>1, <3>2
  <2>3. ASSUME NEW key, NEW user, NEW other, Known(key, user)', Known(key, other)'
        PROVE  user = other
    <3>1. CASE Known(key, user) /\ Known(key, other)
      BY <1>5, <3>1 DEF Keys
    <3>2. CASE key # 0 /\ Numbered(key)
      <4>1. Someone(user)
        BY <1>3, <1>5, <2>3, <3>2 DEF Keys
      <4>2. Someone(other)
        BY <1>3, <1>5, <2>3, <3>2 DEF Keys
      <4>. QED
        BY <4>1, <4>2 DEF Someone
    <3>. QED
      BY <1>3, <2>3, <3>1, <3>2
  <2>. QED
    BY <2>1, <2>2, <2>3 DEF Keys
<1>. QED
  BY <1>1, <1>6 DEF Coherent, GoesOn, SessionFrom

LEMMA Beginning ==
    ASSUME Coherent, Begins
    PROVE  Coherent' /\ (session.user => session'.user \/ SignOut)
<1>1. Formed'
  BY DEF Begins, TabsFrom, PostedFrom, Formed
<1>2. ASSUME NEW id, Numbered(id)' PROVE Numbered(id) \/ id = serial + 1
  BY <1>2 DEF Begins, TabsFrom, PostedFrom, Numbered
<1>3. ASSUME NEW key, NEW user, Known(key, user)' PROVE Known(key, user)
  BY <1>3 DEF Begins, TabsFrom, Known
<1>4. serial' = serial + 1
  BY DEF Begins
<1>5. Keys
  BY DEF Coherent
<1>6. Keys'
  <2>1. serial' \in Nat /\ \A id : Numbered(id)' => id \in 0..serial'
    BY <1>2, <1>4, <1>5 DEF Keys
  <2>2. ASSUME NEW key, NEW user, Known(key, user)'
        PROVE  /\ key \in 0..serial'
               /\ key # 0 /\ Numbered(key)' => Someone(user)
    BY <1>2, <1>3, <1>4, <1>5, <2>2 DEF Keys
  <2>3. ASSUME NEW key, NEW user, NEW other, Known(key, user)', Known(key, other)'
        PROVE  user = other
    BY <1>3, <1>5, <2>3 DEF Keys
  <2>. QED
    BY <2>1, <2>2, <2>3 DEF Keys
<1>. QED
  BY <1>1, <1>6 DEF Coherent, Begins

LEMMA Renewing ==
    ASSUME Coherent, Renews
    PROVE  Coherent' /\ (session.user => session'.user \/ SignOut)
<1>1. Formed'
  BY DEF Renews, TabsFrom, PostedFrom, Formed
<1>2. ASSUME NEW id, Numbered(id)' PROVE Numbered(id)
  BY <1>2 DEF Renews, TabsFrom, PostedFrom, Numbered
<1>3. ASSUME NEW key, NEW user, Known(key, user)'
      PROVE  Known(key, user) \/ (key = serial + 1 /\ user = session'.user)
  BY <1>3 DEF Renews, TabsFrom, Known
<1>4. serial' = serial + 1
  BY DEF Renews
<1>5. Keys
  BY DEF Coherent
<1>6. Keys'
  <2>1. serial' \in Nat /\ \A id : Numbered(id)' => id \in 0..serial'
    BY <1>2, <1>4, <1>5 DEF Keys
  <2>2. ASSUME NEW key, NEW user, Known(key, user)'
        PROVE  /\ key \in 0..serial'
               /\ key # 0 /\ Numbered(key)' => Someone(user)
    BY <1>2, <1>3, <1>4, <1>5, <2>2 DEF Keys
  <2>3. ASSUME NEW key, NEW user, NEW other, Known(key, user)', Known(key, other)'
        PROVE  user = other
    BY <1>3, <1>5, <2>3 DEF Keys
  <2>. QED
    BY <2>1, <2>2, <2>3 DEF Keys
<1>. QED
  BY <1>1, <1>6 DEF Coherent, Renews

LEMMA Marked ==
    ASSUME NEW c, NEW id, NEW what, IsSession(c)
    PROVE  /\ IsSession(Without(c, id)) /\ Without(c, id).key = c.key
                                       /\ Without(c, id).user = c.user
           /\ IsSession(Stashed(c, id, what)) /\ Stashed(c, id, what).key = c.key
                                             /\ Stashed(c, id, what).user = c.user
           /\ IsSession(Aged(c)) /\ Aged(c).key = c.key /\ Aged(c).user = c.user
<1>1. ASSUME NEW states
      PROVE  /\ IsSession([c EXCEPT !.states = states])
             /\ [c EXCEPT !.states = states].key = c.key
             /\ [c EXCEPT !.states = states].user = c.user
  <2>1. [c EXCEPT !.states = states]
          = [key |-> c.key, user |-> c.user, states |-> states, token |-> c.token]
    BY DEF IsSession
  <2>. QED
    BY <2>1 DEF IsSession
<1>. QED
  BY <1>1 DEF Without, Stashed, Aged

LEMMA TokenMarked ==
    ASSUME NEW c, NEW token, IsSession(c)
    PROVE  /\ IsSession([c EXCEPT !.token = token])
           /\ [c EXCEPT !.token = token].key = c.key
           /\ [c EXCEPT !.token = token].user = c.user
<1>1. [c EXCEPT !.token = token]
        = [key |-> c.key, user |-> c.user, states |-> c.states, token |-> token]
  BY DEF IsSession
<1>. QED
  BY <1>1 DEF IsSession

LEMMA NewMarked ==
    /\ IsSession(NewSession)
    /\ NewSession.key = 0 /\ NewSession.user = FALSE
    /\ Known(NewSession.key, NewSession.user)
BY DEF NewSession, IsSession, Known

LEMMA BecomesFrom ==
    ASSUME TabsFormed, NEW t \in Tab, NEW at, NEW id, NEW who, NEW copy, NEW state,
           NEW fresh, Becomes(t, TabOf(at, id, who, copy, state)),
           IsSession(copy), Known(copy.key, copy.user),
           at # "idle" => id # 0, Numbered(id) \/ id = fresh
    PROVE  TabsFrom(fresh)
<1>. DEFINE r == TabOf(at, id, who, copy, state)
<1>1. /\ r = TabOf(r.at, r.id, r.who, r.copy, r.state)
      /\ r.at = at /\ r.id = id /\ r.copy = copy
  BY DEF TabOf
<1>. HIDE DEF r
<1>2. tab' = [s \in Tab |-> IF s = t THEN r ELSE tab[s]]
  BY DEF Becomes, r
<1>3. \A s \in Tab : tab'[s] = IF s = t THEN r ELSE tab[s]
  BY <1>2
<1>4. Tabs'
  <2>1. tab' = [s \in Tab |-> tab'[s]]
    BY <1>2
  <2>2. \A s \in Tab : tab'[s] = TabOf(tab'[s].at, tab'[s].id, tab'[s].who,
                                      tab'[s].copy, tab'[s].state)
    BY <1>1, <1>3 DEF TabsFormed, Tabs
  <2>. QED
    BY <2>1, <2>2 DEF Tabs
<1>5. ASSUME NEW s \in Tab
      PROVE  /\ IsSession(tab'[s].copy)
             /\ tab'[s].at # "idle" => tab'[s].id # 0
             /\ Numbered(tab'[s].id) \/ tab'[s].id = fresh
             /\ Known(tab'[s].copy.key, tab'[s].copy.user)
  <2>1. CASE s = t
    BY <1>1, <1>3, <2>1
  <2>2. CASE s # t
    <3>1. tab'[s] = tab[s]
      BY <1>3, <2>2
    <3>2. Numbered(tab[s].id) /\ Known(tab[s].copy.key, tab[s].copy.user)
      BY DEF Numbered, Known
    <3>. QED
      BY <3>1, <3>2 DEF TabsFormed
  <2>. QED
    BY <2>1, <2>2
<1>. QED
  BY <1>4, <1>5 DEF TabsFrom, TabsFormed, IsSession

LEMMA LeaveFrom ==
    ASSUME TabsFormed, NEW t \in Tab, Leave(t), NEW fresh
    PROVE  TabsFrom(fresh)
<1>1. Becomes(t, TabOf("idle", 0, None, NewSession, None))
  BY Replaced DEF Leave, IdleTab, TabOf, TabsFormed
<1>2. Numbered(0)
  BY DEF Numbered
<1>. QED
  BY <1>1, <1>2, NewMarked, BecomesFrom

LEMMA StaysFrom ==
    ASSUME TabsFormed, UNCHANGED tab, NEW fresh
    PROVE  TabsFrom(fresh)
BY DEF TabsFormed, TabsFrom, Tabs, Numbered, Known

(* A tab that goes on has its own redirect. *)
LEMMA OnFrom ==
    ASSUME TabsFormed, NEW t \in Tab, tab[t].at # "idle",
           NEW at, NEW who, NEW copy, NEW state,
           Becomes(t, TabOf(at, tab[t].id, who, copy, state)),
           IsSession(copy), Known(copy.key, copy.user)
    PROVE  TabsFrom(0)
<1>1. Numbered(tab[t].id) /\ tab[t].id # 0
  BY DEF TabsFormed, Numbered
<1>. QED
  BY <1>1, BecomesFrom

LEMMA GotoFrom ==
    ASSUME TabsFormed, NEW t \in Tab, tab[t].at # "idle", NEW place, Goto(t, place)
    PROVE  TabsFrom(0)
<1>1. Becomes(t, TabOf(place, tab[t].id, tab[t].who, tab[t].copy, tab[t].state))
  BY Moved DEF Goto, TabsFormed
<1>2. IsSession(tab[t].copy) /\ Known(tab[t].copy.key, tab[t].copy.user)
  BY DEF TabsFormed, Known
<1>. QED
  BY <1>1, <1>2, OnFrom

LEMMA PostedStays ==
    ASSUME Formed, UNCHANGED posted \/ posted' = None, NEW fresh
    PROVE  PostedFrom(fresh)
BY DEF Formed, PostedFrom, Numbered

LEMMA Saved ==
    ASSUME Coherent, NEW c, IsSession(c), Known(c.key, c.user), Save(c)
    PROVE  SessionFrom
<1>1. Known(session.key, session.user)
  BY DEF Known
<1>2. CASE c.key = session.key
  <2>1. c.user = session.user
    BY <1>1, <1>2 DEF Coherent, Keys
  <2>. QED
    BY <1>2, <2>1 DEF Save, SessionFrom, IsSession
<1>3. CASE c.key # session.key
  BY <1>1, <1>3 DEF Save, SessionFrom, Coherent, Formed, IsSession
<1>. QED
  BY <1>2, <1>3

LEMMA NotSaved ==
    ASSUME Coherent, UNCHANGED session
    PROVE  SessionFrom
BY DEF SessionFrom, Coherent, Formed, IsSession, Known

LEMMA OfSession ==
    ASSUME Coherent
    PROVE  IsSession(session) /\ Known(session.key, session.user)
BY DEF Coherent, Formed, Known

LEMMA OfTab ==
    ASSUME Coherent, NEW t \in Tab
    PROVE  IsSession(tab[t].copy) /\ Known(tab[t].copy.key, tab[t].copy.user)
BY DEF Coherent, Formed, TabsFormed, Known

LEMMA CrashGoesOn ==
    ASSUME Coherent, NEW t \in Tab, Crash(t), UNCHANGED serial,
           UNCHANGED posted \/ posted' = None
    PROVE  GoesOn
BY LeaveFrom, PostedStays, NotSaved DEF Crash, GoesOn, Coherent, Formed

LEMMA ErrorGoesOn ==
    ASSUME Coherent, NEW t \in Tab, NEW c, ErrorPage(t, c), IsSession(c),
           Known(c.key, c.user), UNCHANGED serial, UNCHANGED posted \/ posted' = None
    PROVE  GoesOn
BY LeaveFrom, PostedStays, Saved DEF ErrorPage, GoesOn, Coherent, Formed

LEMMA RedirectBegins ==
    ASSUME Coherent, NEW t \in Tab, NEW process,
           Redirect(t, process) \/ RedirectForToken(t, process)
    PROVE  Begins
<1>. DEFINE id == serial + 1
            c == Stashed(session, id, process)
<1>1. IsSession(c) /\ c.key = session.key /\ c.user = session.user
  BY OfSession, Marked
<1>2. id # 0 /\ serial' = id
  BY DEF Coherent, Keys, Redirect, RedirectForToken
<1>3. PostedFrom(id)
  BY PostedStays DEF Redirect, RedirectForToken, Coherent
<1>4. TabsFormed
  BY DEF Coherent, Formed
<1>5. CASE Redirect(t, process)
  <2>1. /\ tab' = [tab EXCEPT ![t] = [IdleTab EXCEPT !.at = "away", !.id = id]]
        /\ session' = c
    BY <1>5 DEF Redirect
  <2>. HIDE DEF c, id
  <2>2. Becomes(t, TabOf("away", id, None, NewSession, None))
    <3>1. tab' = [tab EXCEPT ![t] = TabOf("away", id, None, NewSession, None)]
      BY <2>1, Started
    <3>. QED
      BY <1>4, <3>1, Replaced DEF TabsFormed
  <2>3. TabsFrom(id)
    BY <1>2, <1>4, <2>2, NewMarked, BecomesFrom
  <2>4. IsSession(session') /\ session'.key = session.key /\ session'.user = session.user
    BY <1>1, <2>1 DEF IsSession
  <2>. QED
    BY <1>2, <1>3, <2>3, <2>4 DEF Begins, id
<1>6. CASE RedirectForToken(t, process)
  <2>1. /\ tab' = [tab EXCEPT ![t] =
                       [IdleTab EXCEPT !.at = "asking", !.id = id, !.copy = c]]
        /\ session' = session
    BY <1>6 DEF RedirectForToken
  <2>2. Known(c.key, c.user)
    BY <1>1 DEF Known
  <2>. HIDE DEF c, id
  <2>3. Becomes(t, TabOf("asking", id, None, c, None))
    <3>1. tab' = [tab EXCEPT ![t] = TabOf("asking", id, None, c, None)]
      BY <2>1, Started
    <3>. QED
      BY <1>4, <3>1, Replaced DEF TabsFormed
  <2>4. TabsFrom(id)
    BY <1>1, <1>2, <1>4, <2>2, <2>3, BecomesFrom
  <2>5. IsSession(session')
    BY <2>1, OfSession DEF IsSession
  <2>. QED
    BY <1>2, <1>3, <2>1, <2>4, <2>5 DEF Begins, id
<1>. QED
  BY <1>5, <1>6

LEMMA UnsolicitedBegins ==
    ASSUME Coherent, NEW t \in Tab, NEW who, Unsolicited(t, who)
    PROVE  Begins
<1>. DEFINE id == serial + 1
<1>1. /\ id # 0 /\ serial' = id /\ session' = session /\ posted'.id = id
      /\ tab' = [tab EXCEPT ![t] = [IdleTab EXCEPT !.at = "posted", !.id = id]]
  BY DEF Coherent, Keys, Unsolicited
<1>. HIDE DEF id
<1>2. Becomes(t, TabOf("posted", id, None, NewSession, None))
  <2>1. tab' = [tab EXCEPT ![t] = TabOf("posted", id, None, NewSession, None)]
    BY <1>1, Started
  <2>. QED
    BY <2>1, Replaced DEF Coherent, Formed, TabsFormed
<1>3. TabsFrom(id) /\ PostedFrom(id)
  BY <1>1, <1>2, NewMarked, BecomesFrom DEF Coherent, Formed, PostedFrom
<1>4. IsSession(session')
  BY <1>1, OfSession DEF IsSession
<1>. QED
  BY <1>1, <1>3, <1>4 DEF Begins, id

LEMMA RequestTokenGoesOn ==
    ASSUME Coherent, NEW t \in Tab, RequestToken(t)
    PROVE  GoesOn
<1>. DEFINE c == [tab[t].copy EXCEPT !.token = tab[t].id]
<1>1. IsSession(c) /\ Known(c.key, c.user)
  BY OfTab, TokenMarked
<1>. HIDE DEF c
<1>2. CASE Save(c) /\ tab' = [tab EXCEPT ![t].at = "away", ![t].copy = NewSession]
  <2>1. Becomes(t, TabOf("away", tab[t].id, tab[t].who, NewSession, tab[t].state))
    BY <1>2, MovedWithCopy DEF Coherent, Formed, TabsFormed
  <2>2. TabsFrom(0)
    BY <2>1, OnFrom, NewMarked DEF RequestToken, Coherent, Formed
  <2>. QED
    BY <1>1, <1>2, <2>2, Saved, PostedStays DEF RequestToken, GoesOn, Coherent
<1>3. CASE ErrorPage(t, tab[t].copy) \/ Crash(t)
  BY <1>3, OfTab, ErrorGoesOn, CrashGoesOn DEF RequestToken
<1>. QED
  BY <1>2, <1>3 DEF RequestToken, c

LEMMA DecideGoesOn ==
    ASSUME Coherent, NEW t \in Tab, Decide(t)
    PROVE  GoesOn
<1>1. ASSUME NEW who, tab' = [tab EXCEPT ![t].at = "back", ![t].who = who]
      PROVE  TabsFrom(0)
  <2>1. Becomes(t, TabOf("back", tab[t].id, who, tab[t].copy, tab[t].state))
    BY <1>1, MovedWithWho DEF Coherent, Formed, TabsFormed
  <2>. QED
    BY <2>1, OnFrom, OfTab DEF Decide, Coherent, Formed
<1>2. TabsFrom(0)
  BY <1>1, LeaveFrom DEF Decide, Coherent, Formed
<1>. QED
  BY <1>2, NotSaved, PostedStays DEF Decide, GoesOn, Coherent

LEMMA KeepGoesOn ==
    ASSUME Coherent, NEW t \in Tab, Keep(t)
    PROVE  GoesOn
<1>1. tab[t].id # 0 /\ Numbered(tab[t].id)
  BY DEF Keep, Coherent, Formed, TabsFormed, Numbered
<1>2. PostedFrom(0)
  BY <1>1 DEF Keep, PostedFrom
<1>. QED
  BY <1>2, GotoFrom, NotSaved DEF Keep, GoesOn, Coherent, Formed

LEMMA CallbackGoesOn ==
    ASSUME Coherent, NEW t \in Tab,
           CallbackWithCode(t) \/ CallbackWithToken(t) \/ CallbackSigned(t)
    PROVE  GoesOn
<1>1. tab[t].at # "idle"
  BY DEF CallbackWithCode, CallbackWithToken, CallbackSigned, Arrived
<1>2. UNCHANGED <<serial, posted>>
  BY DEF CallbackWithCode, CallbackWithToken, CallbackSigned
<1>3. ASSUME NEW place, NEW c, NEW state, Waits(t, place, c, state),
             IsSession(c), Known(c.key, c.user)
      PROVE  TabsFrom(0)
  <2>1. Becomes(t, TabOf(place, tab[t].id, tab[t].who, c, state))
    BY <1>3, MovedWithState DEF Waits, Coherent, Formed, TabsFormed
  <2>. QED
    BY <1>1, <1>3, <2>1, OnFrom DEF Coherent, Formed
<1>4. CASE UNCHANGED session /\ TabsFrom(0)
  BY <1>2, <1>4, NotSaved, PostedStays DEF GoesOn, Coherent
<1>5. CASE CallbackWithCode(t)
  <2>. DEFINE c == Without(session, tab[t].id)
  <2>1. IsSession(c) /\ Known(c.key, c.user)
    BY OfSession, Marked
  <2>. HIDE DEF c
  <2>2. CASE ErrorPage(t, c)
    BY <1>2, <2>1, <2>2, ErrorGoesOn
  <2>3. CASE Waits(t, "exchange", c, Unstashed(session, tab[t].id)) /\ UNCHANGED session
    BY <1>3, <1>4, <2>1, <2>3
  <2>. QED
    BY <1>5, <2>2, <2>3 DEF CallbackWithCode, c
<1>6. CASE CallbackWithToken(t) \/ CallbackSigned(t)
  <2>1. UNCHANGED session
    BY <1>6 DEF CallbackWithToken, CallbackSigned
  <2>2. TabsFrom(0)
    BY <1>3, <1>6, LeaveFrom, OfSession
    DEF CallbackWithToken, CallbackSigned, Coherent, Formed
  <2>. QED
    BY <1>4, <2>1, <2>2
<1>. QED
  BY <1>5, <1>6

LEMMA CallbackPostedGoesOn ==
    ASSUME Coherent, NEW t \in Tab, CallbackPosted(t)
    PROVE  GoesOn
<1>1. PostedFrom(0) /\ SessionFrom /\ UNCHANGED serial
  BY PostedStays, NotSaved DEF CallbackPosted, Coherent
<1>2. ASSUME posted # None,
             tab' = [tab EXCEPT ![t] = TabOf("profile", posted.id, posted.who,
                                             session, posted.state)]
      PROVE  TabsFrom(0)
  <2>1. Becomes(t, TabOf("profile", posted.id, posted.who, session, posted.state))
    BY <1>2, Replaced DEF Coherent, Formed, TabsFormed
  <2>2. Numbered(posted.id) /\ posted.id # 0
    BY <1>2 DEF Coherent, Formed, Numbered
  <2>. QED
    BY <2>1, <2>2, OfSession, BecomesFrom DEF Coherent, Formed
<1>3. TabsFrom(0)
  BY <1>2, LeaveFrom DEF CallbackPosted, TabOf, Coherent, Formed
<1>. QED
  BY <1>1, <1>3 DEF GoesOn

LEMMA ExchangeGoesOn ==
    ASSUME Coherent, NEW t \in Tab, ExchangeCode(t) \/ ExchangeToken(t)
    PROVE  GoesOn
<1>1. tab[t].at # "idle" /\ UNCHANGED <<serial, posted>>
  BY DEF ExchangeCode, ExchangeToken
<1>2. CASE UNCHANGED session /\ TabsFrom(0)
  BY <1>1, <1>2, NotSaved, PostedStays DEF GoesOn, Coherent
<1>3. CASE Leave(t) /\ UNCHANGED session
  BY <1>2, <1>3, LeaveFrom DEF Coherent, Formed
<1>4. CASE ErrorPage(t, tab[t].copy)
  BY <1>1, <1>4, OfTab, ErrorGoesOn
<1>5. CASE Goto(t, "profile") /\ UNCHANGED session
  BY <1>1, <1>2, <1>5, GotoFrom DEF Coherent, Formed
<1>6. CASE /\ posted # None
           /\ tab' = [tab EXCEPT ![t].at = "profile", ![t].id = posted.id,
                                 ![t].who = posted.who]
           /\ UNCHANGED session
  <2>. DEFINE id == posted.id
              who == posted.who
  <2>1. Numbered(id) /\ id # 0
    BY <1>6 DEF Coherent, Formed, Numbered
  <2>2. tab' = [tab EXCEPT ![t].at = "profile", ![t].id = id, ![t].who = who]
    BY <1>6
  <2>. HIDE DEF id, who
  <2>3. Becomes(t, TabOf("profile", id, who, tab[t].copy, tab[t].state))
    BY <2>2, MovedWithId DEF Coherent, Formed, TabsFormed
  <2>4. TabsFrom(0)
    BY <2>1, <2>3, OfTab, BecomesFrom DEF Coherent, Formed
  <2>. QED
    BY <1>2, <1>6, <2>4
<1>7. CASE ExchangeCode(t)
  BY <1>3, <1>4, <1>5, <1>6, <1>7 DEF ExchangeCode, Crash
<1>8. CASE ExchangeToken(t)
  BY <1>3, <1>5, <1>8 DEF ExchangeToken
<1>. QED
  BY <1>7, <1>8

LEMMA LoggedInMarked ==
    ASSUME NEW c, NEW key
    PROVE  /\ IsSession(LoggedIn(c, key))
           /\ LoggedIn(c, key).key = key /\ LoggedIn(c, key).user = TRUE
BY DEF LoggedIn, IsSession

(* A completed login, or a connection *)
LEMMA CompleteGoesOn ==
    ASSUME Coherent, NEW t \in Tab, NEW who, NEW login, NEW state, NEW c, NEW claim,
           Complete(t, tab[t].id, who, login, state, c, claim),
           tab[t].at # "idle", IsSession(c), Known(c.key, c.user),
           UNCHANGED serial, UNCHANGED posted \/ posted' = None
    PROVE  GoesOn
<1>1. TabsFrom(0) /\ PostedFrom(0)
  BY LeaveFrom, PostedStays DEF Complete, Coherent, Formed
<1>2. CASE Save(c)
  BY <1>1, <1>2, Saved DEF GoesOn
<1>3. CASE session' = LoggedIn(c, tab[t].id)
  <2>1. Numbered(tab[t].id) /\ tab[t].id # 0
    BY DEF Coherent, Formed, TabsFormed, Numbered
  <2>2. /\ IsSession(session)'
        /\ session'.key = tab[t].id /\ session'.user = TRUE
    BY <1>3, LoggedInMarked DEF IsSession
  <2>3. SessionFrom
    BY <2>1, <2>2 DEF SessionFrom, Someone
  <2>. QED
    BY <1>1, <2>3 DEF GoesOn
<1>. QED
  BY <1>2, <1>3 DEF Complete

LEMMA AnswerGoesOn ==
    ASSUME Coherent, NEW t \in Tab, NEW answer, Answer(t, answer)
    PROVE  GoesOn
<1>1. /\ tab[t].at # "idle" /\ UNCHANGED serial
      /\ UNCHANGED posted \/ posted' = None
  BY DEF Answer
<1>2. ASSUME NEW id
      PROVE  /\ IsSession(Without(tab[t].copy, id))
             /\ Known(Without(tab[t].copy, id).key, Without(tab[t].copy, id).user)
  BY OfTab, Marked
<1>3. CASE Crash(t)
  BY <1>1, <1>3, CrashGoesOn
<1>4. CASE ErrorPage(t, tab[t].copy)
  BY <1>1, <1>4, OfTab, ErrorGoesOn
<1>5. ASSUME NEW id, ErrorPage(t, Without(tab[t].copy, id)) PROVE GoesOn
  BY <1>1, <1>2, <1>5, ErrorGoesOn
<1>6. ASSUME NEW id, NEW login, NEW state, NEW claim,
             Complete(t, tab[t].id, tab[t].who, login, state,
                      Without(tab[t].copy, id), claim)
      PROVE  GoesOn
  BY <1>1, <1>2, <1>6, CompleteGoesOn
<1>. QED
  BY <1>3, <1>4, <1>5, <1>6 DEF Answer

LEMMA TokenLoginRenews ==
    ASSUME Coherent, NEW t \in Tab, NEW who, NEW answer, TokenLogin(t, who, answer)
    PROVE  Renews
<1>1. /\ serial' = serial + 1 /\ UNCHANGED posted /\ Leave(t)
      /\ session' = LoggedIn(session, serial + 1)
  BY DEF TokenLogin, Complete
<1>2. IsSession(session)' /\ session'.key = serial + 1 /\ session'.user = TRUE
  BY <1>1, LoggedInMarked DEF IsSession
<1>3. TabsFrom(0) /\ PostedFrom(0)
  BY <1>1, LeaveFrom, PostedStays DEF Coherent, Formed
<1>. QED
  BY <1>1, <1>2, <1>3 DEF Renews, IsSession

LEMMA SignOutRenews ==
    ASSUME Coherent, SignOut
    PROVE  Renews
<1>1. session' = [key |-> serial + 1, user |-> FALSE, states |-> <<>>, token |-> 0]
  BY DEF SignOut, NewSession
<1>2. TabsFrom(0) /\ PostedFrom(0)
  BY StaysFrom, PostedStays DEF SignOut, Coherent, Formed
<1>. QED
  BY <1>1, <1>2 DEF SignOut, Renews, IsSession

LEMMA TimePassesGoesOn ==
    ASSUME Coherent, TimePasses
    PROVE  GoesOn
<1>1. session' = Aged(session) /\ UNCHANGED <<serial, posted>>
  BY DEF TimePasses
<1>2. SessionFrom
  <2>1. IsSession(session)' /\ session'.key = session.key /\ session'.user = session.user
    BY <1>1, OfSession, Marked DEF IsSession
  <2>. QED
    BY <2>1 DEF SessionFrom, Known, IsSession
<1>. DEFINE Older(r) == [r EXCEPT !.copy = Aged(@)]
<1>3. ASSUME NEW s \in Tab
      PROVE  Older(tab[s]) = TabOf(tab[s].at, tab[s].id, tab[s].who,
                                   Aged(tab[s].copy), tab[s].state)
  BY DEF Coherent, Formed, TabsFormed, Tabs, TabOf
<1>4. tab' = [s \in Tab |-> TabOf(tab[s].at, tab[s].id, tab[s].who,
                                  Aged(tab[s].copy), tab[s].state)]
  BY <1>3 DEF TimePasses
<1>5. ASSUME NEW s \in Tab
      PROVE  /\ tab'[s].at = tab[s].at /\ tab'[s].id = tab[s].id
             /\ tab'[s].copy = Aged(tab[s].copy)
  BY <1>4 DEF TabOf
<1>6. Tabs'
  BY <1>4 DEF Tabs, TabOf
<1>7. ASSUME NEW s \in Tab
      PROVE  /\ IsSession(tab'[s].copy)
             /\ Known(tab'[s].copy.key, tab'[s].copy.user)
             /\ Numbered(tab'[s].id)
             /\ tab'[s].at # "idle" => tab'[s].id # 0
  BY <1>5, OfTab, Marked DEF Numbered, Coherent, Formed, TabsFormed
<1>8. TabsFrom(0)
  BY <1>6, <1>7 DEF TabsFrom, TabsFormed, IsSession
<1>. QED
  BY <1>1, <1>2, <1>8, PostedStays DEF GoesOn, Coherent

LEMMA RestartGoesOn ==
    ASSUME Coherent, Restart
    PROVE  GoesOn
<1>1. /\ tab' = [s \in Tab |-> tab'[s]]
      /\ \A s \in Tab : tab'[s] = IdleTab \/ tab'[s] = tab[s]
  BY DEF Restart
<1>2. /\ IdleTab = TabOf(IdleTab.at, IdleTab.id, IdleTab.who, IdleTab.copy,
                         IdleTab.state)
      /\ IdleTab.at = "idle" /\ IdleTab.id = 0 /\ IdleTab.copy = NewSession
  BY DEF IdleTab, TabOf
<1>3. ASSUME NEW s \in Tab
      PROVE  /\ IsSession(tab'[s].copy)
             /\ Known(tab'[s].copy.key, tab'[s].copy.user)
             /\ Numbered(tab'[s].id)
             /\ tab'[s].at # "idle" => tab'[s].id # 0
  <2>1. CASE tab'[s] = IdleTab
    BY <1>2, <2>1, NewMarked DEF Numbered
  <2>2. CASE tab'[s] = tab[s]
    BY <2>2, OfTab DEF Numbered, Coherent, Formed, TabsFormed
  <2>. QED
    BY <1>1, <2>1, <2>2
<1>4. Tabs'
  BY <1>1, <1>2 DEF Tabs, Coherent, Formed, TabsFormed
<1>5. TabsFrom(0)
  BY <1>3, <1>4 DEF TabsFrom, TabsFormed, IsSession
<1>. QED
  BY <1>5, PostedStays, NotSaved DEF Restart, GoesOn, Coherent

LEMMA CoherentStep ==
    ASSUME Coherent, [Next]_vars
    PROVE  Coherent' /\ (session.user => session'.user \/ SignOut)
<1>1. CASE Rename \/ UNCHANGED vars
  BY <1>1, StaysFrom, PostedStays, NotSaved, GoingOn
  DEF Rename, vars, GoesOn, Coherent, Formed
<1>2. CASE SignOut
  BY <1>2, SignOutRenews, Renewing
<1>3. CASE TimePasses \/ Restart
  BY <1>3, TimePassesGoesOn, RestartGoesOn, GoingOn
<1>4. ASSUME NEW t \in Tab, NEW what,
             Redirect(t, what) \/ RedirectForToken(t, what) \/ Unsolicited(t, what)
      PROVE  Coherent' /\ (session.user => session'.user \/ SignOut)
  BY <1>4, RedirectBegins, UnsolicitedBegins, Beginning
<1>5. ASSUME NEW t \in Tab, NEW who, NEW answer, TokenLogin(t, who, answer)
      PROVE  Coherent' /\ (session.user => session'.user \/ SignOut)
  BY <1>5, TokenLoginRenews, Renewing
<1>6. ASSUME NEW t \in Tab, NEW answer,
             \/ RequestToken(t) \/ Decide(t) \/ PostAnswer(t) \/ PostToken(t)
             \/ CallbackWithCode(t) \/ CallbackWithToken(t) \/ CallbackSigned(t)
             \/ CallbackPosted(t) \/ ExchangeCode(t) \/ ExchangeToken(t)
             \/ Answer(t, answer)
      PROVE  GoesOn
  BY <1>6, RequestTokenGoesOn, DecideGoesOn, KeepGoesOn, CallbackGoesOn,
     CallbackPostedGoesOn, ExchangeGoesOn, AnswerGoesOn DEF PostAnswer, PostToken
<1>. QED
  BY <1>1, <1>2, <1>3, <1>4, <1>5, <1>6, GoingOn DEF Next

(* With any number of tabs, whatever they began before it: who has logged  *)
(* in stays so.                                                            *)
THEOREM LoginStaysHolds == Spec => LoginStays
<1>1. Init => Coherent
  <2>. SUFFICES ASSUME Init PROVE Coherent
    OBVIOUS
  <2>1. /\ tab = [t \in Tab |-> IdleTab]
        /\ IdleTab = TabOf("idle", 0, None, NewSession, None)
    BY DEF Init, IdleTab, TabOf
  <2>2. \A t \in Tab : /\ tab[t].at = "idle" /\ tab[t].id = 0
                       /\ tab[t].copy = NewSession
    BY <2>1 DEF TabOf
  <2>3. Formed
    BY <2>1, <2>2, NewMarked DEF Init, Formed, TabsFormed, Tabs, TabOf
  <2>4. ASSUME NEW id, Numbered(id) PROVE id = 0
    BY <2>2, <2>4 DEF Init, Numbered
  <2>5. ASSUME NEW key, NEW user, Known(key, user)
        PROVE  key = 0 /\ user = NewSession.user
    BY <2>2, <2>5, NewMarked DEF Init, Known
  <2>6. Keys
    BY <2>4, <2>5 DEF Init, Keys
  <2>. QED
    BY <2>3, <2>6 DEF Coherent
<1>2. Coherent /\ [Next]_vars => Coherent' /\ [session.user => session'.user \/ SignOut]_vars
  BY CoherentStep
<1>. QED
  BY <1>1, <1>2, PTL DEF Spec, LoginStays
=============================================================================
