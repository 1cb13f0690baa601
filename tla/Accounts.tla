------------------------------- MODULE Accounts -------------------------------
(* Sign-in with Google or GitHub: the state cookie of internal/api/oauth.go,   *)
(* the two callbacks of internal/api/handlers_auth.go and the upsert of        *)
(* internal/store/users.go, with the browsers and the providers around them.   *)
(* A sign-in is named by its random state, and a user by the e-mail address    *)
(* that keys the row.                                                          *)
EXTENDS Naturals, FiniteSets

CONSTANTS
  Browsers,    \* cookie jars
  GoogleIds,   \* Google accounts ("sub")
  GitHubIds,   \* GitHub accounts (numeric id)
  Emails,      \* e-mail addresses, compared as the database does
  Profiles,    \* what a provider may say of an account (see ProfileRange)
  Workers,     \* callbacks the server handles at once
  MaxSignIns,  \* bound: sign-ins begun
  MaxChanges,  \* bound: profile changes at the providers
  MaxFaults,   \* bound: failed calls, lost answers, crashes
  None         \* no value

Identities == GoogleIds \cup GitHubIds
SignIns == 1 .. MaxSignIns

\* email: what the provider's user endpoint shows (it proves the address);
\* primary, verified: the primary entry of GitHub's /user/emails.
ProfileRange ==
  [email : Emails \cup {None}, primary : Emails \cup {None}, verified : BOOLEAN]

ASSUME AccountsAssumption ==
  /\ MaxSignIns \in Nat /\ MaxChanges \in Nat /\ MaxFaults \in Nat
  /\ GoogleIds \cap GitHubIds = {}
  /\ None \notin Browsers \cup Identities \cup Emails \cup SignIns
  /\ Profiles \subseteq ProfileRange

VARIABLES
  cookie,     \* [Browsers -> SignIns \cup {None}]: mflint_oauth_state
  begun,      \* sign-ins begun so far
  owner,      \* [SignIns -> Browsers \cup {None}]: the browser that began it
  consent,    \* [SignIns -> Identities \cup {None}]: who consented; its code is out
  exchanged,  \* sign-ins whose code the provider has redeemed
  profile,    \* [Identities -> Profiles]: what the providers say now
  calls,      \* [Workers -> Call]: the callbacks in flight
  users,      \* [Emails -> SUBSET Identities]: the provider ids of the row; {} is no row
  sessions,   \* session tokens that reached a browser
  proved,     \* history: <<identity, address>> the provider has vouched for
  over,       \* history: <<browser, sign-in>>: its cookie expired or its callback was opened there
  changes, faults

vars == <<cookie, begun, owner, consent, exchanged, profile, calls, users, sessions,
          proved, over, changes, faults>>

providerVars == <<begun, owner, consent, profile, proved, changes>>

Steps == {"idle", "exchange", "user", "emails", "upsert", "respond"}

\* browser, state, who: whose callback it is, for which sign-in, and the identity
\* its code stands for (None: the consent was refused); email, user: the locals.
Call == [pc : Steps, browser : Browsers \cup {None}, state : SignIns \cup {None},
         who : Identities \cup {None}, email : Emails \cup {None},
         user : Emails \cup {None}]

Idle == [pc |-> "idle", browser |-> None, state |-> None, who |-> None,
         email |-> None, user |-> None]

\* A token holds its user; the rest is where it came from.
Session == [browser : Browsers, state : SignIns, who : Identities, user : Emails]

\* The addresses a profile proves to be its account's.
Vouches(p) ==
  ({p.email} \cup (IF p.verified THEN {p.primary} ELSE {})) \ {None}

\* The column of users that holds an identity: google_id or github_id.
SameColumn(i, j) == (i \in GoogleIds) <=> (j \in GoogleIds)

\* A provider gives a proven address to one account at a time.
Exclusive(pr) ==
  \A i, j \in Identities :
    (i # j /\ SameColumn(i, j)) => Vouches(pr[i]) \cap Vouches(pr[j]) = {}

Init ==
  /\ cookie = [b \in Browsers |-> None]
  /\ begun = 0
  /\ owner = [s \in SignIns |-> None]
  /\ consent = [s \in SignIns |-> None]
  /\ exchanged = {}
  /\ profile \in [Identities -> Profiles]
  /\ Exclusive(profile)
  /\ calls = [w \in Workers |-> Idle]
  /\ users = [e \in Emails |-> {}]
  /\ sessions = {}
  /\ proved = {x \in Identities \X Emails : x[2] \in Vouches(profile[x[1]])}
  /\ over = {}
  /\ changes = 0 /\ faults = 0

-------------------------------------------------------------------------------
(* Browsers and providers *)

\* A bug: SetCookie after Redirect, when the headers are already written.
BeginWithoutCookie(b) ==
  /\ begun < MaxSignIns
  /\ begun' = begun + 1
  /\ owner' = [owner EXCEPT ![begun + 1] = b]
  /\ UNCHANGED <<cookie, consent, exchanged, profile, calls, users, sessions, proved,
                 over, changes, faults>>

\* /v1/auth/google/login or /v1/auth/github/login: a fresh state goes into the
\* browser's one cookie and to the provider.
Begin(b) ==
  /\ begun < MaxSignIns
  /\ begun' = begun + 1
  /\ owner' = [owner EXCEPT ![begun + 1] = b]
  /\ cookie' = [cookie EXCEPT ![b] = begun + 1]
  /\ UNCHANGED <<consent, exchanged, profile, calls, users, sessions, proved, over,
                 changes, faults>>

\* MaxAge: 600.
CookieExpires(b) ==
  /\ cookie[b] # None
  /\ cookie' = [cookie EXCEPT ![b] = None]
  /\ over' = over \cup {<<b, cookie[b]>>}
  /\ UNCHANGED <<begun, owner, consent, exchanged, profile, calls, users, sessions,
                 proved, changes, faults>>

\* External: identity i consents; the provider redirects to the callback with a code.
Consent(s, i) ==
  /\ owner[s] # None /\ consent[s] = None
  /\ consent' = [consent EXCEPT ![s] = i]
  /\ UNCHANGED <<cookie, begun, owner, exchanged, profile, calls, users, sessions,
                 proved, over, changes, faults>>

\* External: an account changes its address, hides it, or verifies it.
ChangeProfile(i, p) ==
  /\ changes < MaxChanges
  /\ profile' = [profile EXCEPT ![i] = p]
  /\ Exclusive(profile')
  /\ proved' = proved \cup ({i} \X Vouches(p))
  /\ changes' = changes + 1
  /\ UNCHANGED <<cookie, begun, owner, consent, exchanged, calls, users, sessions,
                 over, faults>>

-------------------------------------------------------------------------------
(* The callback handlers, one action per call *)

Goto(w, pc, email, user) ==
  calls' = [calls EXCEPT ![w] =
    [pc |-> pc, browser |-> calls[w].browser, state |-> calls[w].state,
     who |-> calls[w].who, email |-> email, user |-> user]]

Refuse(w) == Goto(w, "respond", None, None)

Fault == faults < MaxFaults /\ faults' = faults + 1

\* A bug: a cookie is required, but not compared.
CheckStatePresent(b, s) == cookie[b] # None

\* checkOAuthState: the ?state= of the URL against the cookie the browser sent.
\* Its answer clears the cookie (Respond).
CheckState(b, s) == cookie[b] = s

\* Browser b opens the callback URL of sign-in s: its own, or a link copied from
\* another browser, once or again, with the code or with a refusal.
Callback(w, b, s, who) ==
  /\ calls[w].pc = "idle"
  /\ owner[s] # None
  /\ who \in {consent[s], None}
  /\ calls' = [calls EXCEPT ![w] =
       [pc |-> IF CheckState(b, s) THEN "exchange" ELSE "respond",
        browser |-> b, state |-> s, who |-> who, email |-> None, user |-> None]]
  /\ over' = over \cup {<<b, s>>}
  /\ UNCHANGED <<cookie, exchanged, users, sessions, faults, providerVars>>

\* The provider redeems a code once. A failed call may have redeemed it.
Exchange(w) ==
  /\ calls[w].pc = "exchange"
  /\ \/ /\ calls[w].who # None /\ calls[w].state \notin exchanged
        /\ exchanged' = exchanged \cup {calls[w].state}
        /\ Goto(w, "user", None, None)
        /\ UNCHANGED faults
     \/ /\ calls[w].who = None \/ calls[w].state \in exchanged
        /\ Refuse(w)
        /\ UNCHANGED <<exchanged, faults>>
     \/ /\ calls[w].who # None /\ Fault
        /\ exchanged' \in {exchanged, exchanged \cup {calls[w].state}}
        /\ Refuse(w)
  /\ UNCHANGED <<cookie, users, sessions, over, providerVars>>

\* Google's userinfo or GitHub's /user. Without an address Google's callback
\* fails and GitHub's asks for the list of addresses.
GetUser(w) ==
  /\ calls[w].pc = "user"
  /\ LET i == calls[w].who
         email == profile[i].email
     IN \/ /\ email # None
           /\ Goto(w, "upsert", email, None)
           /\ UNCHANGED faults
        \/ /\ email = None
           /\ IF i \in GitHubIds THEN Goto(w, "emails", None, None) ELSE Refuse(w)
           /\ UNCHANGED faults
        \/ Fault /\ Refuse(w)
  /\ UNCHANGED <<cookie, exchanged, users, sessions, over, providerVars>>

\* A bug: the primary address is taken, verified or not.
GetEmailsUnverified(w) ==
  /\ calls[w].pc = "emails"
  /\ LET p == profile[calls[w].who]
     IN \/ /\ p.primary # None
           /\ Goto(w, "upsert", p.primary, None)
           /\ UNCHANGED faults
        \/ /\ p.primary = None
           /\ Refuse(w)
           /\ UNCHANGED faults
        \/ Fault /\ Refuse(w)
  /\ UNCHANGED <<cookie, exchanged, users, sessions, over, providerVars>>

\* GitHub's /user/emails: the primary address, if verified.
GetEmails(w) ==
  /\ calls[w].pc = "emails"
  /\ LET p == profile[calls[w].who]
     IN \/ /\ p.primary # None /\ p.verified
           /\ Goto(w, "upsert", p.primary, None)
           /\ UNCHANGED faults
        \/ /\ p.primary = None \/ ~p.verified
           /\ Refuse(w)
           /\ UNCHANGED faults
        \/ Fault /\ Refuse(w)
  /\ UNCHANGED <<cookie, exchanged, users, sessions, over, providerVars>>

\* A bug: a column without its UNIQUE constraint.
NoConflict(e, i) == FALSE

\* UNIQUE on google_id and github_id: i is on the row of another address.
Conflict(e, i) == \E f \in Emails \ {e} : i \in users[f]

\* INSERT ... ON CONFLICT (email) DO UPDATE SET <column>: the id replaces the one
\* the row had in its column.
Link(e, i) ==
  users' = [users EXCEPT ![e] = {j \in users[e] : ~SameColumn(i, j)} \cup {i}]

\* upsertOAuthUser. A failed call may have committed.
Upsert(w) ==
  /\ calls[w].pc = "upsert"
  /\ LET e == calls[w].email
         i == calls[w].who
     IN \/ /\ ~Conflict(e, i)
           /\ Link(e, i)
           /\ Goto(w, "respond", e, e)
           /\ UNCHANGED faults
        \/ /\ Conflict(e, i)
           /\ Refuse(w)
           /\ UNCHANGED <<users, faults>>
        \/ /\ Fault
           /\ UNCHANGED users \/ (~Conflict(e, i) /\ Link(e, i))
           /\ Refuse(w)
  /\ UNCHANGED <<cookie, exchanged, sessions, over, providerVars>>

\* A bug: the early return after a failed upsert is missing.
IssuedIgnoringErrors(c) ==
  {[browser |-> c.browser, state |-> c.state, who |-> c.who, user |-> c.user]}

\* finishOAuthLogin, unless an earlier call failed.
Issued(c) ==
  IF c.user = None THEN {}
  ELSE {[browser |-> c.browser, state |-> c.state, who |-> c.who, user |-> c.user]}

\* The answer: it clears the browser's cookie, whichever sign-in that is by now,
\* and carries a session token if the sign-in succeeded.
Respond(w) ==
  /\ calls[w].pc = "respond"
  /\ \/ /\ cookie' = [cookie EXCEPT ![calls[w].browser] = None]
        /\ sessions' = sessions \cup Issued(calls[w])
        /\ UNCHANGED faults
     \/ Fault /\ UNCHANGED <<cookie, sessions>>
  /\ calls' = [calls EXCEPT ![w] = Idle]
  /\ UNCHANGED <<exchanged, users, over, providerVars>>

\* The server dies and is started again.
Crash ==
  /\ \E w \in Workers : calls[w].pc # "idle"
  /\ Fault
  /\ calls' = [w \in Workers |-> Idle]
  /\ UNCHANGED <<cookie, exchanged, users, sessions, over, providerVars>>

Next ==
  \/ \E b \in Browsers : Begin(b) \/ CookieExpires(b)
  \/ \E s \in SignIns, i \in Identities : Consent(s, i)
  \/ \E i \in Identities, p \in Profiles : ChangeProfile(i, p)
  \/ \E w \in Workers, b \in Browsers, s \in SignIns, who \in Identities \cup {None} :
       Callback(w, b, s, who)
  \/ \E w \in Workers :
       Exchange(w) \/ GetUser(w) \/ GetEmails(w) \/ Upsert(w) \/ Respond(w)
  \/ Crash

Spec == Init /\ [][Next]_vars

-------------------------------------------------------------------------------
(* Properties *)

\* Every variable stays in its range.
TypeOK ==
  /\ cookie \in [Browsers -> SignIns \cup {None}]
  /\ begun \in 0 .. MaxSignIns
  /\ owner \in [SignIns -> Browsers \cup {None}]
  /\ consent \in [SignIns -> Identities \cup {None}]
  /\ exchanged \subseteq SignIns
  /\ profile \in [Identities -> Profiles]
  /\ calls \in [Workers -> Call]
  /\ users \in [Emails -> SUBSET Identities]
  /\ sessions \subseteq Session
  /\ proved \subseteq Identities \X Emails
  /\ over \subseteq Browsers \X SignIns
  /\ changes \in 0 .. MaxChanges
  /\ faults \in 0 .. MaxFaults

\* A sign-in ends in the browser that began it (oauth.go:44-46), whatever
\* callback URLs are opened elsewhere, again, or while another is answered.
SignInStaysInBrowser == \A x \in sessions : owner[x.state] = x.browser

\* A session is for the user whose address the consenting account has proved, and
\* that user is stored, although addresses change between the calls of a callback
\* and the upsert may fail after committing.
SignedInByHolder ==
  \A x \in sessions : <<x.who, x.user>> \in proved /\ users[x.user] # {}

\* A provider account is linked to one user at most, through an address it has
\* proved, and a user has one account of each provider, however the callbacks of
\* both providers interleave on one row.
LinkedToOne ==
  \A e \in Emails : \A i \in users[e] :
    /\ <<i, e>> \in proved
    /\ \A f \in Emails \ {e} : i \notin users[f]
    /\ \A j \in users[e] : SameColumn(i, j) => i = j

\* The first callback of a sign-in, in time and in its own browser, passes the
\* check of the state unless that browser has begun another sign-in or was sent
\* to the callback of one: nothing that happens in other browsers disturbs it.
ConfirmsLoneSignIn ==
  \A w \in Workers, b \in Browsers, s \in SignIns, who \in Identities \cup {None} :
    (/\ Callback(w, b, s, who)
     /\ owner[s] = b /\ <<b, s>> \notin over
     /\ \A t \in SignIns \ {s} : owner[t] # b /\ <<b, t>> \notin over)
    => calls'[w].pc = "exchange"
LoneSignInConfirmed == [][ConfirmsLoneSignIn]_vars

\* users.go:61: UpsertGitHubUser "finds or creates a user by GitHub's numeric user id".
\* Not so once the account's address has changed: the id is on another row.
FindsByProviderId ==
  \A w \in Workers, e \in Emails :
    (/\ Upsert(w) /\ faults' = faults
     /\ calls[w].who \in users[e])
    => calls'[w].user = e
FoundByProviderId == [][FindsByProviderId]_vars
===============================================================================
