---------------------------- MODULE AccountsProofs ----------------------------
(* Theorems about Accounts: sessions reach only the browser that began the     *)
(* sign-in and only the holder of the address, links are one to one, and a     *)
(* lone sign-in is confirmed.                                                  *)
EXTENDS Accounts, TLAPS

\* The sign-ins begun are the first begun states.
OwnerOK == \A s \in SignIns : owner[s] # None <=> s <= begun

\* A cookie is a sign-in of its own browser.
CookieOK == \A b \in Browsers : cookie[b] # None => owner[cookie[b]] = b

\* What a provider says now has been recorded as proved.
ProfileOK ==
  \A i \in Identities, e \in Emails : e \in Vouches(profile[i]) => <<i, e>> \in proved

\* What a callback in flight has learnt so far.
CallOK(c) ==
  /\ c.pc # "idle" =>
       c.browser \in Browsers /\ c.state \in SignIns /\ <<c.browser, c.state>> \in over
  /\ (c.pc \in {"exchange", "user", "emails", "upsert"} \/ c.user # None) =>
       c.pc # "idle" /\ owner[c.state] = c.browser
  /\ c.pc \in {"user", "emails", "upsert"} => c.who # None
  /\ c.pc = "upsert" => c.email # None /\ <<c.who, c.email>> \in proved
  /\ c.user # None =>
       c.who # None /\ <<c.who, c.user>> \in proved /\ users[c.user] # {}
CallsOK == \A w \in Workers : CallOK(calls[w])

\* The cookie of a lone sign-in is still there.
LoneOK ==
  \A b \in Browsers, s \in SignIns :
    (/\ owner[s] = b /\ <<b, s>> \notin over
     /\ \A t \in SignIns \ {s} : owner[t] # b /\ <<b, t>> \notin over)
    => cookie[b] = s

IInv ==
  /\ TypeOK /\ OwnerOK /\ CookieOK /\ ProfileOK /\ CallsOK /\ LoneOK
  /\ SignInStaysInBrowser /\ SignedInByHolder /\ LinkedToOne

-------------------------------------------------------------------------------

LEMMA InitOK == Init => IInv
<1> SUFFICES ASSUME Init PROVE IInv
  OBVIOUS
<1> USE AccountsAssumption DEF Init
<1>1. cookie \in [Browsers -> SignIns \cup {None}]
  OBVIOUS
<1>2. owner \in [SignIns -> Browsers \cup {None}] /\ consent \in [SignIns -> Identities \cup {None}]
  OBVIOUS
<1>3. calls \in [Workers -> Call]
  BY DEF Call, Idle, Steps
<1>4. users \in [Emails -> SUBSET Identities]
  OBVIOUS
<1>5. proved \subseteq Identities \X Emails
  OBVIOUS
<1>6. TypeOK
  BY <1>1, <1>2, <1>3, <1>4, <1>5 DEF TypeOK
<1>7. OwnerOK /\ CookieOK /\ ProfileOK /\ CallsOK
  BY DEF OwnerOK, SignIns, CookieOK, ProfileOK, CallsOK, CallOK, Idle
<1>8. LoneOK /\ SignInStaysInBrowser /\ SignedInByHolder /\ LinkedToOne
  BY DEF LoneOK, SignInStaysInBrowser, SignedInByHolder, LinkedToOne
<1> QED
  BY <1>6, <1>7, <1>8 DEF IInv

\* A step of a callback: it replaces the request of one worker, keeps the rows
\* and touches nothing a browser or a provider holds.
LEMMA CallStep ==
  ASSUME IInv, NEW w \in Workers, NEW c \in Call,
         UNCHANGED providerVars, UNCHANGED <<cookie, sessions, over>>,
         exchanged' \subseteq SignIns, faults' \in 0 .. MaxFaults,
         users' \in [Emails -> SUBSET Identities],
         \A e \in Emails : users[e] # {} => users'[e] # {},
         LinkedToOne',
         calls' = [calls EXCEPT ![w] = c], CallOK(c)'
  PROVE  IInv'
<1> USE DEF providerVars
<1>1. TypeOK'
  BY DEF IInv, TypeOK
<1>2. OwnerOK' /\ CookieOK' /\ ProfileOK' /\ LoneOK' /\ SignInStaysInBrowser'
  BY DEF IInv, OwnerOK, CookieOK, ProfileOK, LoneOK, SignInStaysInBrowser
<1>3. SignedInByHolder'
  BY DEF IInv, TypeOK, Session, SignedInByHolder
<1>4. CallsOK'
  <2> SUFFICES ASSUME NEW v \in Workers PROVE CallOK(calls[v])'
    BY DEF CallsOK
  <2>1. CASE v = w
    BY <2>1 DEF IInv, TypeOK
  <2>2. CASE v # w
    <3>1. calls'[v] = calls[v] /\ CallOK(calls[v]) /\ calls[v] \in Call
      BY <2>2 DEF IInv, TypeOK, CallsOK
    <3> QED
      BY <3>1 DEF CallOK, Call
  <2> QED
    BY <2>1, <2>2
<1> QED
  BY <1>1, <1>2, <1>3, <1>4 DEF IInv

\* The request that Goto leaves.
Gone(w, pc, email, user) ==
  [pc |-> pc, browser |-> calls[w].browser, state |-> calls[w].state,
   who |-> calls[w].who, email |-> email, user |-> user]

LEMMA RefuseStep ==
  ASSUME IInv, NEW w \in Workers, calls[w].pc # "idle",
         UNCHANGED providerVars, UNCHANGED <<cookie, sessions, over>>,
         exchanged' \subseteq SignIns, faults' \in 0 .. MaxFaults,
         users' \in [Emails -> SUBSET Identities],
         \A e \in Emails : users[e] # {} => users'[e] # {},
         LinkedToOne', Refuse(w)
  PROVE  IInv'
<1>1. calls[w] \in Call /\ CallOK(calls[w])
  BY DEF IInv, TypeOK, CallsOK
<1>2. PICK c \in Call : c = Gone(w, "respond", None, None)
  BY <1>1 DEF Gone, Call, Steps
<1>3. CallOK(c)'
  BY <1>1, <1>2 DEF CallOK, Gone, providerVars
<1>4. calls' = [calls EXCEPT ![w] = c]
  BY <1>2 DEF Refuse, Goto, Gone
<1> QED
  BY <1>3, <1>4, CallStep

LEMMA FaultType == ASSUME TypeOK, Fault PROVE faults' \in 0 .. MaxFaults
  BY AccountsAssumption DEF TypeOK, Fault

LEMMA LinkedStays ==
  ASSUME LinkedToOne, UNCHANGED users, UNCHANGED proved PROVE LinkedToOne'
  BY DEF LinkedToOne, SameColumn

LEMMA ExchangeStep == ASSUME IInv, NEW w \in Workers, Exchange(w) PROVE IInv'
<1>1. calls[w] \in Call /\ CallOK(calls[w]) /\ TypeOK
  BY DEF IInv, TypeOK, CallsOK
<1>2. LinkedToOne'
  BY LinkedStays DEF IInv, Exchange, providerVars
<1>3. exchanged' \subseteq SignIns
  BY <1>1 DEF Exchange, CallOK, TypeOK
<1>4. faults' \in 0 .. MaxFaults
  BY <1>1, FaultType DEF Exchange, TypeOK
<1>5. users' \in [Emails -> SUBSET Identities] /\ \A e \in Emails : users[e] # {} => users'[e] # {}
  BY <1>1 DEF Exchange, TypeOK
<1>6. CASE Refuse(w)
  BY <1>2, <1>3, <1>4, <1>5, <1>6, RefuseStep DEF Exchange
<1>7. CASE calls[w].who # None /\ Goto(w, "user", None, None)
  <2>1. PICK c \in Call : c = Gone(w, "user", None, None)
    BY <1>1 DEF Gone, Call, Steps
  <2>2. CallOK(c)'
    BY <1>1, <1>7, <2>1 DEF CallOK, Gone, Exchange, providerVars
  <2>3. calls' = [calls EXCEPT ![w] = c]
    BY <1>7, <2>1 DEF Goto, Gone
  <2> QED
    BY <1>2, <1>3, <1>4, <1>5, <2>2, <2>3, CallStep DEF Exchange
<1> QED
  BY <1>6, <1>7 DEF Exchange

\* An address that the provider shows for the account of the request is proved.
LEMMA ToUpsert ==
  ASSUME IInv, NEW w \in Workers, calls[w].pc \in {"user", "emails"},
         NEW email \in Emails, email \in Vouches(profile[calls[w].who]),
         UNCHANGED providerVars, UNCHANGED <<cookie, exchanged, users, sessions, over, faults>>,
         Goto(w, "upsert", email, None)
  PROVE  IInv'
<1>1. calls[w] \in Call /\ CallOK(calls[w]) /\ TypeOK
  BY DEF IInv, TypeOK, CallsOK
<1>2. calls[w].who \in Identities
  BY <1>1 DEF CallOK, Call
<1>3. <<calls[w].who, email>> \in proved
  BY <1>2 DEF IInv, ProfileOK
<1>4. PICK c \in Call : c = Gone(w, "upsert", email, None)
  BY <1>1 DEF Gone, Call, Steps
<1>5. email # None
  BY AccountsAssumption
<1>6. CallOK(c)'
  BY <1>1, <1>3, <1>4, <1>5 DEF CallOK, Gone, providerVars
<1>7. calls' = [calls EXCEPT ![w] = c]
  BY <1>4 DEF Goto, Gone
<1>8. LinkedToOne'
  BY LinkedStays DEF IInv, providerVars
<1> QED
  BY <1>1, <1>6, <1>7, <1>8, CallStep DEF TypeOK

LEMMA GetUserStep == ASSUME IInv, NEW w \in Workers, GetUser(w) PROVE IInv'
<1>1. calls[w] \in Call /\ CallOK(calls[w]) /\ TypeOK
  BY DEF IInv, TypeOK, CallsOK
<1>2. LinkedToOne' /\ exchanged' \subseteq SignIns
  BY <1>1, LinkedStays DEF IInv, TypeOK, GetUser, providerVars
<1>3. faults' \in 0 .. MaxFaults
  BY <1>1, FaultType DEF GetUser, TypeOK
<1>4. users' \in [Emails -> SUBSET Identities] /\ \A e \in Emails : users[e] # {} => users'[e] # {}
  BY <1>1 DEF GetUser, TypeOK
<1>5. calls[w].who \in Identities
  BY <1>1 DEF GetUser, CallOK, Call
<1>6. profile[calls[w].who] \in ProfileRange
  BY <1>1, <1>5, AccountsAssumption DEF TypeOK
<1> DEFINE email == profile[calls[w].who].email
<1>7. CASE Refuse(w)
  BY <1>2, <1>3, <1>4, <1>7, RefuseStep DEF GetUser
<1>8. CASE email # None /\ Goto(w, "upsert", email, None) /\ UNCHANGED faults
  <2>1. email \in Emails /\ email \in Vouches(profile[calls[w].who])
    BY <1>6, <1>8 DEF ProfileRange, Vouches
  <2> QED
    BY <1>8, <2>1, ToUpsert DEF GetUser
<1>9. CASE Goto(w, "emails", None, None)
  <2>1. PICK c \in Call : c = Gone(w, "emails", None, None)
    BY <1>1 DEF Gone, Call, Steps
  <2>2. CallOK(c)'
    BY <1>1, <2>1 DEF CallOK, Gone, GetUser, providerVars
  <2>3. calls' = [calls EXCEPT ![w] = c]
    BY <1>9, <2>1 DEF Goto, Gone
  <2> QED
    BY <1>2, <1>3, <1>4, <2>2, <2>3, CallStep DEF GetUser
<1> QED
  BY <1>7, <1>8, <1>9 DEF GetUser

LEMMA GetEmailsStep == ASSUME IInv, NEW w \in Workers, GetEmails(w) PROVE IInv'
<1>1. calls[w] \in Call /\ CallOK(calls[w]) /\ TypeOK
  BY DEF IInv, TypeOK, CallsOK
<1>2. LinkedToOne' /\ exchanged' \subseteq SignIns
  BY <1>1, LinkedStays DEF IInv, TypeOK, GetEmails, providerVars
<1>3. faults' \in 0 .. MaxFaults
  BY <1>1, FaultType DEF GetEmails, TypeOK
<1>4. users' \in [Emails -> SUBSET Identities] /\ \A e \in Emails : users[e] # {} => users'[e] # {}
  BY <1>1 DEF GetEmails, TypeOK
<1>5. calls[w].who \in Identities
  BY <1>1 DEF GetEmails, CallOK, Call
<1>6. profile[calls[w].who] \in ProfileRange
  BY <1>1, <1>5, AccountsAssumption DEF TypeOK
<1> DEFINE p == profile[calls[w].who]
<1>7. CASE Refuse(w)
  BY <1>2, <1>3, <1>4, <1>7, RefuseStep DEF GetEmails
<1>8. CASE p.primary # None /\ p.verified /\ Goto(w, "upsert", p.primary, None) /\ UNCHANGED faults
  <2>1. p.primary \in Emails /\ p.primary \in Vouches(p)
    BY <1>6, <1>8 DEF ProfileRange, Vouches
  <2> QED
    BY <1>8, <2>1, ToUpsert DEF GetEmails
<1> QED
  BY <1>7, <1>8 DEF GetEmails

\* Linking keeps the links one to one when the id is on no other row.
LEMMA LinkKeeps ==
  ASSUME IInv, NEW e \in Emails, NEW i \in Identities,
         <<i, e>> \in proved, ~Conflict(e, i), Link(e, i), UNCHANGED proved
  PROVE  /\ users' \in [Emails -> SUBSET Identities]
         /\ \A f \in Emails : users[f] # {} => users'[f] # {}
         /\ users'[e] # {}
         /\ LinkedToOne'
<1> DEFINE row == {j \in users[e] : ~SameColumn(i, j)} \cup {i}
<1>1. users \in [Emails -> SUBSET Identities]
  BY DEF IInv, TypeOK
<1>2. users' = [users EXCEPT ![e] = row]
  BY DEF Link
<1>3. row \subseteq Identities /\ i \in row
  BY <1>1
<1>4. users'[e] = row /\ \A f \in Emails \ {e} : users'[f] = users[f]
  BY <1>1, <1>2
<1>5. users' \in [Emails -> SUBSET Identities]
  BY <1>1, <1>2, <1>3
<1>6. LinkedToOne'
  <2> SUFFICES ASSUME NEW f \in Emails, NEW k \in users'[f]
               PROVE  /\ <<k, f>> \in proved
                      /\ \A g \in Emails \ {f} : k \notin users'[g]
                      /\ \A j \in users'[f] : SameColumn(k, j) => k = j
    BY DEF LinkedToOne, SameColumn
  <2>1. \A h \in Emails : \A m \in users'[h] : (h = e /\ m = i) \/ m \in users[h]
    BY <1>4
  <2>2. \A h \in Emails : i \in users'[h] => h = e
    BY <1>4 DEF Conflict
  <2>3. \A m \in users'[e] : m = i \/ (m \in users[e] /\ ~SameColumn(i, m))
    BY <1>4
  <2>4. CASE f = e /\ k = i
    BY <2>2, <2>3, <2>4
  <2>5. CASE k \in users[f] /\ k # i
    BY <2>1, <2>3, <2>5 DEF IInv, LinkedToOne, SameColumn
  <2>6. CASE k \in users[f] /\ k = i
    BY <2>2, <2>3, <2>6
  <2> QED
    BY <2>1, <2>4, <2>5, <2>6
<1> QED
  BY <1>3, <1>4, <1>5, <1>6

LEMMA UpsertStep == ASSUME IInv, NEW w \in Workers, Upsert(w) PROVE IInv'
<1>1. calls[w] \in Call /\ CallOK(calls[w]) /\ TypeOK
  BY DEF IInv, TypeOK, CallsOK
<1> DEFINE e == calls[w].email
           i == calls[w].who
<1>2. e \in Emails /\ i \in Identities /\ <<i, e>> \in proved /\ e # None
  BY <1>1 DEF Upsert, CallOK, Call
<1>3. exchanged' \subseteq SignIns /\ faults' \in 0 .. MaxFaults
  BY <1>1, FaultType DEF TypeOK, Upsert
<1>4. ASSUME UNCHANGED users
      PROVE  /\ users' \in [Emails -> SUBSET Identities]
             /\ \A f \in Emails : users[f] # {} => users'[f] # {}
             /\ LinkedToOne'
  BY <1>1, <1>4, LinkedStays DEF IInv, TypeOK, Upsert, providerVars
<1>5. ASSUME ~Conflict(e, i), Link(e, i)
      PROVE  /\ users' \in [Emails -> SUBSET Identities]
             /\ \A f \in Emails : users[f] # {} => users'[f] # {}
             /\ users'[e] # {}
             /\ LinkedToOne'
  BY <1>2, <1>5, LinkKeeps DEF Upsert, providerVars
<1>6. CASE Refuse(w)
  <2>1. /\ users' \in [Emails -> SUBSET Identities]
        /\ \A f \in Emails : users[f] # {} => users'[f] # {}
        /\ LinkedToOne'
    <3>1. UNCHANGED users \/ (~Conflict(e, i) /\ Link(e, i))
      BY DEF Upsert
    <3> QED
      BY <3>1, <1>4, <1>5
  <2> QED
    BY <1>3, <1>6, <2>1, RefuseStep DEF Upsert
<1>7. CASE ~Conflict(e, i) /\ Link(e, i) /\ Goto(w, "respond", e, e)
  <2>1. PICK c \in Call : c = Gone(w, "respond", e, e)
    BY <1>1, <1>2 DEF Gone, Call, Steps
  <2>2. users'[e] # {}
    BY <1>5, <1>7
  <2>3. CallOK(c)'
    BY <1>1, <1>2, <2>1, <2>2 DEF CallOK, Gone, Upsert, providerVars
  <2>4. calls' = [calls EXCEPT ![w] = c]
    BY <1>7, <2>1 DEF Goto, Gone
  <2> QED
    BY <1>3, <1>5, <1>7, <2>3, <2>4, CallStep DEF Upsert
<1> QED
  BY <1>6, <1>7 DEF Upsert

\* Requests that are dropped leave nothing behind.
LEMMA DropStep ==
  ASSUME IInv, UNCHANGED providerVars, UNCHANGED <<exchanged, users, over>>,
         cookie' \in [Browsers -> SignIns \cup {None}],
         \A b \in Browsers : cookie'[b] \in {cookie[b], None},
         LoneOK', sessions' \subseteq Session,
         SignInStaysInBrowser', SignedInByHolder',
         faults' \in 0 .. MaxFaults,
         calls' \in [Workers -> Call],
         \A w \in Workers : calls'[w] \in {calls[w], Idle}
  PROVE  IInv'
<1> USE DEF providerVars
<1>1. TypeOK'
  BY DEF IInv, TypeOK
<1>2. OwnerOK' /\ CookieOK' /\ ProfileOK'
  BY DEF IInv, OwnerOK, CookieOK, ProfileOK
<1>3. CallsOK'
  <2> SUFFICES ASSUME NEW v \in Workers PROVE CallOK(calls[v])'
    BY DEF CallsOK
  <2>1. CASE calls'[v] = calls[v]
    BY <2>1 DEF IInv, CallsOK, CallOK
  <2>2. CASE calls'[v] = Idle
    BY <2>2 DEF CallOK, Idle
  <2> QED
    BY <2>1, <2>2
<1>4. LinkedToOne'
  BY LinkedStays DEF IInv
<1> QED
  BY <1>1, <1>2, <1>3, <1>4 DEF IInv

LEMMA IdleType == Idle \in Call
  BY DEF Idle, Call, Steps

LEMMA RespondStep == ASSUME IInv, NEW w \in Workers, Respond(w) PROVE IInv'
<1>1. calls[w] \in Call /\ CallOK(calls[w]) /\ TypeOK
  BY DEF IInv, TypeOK, CallsOK
<1>2. faults' \in 0 .. MaxFaults
  BY <1>1, FaultType DEF TypeOK, Respond
<1>3. /\ calls' \in [Workers -> Call]
      /\ \A v \in Workers : calls'[v] \in {calls[v], Idle}
  BY <1>1, IdleType DEF TypeOK, Respond
<1>4. CASE UNCHANGED <<cookie, sessions>>
  <2>1. LoneOK' /\ SignInStaysInBrowser' /\ SignedInByHolder'
    BY <1>4 DEF IInv, LoneOK, SignInStaysInBrowser, SignedInByHolder, Respond, providerVars
  <2> QED
    BY <1>1, <1>2, <1>3, <1>4, <2>1, DropStep DEF TypeOK, Respond
<1>5. CASE /\ cookie' = [cookie EXCEPT ![calls[w].browser] = None]
           /\ sessions' = sessions \cup Issued(calls[w])
  <2>1. calls[w].browser \in Browsers /\ <<calls[w].browser, calls[w].state>> \in over
        /\ calls[w].state \in SignIns
    BY <1>1 DEF CallOK, Respond
  <2>2. /\ cookie' \in [Browsers -> SignIns \cup {None}]
        /\ cookie'[calls[w].browser] = None
        /\ \A b \in Browsers \ {calls[w].browser} : cookie'[b] = cookie[b]
    BY <1>1, <1>5, <2>1 DEF TypeOK
  <2>3. LoneOK'
    BY <2>1, <2>2 DEF IInv, LoneOK, Respond, providerVars
  <2>4. \A x \in Issued(calls[w]) :
          /\ x \in Session
          /\ owner[x.state] = x.browser
          /\ <<x.who, x.user>> \in proved /\ users[x.user] # {}
    BY <1>1, <2>1 DEF Issued, CallOK, Call, Session
  <2>5. sessions' \subseteq Session
    BY <1>1, <1>5, <2>4 DEF TypeOK
  <2>6. SignInStaysInBrowser'
    BY <1>5, <2>4 DEF IInv, SignInStaysInBrowser, Respond, providerVars
  <2>7. SignedInByHolder'
    BY <1>5, <2>4 DEF IInv, SignedInByHolder, Respond, providerVars
  <2> QED
    BY <1>2, <1>3, <2>2, <2>3, <2>5, <2>6, <2>7, DropStep DEF Respond
<1> QED
  BY <1>4, <1>5 DEF Respond

LEMMA CrashStep == ASSUME IInv, Crash PROVE IInv'
<1>1. TypeOK
  BY DEF IInv
<1>2. faults' \in 0 .. MaxFaults
  BY <1>1, FaultType DEF Crash
<1>3. calls' \in [Workers -> Call] /\ \A v \in Workers : calls'[v] \in {calls[v], Idle}
  BY IdleType DEF Crash
<1>4. LoneOK' /\ SignInStaysInBrowser' /\ SignedInByHolder'
  BY DEF IInv, LoneOK, SignInStaysInBrowser, SignedInByHolder, Crash, providerVars
<1> QED
  BY <1>1, <1>2, <1>3, <1>4, DropStep DEF TypeOK, Crash

LEMMA BeginStep == ASSUME IInv, NEW b \in Browsers, Begin(b) PROVE IInv'
<1> DEFINE n == begun + 1
<1>1. TypeOK /\ n \in SignIns
  BY AccountsAssumption DEF IInv, TypeOK, Begin, SignIns
<1>2. owner[n] = None
  BY <1>1 DEF IInv, OwnerOK, SignIns, TypeOK
<1>3. b # None /\ \A c \in Browsers : c # None
  BY AccountsAssumption
<1>4. /\ owner'[n] = b
      /\ \A s \in SignIns \ {n} : owner'[s] = owner[s]
      /\ cookie'[b] = n
      /\ \A c \in Browsers \ {b} : cookie'[c] = cookie[c]
  BY <1>1 DEF TypeOK, Begin
<1>5. \A s \in SignIns : owner[s] \in Browsers => s # n /\ owner'[s] = owner[s]
  BY <1>2, <1>3, <1>4
<1>6. TypeOK'
  BY <1>1, AccountsAssumption DEF TypeOK, Begin, SignIns
<1>7. OwnerOK'
  BY <1>1, <1>3, <1>4 DEF IInv, TypeOK, OwnerOK, Begin, SignIns
<1>8. CookieOK'
  <2> SUFFICES ASSUME NEW c \in Browsers, cookie'[c] # None PROVE owner'[cookie'[c]] = c
    BY DEF CookieOK
  <2>1. CASE c = b
    BY <1>4, <2>1
  <2>2. CASE c # b
    BY <1>1, <1>4, <1>5, <2>2 DEF IInv, CookieOK, TypeOK
  <2> QED
    BY <2>1, <2>2
<1>9. ProfileOK' /\ SignedInByHolder' /\ LinkedToOne'
  BY LinkedStays DEF IInv, ProfileOK, SignedInByHolder, Begin
<1>10. CallsOK'
  BY <1>1, <1>3, <1>5 DEF IInv, TypeOK, CallsOK, CallOK, Call, Begin
<1>11. LoneOK'
  <2> SUFFICES ASSUME NEW c \in Browsers, NEW s \in SignIns,
                      owner'[s] = c, <<c, s>> \notin over,
                      \A t \in SignIns \ {s} : owner'[t] # c /\ <<c, t>> \notin over
               PROVE  cookie'[c] = s
    BY DEF LoneOK, Begin
  <2>1. CASE s = n
    BY <1>4, <2>1
  <2>2. CASE s # n
    <3>1. c # b /\ owner[s] = c
      BY <1>1, <1>4, <2>2
    <3>2. \A t \in SignIns \ {s} : owner[t] # c
      BY <1>2, <1>3, <1>4
    <3> QED
      BY <1>4, <3>1, <3>2 DEF IInv, LoneOK
  <2> QED
    BY <2>1, <2>2
<1>12. SignInStaysInBrowser'
  BY <1>1, <1>5 DEF IInv, TypeOK, Session, SignInStaysInBrowser, Begin
<1> QED
  BY <1>6, <1>7, <1>8, <1>9, <1>10, <1>11, <1>12 DEF IInv

LEMMA CookieExpiresStep == ASSUME IInv, NEW b \in Browsers, CookieExpires(b) PROVE IInv'
<1>1. TypeOK /\ cookie[b] \in SignIns
  BY DEF IInv, TypeOK, CookieExpires
<1>2. cookie'[b] = None /\ \A c \in Browsers \ {b} : cookie'[c] = cookie[c]
  BY <1>1 DEF TypeOK, CookieExpires
<1>3. TypeOK'
  BY <1>1 DEF TypeOK, CookieExpires
<1>4. OwnerOK' /\ ProfileOK' /\ SignInStaysInBrowser' /\ SignedInByHolder' /\ LinkedToOne'
  BY LinkedStays
  DEF IInv, OwnerOK, ProfileOK, SignInStaysInBrowser, SignedInByHolder, CookieExpires
<1>5. CookieOK'
  BY <1>2 DEF IInv, CookieOK, CookieExpires
<1>6. CallsOK'
  BY DEF IInv, CallsOK, CallOK, CookieExpires
<1>7. LoneOK'
  BY <1>1, <1>2 DEF IInv, LoneOK, CookieExpires
<1> QED
  BY <1>3, <1>4, <1>5, <1>6, <1>7 DEF IInv

LEMMA ConsentStep ==
  ASSUME IInv, NEW s \in SignIns, NEW i \in Identities, Consent(s, i) PROVE IInv'
<1>1. TypeOK'
  BY DEF IInv, TypeOK, Consent
<1>2. OwnerOK' /\ CookieOK' /\ ProfileOK' /\ LoneOK' /\ SignInStaysInBrowser'
  BY DEF IInv, OwnerOK, CookieOK, ProfileOK, LoneOK, SignInStaysInBrowser, Consent
<1>3. SignedInByHolder' /\ LinkedToOne'
  BY LinkedStays DEF IInv, SignedInByHolder, Consent
<1>4. CallsOK'
  BY DEF IInv, CallsOK, CallOK, Consent
<1> QED
  BY <1>1, <1>2, <1>3, <1>4 DEF IInv

LEMMA ChangeProfileStep ==
  ASSUME IInv, NEW i \in Identities, NEW p \in Profiles, ChangeProfile(i, p) PROVE IInv'
<1>1. TypeOK /\ p \in ProfileRange
  BY AccountsAssumption DEF IInv
<1>2. Vouches(p) \subseteq Emails
  BY <1>1 DEF Vouches, ProfileRange
<1>3. proved \subseteq proved' /\ \A e \in Vouches(p) : <<i, e>> \in proved'
  BY DEF ChangeProfile
<1>4. proved' \subseteq Identities \X Emails
  BY <1>1, <1>2 DEF TypeOK, ChangeProfile
<1>5. profile'[i] = p /\ \A j \in Identities \ {i} : profile'[j] = profile[j]
  BY <1>1 DEF TypeOK, ChangeProfile
<1>6. TypeOK'
  BY <1>1, <1>4, AccountsAssumption DEF TypeOK, ChangeProfile
<1>7. OwnerOK' /\ CookieOK' /\ LoneOK' /\ SignInStaysInBrowser'
  BY DEF IInv, OwnerOK, CookieOK, LoneOK, SignInStaysInBrowser, ChangeProfile
<1>8. ProfileOK'
  <2> SUFFICES ASSUME NEW j \in Identities, NEW e \in Emails, e \in Vouches(profile'[j])
               PROVE  <<j, e>> \in proved'
    BY DEF ProfileOK, Vouches
  <2>1. CASE j = i
    BY <1>3, <1>5, <2>1
  <2>2. CASE j # i
    BY <1>3, <1>5, <2>2 DEF IInv, ProfileOK
  <2> QED
    BY <2>1, <2>2
<1>9. SignedInByHolder'
  BY <1>3 DEF IInv, SignedInByHolder, ChangeProfile
<1>10. LinkedToOne'
  BY <1>3 DEF IInv, LinkedToOne, SameColumn, ChangeProfile
<1>11. CallsOK'
  BY <1>3 DEF IInv, CallsOK, CallOK, ChangeProfile
<1> QED
  BY <1>6, <1>7, <1>8, <1>9, <1>10, <1>11 DEF IInv

LEMMA CallbackStep ==
  ASSUME IInv, NEW w \in Workers, NEW b \in Browsers, NEW s \in SignIns,
         NEW who \in Identities \cup {None}, Callback(w, b, s, who)
  PROVE  IInv'
<1>1. TypeOK
  BY DEF IInv
<1>2. CheckState(b, s) => owner[s] = b
  BY AccountsAssumption DEF IInv, CookieOK, CheckState
<1>3. PICK c \in Call :
        c = [pc |-> IF CheckState(b, s) THEN "exchange" ELSE "respond",
             browser |-> b, state |-> s, who |-> who, email |-> None, user |-> None]
  <2>1. PICK pc \in Steps : pc = IF CheckState(b, s) THEN "exchange" ELSE "respond"
    BY DEF Steps
  <2>2. [pc |-> pc, browser |-> b, state |-> s, who |-> who,
         email |-> None, user |-> None] \in Call
    BY DEF Call
  <2> QED
    BY <2>1, <2>2
<1>4. calls' = [calls EXCEPT ![w] = c]
  BY <1>3 DEF Callback
<1>5. TypeOK'
  BY <1>1, <1>4 DEF TypeOK, Callback, providerVars
<1>6. OwnerOK' /\ CookieOK' /\ ProfileOK' /\ SignInStaysInBrowser' /\ SignedInByHolder'
  BY DEF IInv, OwnerOK, CookieOK, ProfileOK, SignInStaysInBrowser, SignedInByHolder,
         Callback, providerVars
<1>7. LinkedToOne'
  BY LinkedStays DEF IInv, Callback, providerVars
<1>8. over \subseteq over' /\ <<b, s>> \in over'
  BY DEF Callback
<1>9. LoneOK'
  BY <1>8 DEF IInv, LoneOK, Callback, providerVars
<1>10. CallsOK'
  <2> SUFFICES ASSUME NEW v \in Workers PROVE CallOK(calls[v])'
    BY DEF CallsOK
  <2>1. CASE v = w
    <3>1. calls'[v] = c
      BY <1>1, <1>4, <2>1 DEF TypeOK
    <3> QED
      BY <1>2, <1>3, <1>8, <3>1 DEF CallOK, Callback, providerVars
  <2>2. CASE v # w
    <3>1. calls'[v] = calls[v]
      BY <1>1, <1>4, <2>2 DEF TypeOK
    <3> QED
      BY <1>8, <3>1 DEF IInv, CallsOK, CallOK, Callback, providerVars
  <2> QED
    BY <2>1, <2>2
<1> QED
  BY <1>5, <1>6, <1>7, <1>9, <1>10 DEF IInv

-------------------------------------------------------------------------------

\* The invariant holds initially and every step of the program, its browsers and
\* its providers keeps it.
THEOREM Inductive == Spec => []IInv
<1>1. IInv /\ [Next]_vars => IInv'
  <2> SUFFICES ASSUME IInv, [Next]_vars PROVE IInv'
    OBVIOUS
  <2>1. ASSUME NEW b \in Browsers, Begin(b) \/ CookieExpires(b) PROVE IInv'
    BY <2>1, BeginStep, CookieExpiresStep
  <2>2. ASSUME NEW s \in SignIns, NEW i \in Identities, Consent(s, i) PROVE IInv'
    BY <2>2, ConsentStep
  <2>3. ASSUME NEW i \in Identities, NEW p \in Profiles, ChangeProfile(i, p) PROVE IInv'
    BY <2>3, ChangeProfileStep
  <2>4. ASSUME NEW w \in Workers, NEW b \in Browsers, NEW s \in SignIns,
               NEW who \in Identities \cup {None}, Callback(w, b, s, who)
        PROVE  IInv'
    BY <2>4, CallbackStep
  <2>5. ASSUME NEW w \in Workers,
               Exchange(w) \/ GetUser(w) \/ GetEmails(w) \/ Upsert(w) \/ Respond(w)
        PROVE  IInv'
    BY <2>5, ExchangeStep, GetUserStep, GetEmailsStep, UpsertStep, RespondStep
  <2>6. CASE Crash
    BY <2>6, CrashStep
  <2>7. CASE UNCHANGED vars
    <3> USE <2>7 DEF vars
    <3>1. TypeOK' /\ OwnerOK' /\ CookieOK' /\ ProfileOK' /\ LoneOK'
      BY DEF IInv, TypeOK, OwnerOK, CookieOK, ProfileOK, LoneOK
    <3>2. SignInStaysInBrowser' /\ SignedInByHolder' /\ LinkedToOne'
      BY LinkedStays DEF IInv, SignInStaysInBrowser, SignedInByHolder
    <3>3. CallsOK'
      BY DEF IInv, CallsOK, CallOK
    <3> QED
      BY <3>1, <3>2, <3>3 DEF IInv
  <2> QED
    BY <2>1, <2>2, <2>3, <2>4, <2>5, <2>6, <2>7 DEF Next
<1> QED
  BY <1>1, InitOK, PTL DEF Spec

\* The tables, cookies and requests in flight keep their types.
THEOREM TypeCorrect == Spec => []TypeOK
<1>1. IInv => TypeOK
  BY DEF IInv
<1> QED
  BY <1>1, Inductive, PTL

\* The state check of oauth.go keeps a sign-in in the browser that began it.
THEOREM BrowserSafe == Spec => []SignInStaysInBrowser
<1>1. IInv => SignInStaysInBrowser
  BY DEF IInv
<1> QED
  BY <1>1, Inductive, PTL

\* The callbacks of handlers_auth.go sign in nobody but the holder of the address.
THEOREM HolderSafe == Spec => []SignedInByHolder
<1>1. IInv => SignedInByHolder
  BY DEF IInv
<1> QED
  BY <1>1, Inductive, PTL

\* The upsert of users.go links one account of each provider to one user.
THEOREM LinkedSafe == Spec => []LinkedToOne
<1>1. IInv => LinkedToOne
  BY DEF IInv
<1> QED
  BY <1>1, Inductive, PTL

\* The callback of a browser's only sign-in passes the state check.
THEOREM LoneSafe == Spec => LoneSignInConfirmed
<1>1. IInv /\ [Next]_vars => [ConfirmsLoneSignIn]_vars
  <2> SUFFICES ASSUME IInv,
                      NEW w \in Workers, NEW b \in Browsers, NEW s \in SignIns,
                      NEW who \in Identities \cup {None}, Callback(w, b, s, who),
                      owner[s] = b, <<b, s>> \notin over,
                      \A t \in SignIns \ {s} : owner[t] # b /\ <<b, t>> \notin over
               PROVE  calls'[w].pc = "exchange"
    BY DEF ConfirmsLoneSignIn
  <2>1. CheckState(b, s)
    BY DEF IInv, LoneOK, CheckState
  <2> QED
    BY <2>1 DEF IInv, TypeOK, Callback
<1> QED
  BY <1>1, Inductive, PTL DEF Spec, LoneSignInConfirmed
===============================================================================
