---------------------------- MODULE BillingProofs ----------------------------
(***************************************************************************)
(* Proofs about Billing, for any users, orders, workers, gateway, set of   *)
(* unreliable steps and number of faults.                                  *)
(***************************************************************************)
EXTENDS Billing, TLAPS

-----------------------------------------------------------------------------
(* What a worker's pc says about the shape of its request.                 *)

LEMMA RequestShape ==
  ASSUME NEW r \in Requests
  PROVE  /\ r.pc = "createSession" => r \in PlanCheckouts
         /\ r.pc = "createCheckout" => r \in [pc: {"createCheckout"}, service: ServiceIds]
         /\ r.pc = "createServiceSession"
              => r \in [pc: {"createServiceSession"}, service: ServiceIds, order: OrderIds]
         /\ r.pc = "reply" => r \in Replies
         /\ r.pc \in {"getSession", "getServiceSession"} => r \in Lookups
         /\ r.pc = "upsert" => r \in Upserts
         /\ r.pc = "markPaid" => r \in Marks
         /\ r.pc \in {"closeSession", "closeServiceSession", "respond"} => r \in Closings
  BY DEF Requests, Idle, PlanCheckouts, ServiceCheckouts, Replies, Lookups, Upserts, Marks, Closings

\* A worker is set to a well-formed request: so are all workers after the step.
LEMMA GotoType ==
  ASSUME requests \in [Workers -> Requests], NEW w \in Workers, NEW r \in Requests, Goto(w, r)
  PROVE  requests' \in [Workers -> Requests]
  BY DEF Goto

LEMMA FaultType ==
  ASSUME faults \in 0..MaxFaults
  PROVE  /\ Fault => faults' \in 0..MaxFaults
         /\ \A pc : Fails(pc) => faults' \in 0..MaxFaults
  BY BillingAssumption DEF Fault, Fails

-----------------------------------------------------------------------------
(* Type correctness.                                                       *)

LEMMA TypeInit == Init => TypeOK
  BY BillingAssumption
  DEF Init, TypeOK, InvoiceStatuses, Requests, Notices

LEMMA TypeNext == TypeOK /\ [Next]_vars => TypeOK'
<1> SUFFICES ASSUME TypeOK, [Next]_vars
             PROVE  TypeOK'
  OBVIOUS
<1>0. /\ requests \in [Workers -> Requests]
      /\ faults \in 0..MaxFaults
  BY DEF TypeOK
<1> USE DEF At
<1>1. ASSUME NEW w \in Workers, NEW u \in Users, NEW p \in Plans, NEW o \in OrderIds,
             CreateCheckout(w, u, p, o)
      PROVE  TypeOK'
  <2> DEFINE r == [pc |-> "createSession", user |-> u, plan |-> p, order |-> o]
  <2>1. r \in Requests
    BY DEF Requests, PlanCheckouts
  <2>2. requests' \in [Workers -> Requests]
    BY <1>0, <1>1, <2>1, GotoType DEF CreateCheckout
  <2>3. invoice' \in [OrderIds -> InvoiceStatuses]
    BY <1>1 DEF TypeOK, CreateCheckout, OpenInvoice, OpenStatus, InvoiceStatuses
  <2>4. faults' \in 0..MaxFaults
    BY <1>0, <1>1, FaultType DEF CreateCheckout
  <2> QED
    BY <1>1, <2>2, <2>3, <2>4 DEF TypeOK, CreateCheckout, OpenInvoice, tables
<1>2. ASSUME NEW w \in Workers, CreateCheckoutSession(w)
      PROVE  TypeOK'
  <2> DEFINE q == requests[w]
             r == [pc |-> "reply", order |-> q.order]
             row == [user |-> q.user, plan |-> q.plan, status |-> "pending"]
  <2>1. q \in PlanCheckouts
    BY <1>0, <1>2, RequestShape DEF CreateCheckoutSession
  <2>2. r \in Requests /\ Idle \in Requests /\ row \in PlanSessions
    BY <2>1 DEF Requests, PlanCheckouts, Replies, PlanSessions
  <2>3. requests' \in [Workers -> Requests]
    BY <1>0, <1>2, <2>2, GotoType DEF CreateCheckoutSession, Return
  <2>4. checkoutSessions' \in [OrderIds -> PlanSessions \cup {NoRow}]
    BY <1>2, <2>1, <2>2 DEF TypeOK, CreateCheckoutSession, PlanCheckouts
  <2>5. faults' \in 0..MaxFaults
    BY <1>0, <1>2, FaultType DEF CreateCheckoutSession
  <2> QED
    BY <1>2, <2>3, <2>4, <2>5 DEF TypeOK, CreateCheckoutSession, gateway
<1>3. ASSUME NEW w \in Workers, NEW s \in ServiceIds, CreateServiceOrder(w, s)
      PROVE  TypeOK'
  <2>1. [pc |-> "createCheckout", service |-> s] \in Requests
    BY DEF Requests, ServiceCheckouts
  <2>2. requests' \in [Workers -> Requests]
    BY <1>0, <1>3, <2>1, GotoType DEF CreateServiceOrder
  <2>3. serviceOrders' \in [ServiceIds -> ServiceStatuses \cup {NoRow}]
    BY <1>3 DEF TypeOK, CreateServiceOrder, ServiceStatuses
  <2>4. faults' \in 0..MaxFaults
    BY <1>0, <1>3, FaultType DEF CreateServiceOrder
  <2> QED
    BY <1>3, <2>2, <2>3, <2>4 DEF TypeOK, CreateServiceOrder, gateway
<1>4. ASSUME NEW w \in Workers, NEW o \in OrderIds, CreateCustomCheckout(w, o)
      PROVE  TypeOK'
  <2> DEFINE q == requests[w]
             r == [pc |-> "createServiceSession", service |-> q.service, order |-> o]
  <2>1. q \in [pc: {"createCheckout"}, service: ServiceIds]
    BY <1>0, <1>4, RequestShape DEF CreateCustomCheckout
  <2>2. r \in Requests /\ Idle \in Requests
    BY <2>1 DEF Requests, ServiceCheckouts
  <2>3. requests' \in [Workers -> Requests]
    BY <1>0, <1>4, <2>2, GotoType DEF CreateCustomCheckout, Return
  <2>4. invoice' \in [OrderIds -> InvoiceStatuses] /\ UNCHANGED <<notices, acked, urls>>
    BY <1>4 DEF TypeOK, CreateCustomCheckout, OpenInvoice, OpenStatus, InvoiceStatuses, gateway
  <2>5. faults' \in 0..MaxFaults
    BY <1>0, <1>4, FaultType DEF CreateCustomCheckout
  <2> QED
    BY <1>4, <2>3, <2>4, <2>5 DEF TypeOK, CreateCustomCheckout, tables
<1>5. ASSUME NEW w \in Workers, CreateServiceCheckoutSession(w)
      PROVE  TypeOK'
  <2> DEFINE q == requests[w]
             r == [pc |-> "reply", order |-> q.order]
             row == [service |-> q.service, status |-> "pending"]
  <2>1. q \in [pc: {"createServiceSession"}, service: ServiceIds, order: OrderIds]
    BY <1>0, <1>5, RequestShape DEF CreateServiceCheckoutSession
  <2>2. r \in Requests /\ Idle \in Requests /\ row \in ServiceSessions
    BY <2>1 DEF Requests, Replies, ServiceSessions
  <2>3. requests' \in [Workers -> Requests]
    BY <1>0, <1>5, <2>2, GotoType DEF CreateServiceCheckoutSession, Return
  <2>4. serviceSessions' \in [OrderIds -> ServiceSessions \cup {NoRow}]
    BY <1>5, <2>1, <2>2 DEF TypeOK, CreateServiceCheckoutSession
  <2>5. faults' \in 0..MaxFaults
    BY <1>0, <1>5, FaultType DEF CreateServiceCheckoutSession
  <2> QED
    BY <1>5, <2>3, <2>4, <2>5 DEF TypeOK, CreateServiceCheckoutSession, gateway
<1>6. ASSUME NEW w \in Workers, Reply(w)
      PROVE  TypeOK'
  <2>1. requests[w] \in Replies
    BY <1>0, <1>6, RequestShape DEF Reply
  <2>2. urls' \subseteq OrderIds
    BY <1>6, <2>1 DEF TypeOK, Reply, Replies
  <2>3. requests' \in [Workers -> Requests]
    BY <1>0, <1>6, GotoType DEF Reply, Return, Requests
  <2>4. faults' \in 0..MaxFaults
    BY <1>0, <1>6, FaultType DEF Reply
  <2> QED
    BY <1>6, <2>2, <2>3, <2>4 DEF TypeOK, Reply, tables
<1>7. ASSUME NEW w \in Workers, NEW n \in notices, HandleWebhook(w, n)
      PROVE  TypeOK'
  <2> DEFINE status == IF Gateway = "nowpayments" THEN n.status ELSE invoice[n.order]
             r == [pc |-> "getSession", notice |-> n, paid |-> status \in PaidStatuses]
  <2>1. n \in Notices
    BY DEF TypeOK
  <2>2. r \in Requests
    BY <2>1 DEF Requests, Lookups
  <2>3. requests' \in [Workers -> Requests]
    BY <1>0, <1>7, <2>2, GotoType DEF HandleWebhook
  <2> QED
    BY <1>7, <2>3 DEF TypeOK, HandleWebhook, gateway, tables
<1>8. ASSUME NEW w \in Workers, GetCheckoutSession(w)
      PROVE  TypeOK'
  <2> DEFINE q == requests[w]
             row == checkoutSessions[q.notice.order]
             up == [pc |-> "upsert", notice |-> q.notice, user |-> row.user, plan |-> row.plan]
             ok == [pc |-> "respond", notice |-> q.notice]
             next == [pc |-> "getServiceSession", notice |-> q.notice, paid |-> q.paid]
  <2>1. q \in Lookups
    BY <1>0, <1>8, RequestShape DEF GetCheckoutSession
  <2>2. row \in PlanSessions \cup {NoRow}
    BY <2>1 DEF TypeOK, Lookups, Notices
  <2>3. ok \in Requests /\ next \in Requests /\ (row # NoRow => up \in Requests)
    BY <2>1, <2>2 DEF Requests, Lookups, Closings, Upserts, PlanSessions
  <2>4. requests' \in [Workers -> Requests]
    BY <1>0, <1>8, <2>3, GotoType DEF GetCheckoutSession
  <2>5. faults' \in 0..MaxFaults
    BY <1>0, <1>8, FaultType DEF GetCheckoutSession
  <2> QED
    BY <1>8, <2>4, <2>5 DEF TypeOK, GetCheckoutSession, gateway, tables
<1>9. ASSUME NEW w \in Workers, GetServiceCheckoutSession(w)
      PROVE  TypeOK'
  <2> DEFINE q == requests[w]
             row == serviceSessions[q.notice.order]
             mark == [pc |-> "markPaid", notice |-> q.notice, service |-> row.service]
             ok == [pc |-> "respond", notice |-> q.notice]
  <2>1. q \in Lookups
    BY <1>0, <1>9, RequestShape DEF GetServiceCheckoutSession
  <2>2. row \in ServiceSessions \cup {NoRow}
    BY <2>1 DEF TypeOK, Lookups, Notices
  <2>3. ok \in Requests /\ (row # NoRow => mark \in Requests)
    BY <2>1, <2>2 DEF Requests, Lookups, Closings, Marks, ServiceSessions
  <2>4. requests' \in [Workers -> Requests]
    BY <1>0, <1>9, <2>3, GotoType DEF GetServiceCheckoutSession
  <2>5. faults' \in 0..MaxFaults
    BY <1>0, <1>9, FaultType DEF GetServiceCheckoutSession
  <2> QED
    BY <1>9, <2>4, <2>5 DEF TypeOK, GetServiceCheckoutSession, gateway, tables
<1>10. ASSUME NEW w \in Workers, UpsertSubscription(w)
       PROVE  TypeOK'
  <2> DEFINE q == requests[w]
             row == [plan |-> q.plan, order |-> q.notice.order]
  <2>1. q \in Upserts
    BY <1>0, <1>10, RequestShape DEF UpsertSubscription
  <2>2. /\ [pc |-> "closeSession", notice |-> q.notice] \in Requests /\ Idle \in Requests
        /\ row \in Subscriptions /\ q.notice.order \in OrderIds
    BY <2>1 DEF Requests, Upserts, Closings, Subscriptions, Notices
  <2>3. requests' \in [Workers -> Requests]
    BY <1>0, <1>10, <2>2, GotoType DEF UpsertSubscription, Return
  <2>4. subscriptions' \in [Users -> Subscriptions \cup {NoRow}] /\ credited' \subseteq OrderIds
    BY <1>10, <2>2 DEF TypeOK, UpsertSubscription
  <2>5. faults' \in 0..MaxFaults
    BY <1>0, <1>10, FaultType DEF UpsertSubscription
  <2> QED
    BY <1>10, <2>3, <2>4, <2>5 DEF TypeOK, UpsertSubscription, gateway
<1>11. ASSUME NEW w \in Workers, MarkServiceOrderPaid(w)
       PROVE  TypeOK'
  <2> DEFINE q == requests[w]
  <2>1. q \in Marks
    BY <1>0, <1>11, RequestShape DEF MarkServiceOrderPaid
  <2>2. /\ [pc |-> "closeServiceSession", notice |-> q.notice] \in Requests /\ Idle \in Requests
        /\ q.notice.order \in OrderIds
    BY <2>1 DEF Requests, Marks, Closings, Notices
  <2>3. requests' \in [Workers -> Requests]
    BY <1>0, <1>11, <2>2, GotoType DEF MarkServiceOrderPaid, Return
  <2>4. serviceOrders' \in [ServiceIds -> ServiceStatuses \cup {NoRow}] /\ credited' \subseteq OrderIds
    BY <1>11, <2>2 DEF TypeOK, MarkServiceOrderPaid, ServiceStatuses
  <2>5. faults' \in 0..MaxFaults
    BY <1>0, <1>11, FaultType DEF MarkServiceOrderPaid
  <2> QED
    BY <1>11, <2>3, <2>4, <2>5 DEF TypeOK, MarkServiceOrderPaid, gateway
<1>12. ASSUME NEW w \in Workers, UpdateCheckoutSessionStatus(w)
       PROVE  TypeOK'
  <2> DEFINE q == requests[w]
             row == checkoutSessions[q.notice.order]
             completed == IF row = NoRow THEN NoRow
                          ELSE [user |-> row.user, plan |-> row.plan, status |-> "completed"]
  <2>1. q \in Closings
    BY <1>0, <1>12, RequestShape DEF UpdateCheckoutSessionStatus
  <2>2. /\ [pc |-> "respond", notice |-> q.notice] \in Requests
        /\ row \in PlanSessions \cup {NoRow}
    BY <2>1 DEF TypeOK, Requests, Closings, Notices
  <2>3. completed \in PlanSessions \cup {NoRow}
    BY <2>2 DEF PlanSessions
  <2>4. requests' \in [Workers -> Requests]
    BY <1>0, <1>12, <2>2, GotoType DEF UpdateCheckoutSessionStatus
  <2>5. checkoutSessions' \in [OrderIds -> PlanSessions \cup {NoRow}]
    BY <1>12, <2>3 DEF TypeOK, UpdateCheckoutSessionStatus
  <2>6. faults' \in 0..MaxFaults
    BY <1>0, <1>12, FaultType DEF UpdateCheckoutSessionStatus
  <2> QED
    BY <1>12, <2>4, <2>5, <2>6 DEF TypeOK, UpdateCheckoutSessionStatus, gateway
<1>13. ASSUME NEW w \in Workers, UpdateServiceCheckoutSessionStatus(w)
       PROVE  TypeOK'
  <2> DEFINE q == requests[w]
             row == serviceSessions[q.notice.order]
             completed == IF row = NoRow THEN NoRow
                          ELSE [service |-> row.service, status |-> "completed"]
  <2>1. q \in Closings
    BY <1>0, <1>13, RequestShape DEF UpdateServiceCheckoutSessionStatus
  <2>2. /\ [pc |-> "respond", notice |-> q.notice] \in Requests
        /\ row \in ServiceSessions \cup {NoRow}
    BY <2>1 DEF TypeOK, Requests, Closings, Notices
  <2>3. completed \in ServiceSessions \cup {NoRow}
    BY <2>2 DEF ServiceSessions
  <2>4. requests' \in [Workers -> Requests]
    BY <1>0, <1>13, <2>2, GotoType DEF UpdateServiceCheckoutSessionStatus
  <2>5. serviceSessions' \in [OrderIds -> ServiceSessions \cup {NoRow}]
    BY <1>13, <2>3 DEF TypeOK, UpdateServiceCheckoutSessionStatus
  <2>6. faults' \in 0..MaxFaults
    BY <1>0, <1>13, FaultType DEF UpdateServiceCheckoutSessionStatus
  <2> QED
    BY <1>13, <2>4, <2>5, <2>6 DEF TypeOK, UpdateServiceCheckoutSessionStatus, gateway
<1>14. ASSUME NEW w \in Workers, Respond(w)
       PROVE  TypeOK'
  <2>1. requests[w] \in Closings
    BY <1>0, <1>14, RequestShape DEF Respond
  <2>2. acked' \subseteq Notices
    BY <1>14, <2>1 DEF TypeOK, Respond, Closings
  <2>3. requests' \in [Workers -> Requests]
    BY <1>0, <1>14, GotoType DEF Respond, Return, Requests
  <2>4. faults' \in 0..MaxFaults
    BY <1>0, <1>14, FaultType DEF Respond
  <2> QED
    BY <1>14, <2>2, <2>3, <2>4 DEF TypeOK, Respond, tables
<1>15. ASSUME NEW o \in OrderIds, NEW status \in InvoiceStatuses, Advance(o, status)
       PROVE  TypeOK'
  BY <1>15 DEF TypeOK, Advance, Notices, tables
<1>16. ASSUME NEW s \in ServiceIds, NEW status \in ServiceStatuses,
              AdminUpdateServiceOrderStatus(s, status)
       PROVE  TypeOK'
  BY <1>16 DEF TypeOK, AdminUpdateServiceOrderStatus, gateway
<1>17. ASSUME Crash
       PROVE  TypeOK'
  <2>1. requests' \in [Workers -> Requests]
    BY <1>17 DEF Crash, Requests
  <2>2. faults' \in 0..MaxFaults
    BY <1>0, <1>17, FaultType DEF Crash
  <2> QED
    BY <1>17, <2>1, <2>2 DEF TypeOK, Crash, gateway, tables
<1>18. CASE UNCHANGED vars
  BY <1>18 DEF TypeOK, vars, gateway, tables
<1> QED
  BY <1>1, <1>2, <1>3, <1>4, <1>5, <1>6, <1>7, <1>8, <1>9, <1>10, <1>11, <1>12, <1>13,
     <1>14, <1>15, <1>16, <1>17, <1>18 DEF Next, Step

\* Every reachable state is well typed.
THEOREM TypeCorrect == Spec => []TypeOK
  BY TypeInit, TypeNext, PTL DEF Spec

-----------------------------------------------------------------------------
(* The inductive invariant.  Checkout side: a gateway order is in exactly   *)
(* one handler's hands until its session row is in place, and its URL is   *)
(* out only after that.  Webhook side: what a handler read from the session *)
(* row stays true until it is used.                                        *)

Holds(w, o) ==
  /\ requests[w].pc \in {"createSession", "createServiceSession"}
  /\ requests[w].order = o

\* An order whose row is still to be written has no row, no URL and one holder.
HeldOrders ==
  \A w \in Workers, o \in OrderIds : Holds(w, o) =>
    /\ invoice[o] # "none" /\ ~HasRow(o)
    /\ \A v \in Workers : Holds(v, o) => v = w

RowsAreOpened ==
  \A o \in OrderIds :
    /\ HasRow(o) => invoice[o] # "none"
    /\ checkoutSessions[o] = NoRow \/ serviceSessions[o] = NoRow

UrlsHaveRows ==
  /\ \A o \in urls : HasRow(o)
  /\ \A w \in Workers : At(w, "reply") => HasRow(requests[w].order)

\* Money moves only through a URL, and a callback never runs ahead of it.
PaymentsUseUrls ==
  /\ \A o \in OrderIds : invoice[o] = "confirming" \/ Paid(o) => o \in urls
  /\ \A n \in notices : n.status \in PaidStatuses => Paid(n.order)

CheckoutInv == HeldOrders /\ RowsAreOpened /\ UrlsHaveRows /\ PaymentsUseUrls

\* Neither lookup of a session ever fails.
LookupsAnswer == "getSession" \notin UnreliableSteps /\ "getServiceSession" \notin UnreliableSteps

\* What the webhook handler may rely on at each of its statements.
WebhookOK(r) ==
  /\ r.pc \in {"getSession", "getServiceSession"} =>
       /\ r.paid => Paid(r.notice.order)
       /\ r.notice.status \in PaidStatuses => r.paid
  /\ r.pc = "getServiceSession" /\ LookupsAnswer /\ r.paid =>
       serviceSessions[r.notice.order] # NoRow
  /\ r.pc = "upsert" =>
       /\ Paid(r.notice.order)
       /\ checkoutSessions[r.notice.order] # NoRow
       /\ checkoutSessions[r.notice.order].user = r.user
       /\ checkoutSessions[r.notice.order].plan = r.plan
  /\ r.pc = "markPaid" =>
       /\ Paid(r.notice.order)
       /\ serviceSessions[r.notice.order] # NoRow
       /\ serviceSessions[r.notice.order].service = r.service
  /\ r.pc \in {"closeSession", "closeServiceSession"} => r.notice.order \in credited
  /\ r.pc = "respond" /\ LookupsAnswer /\ r.notice.status \in PaidStatuses =>
       r.notice.order \in credited

WebhooksOK == \A w \in Workers : WebhookOK(requests[w])

CreditedIsPaid == \A o \in credited : Paid(o)

IInv ==
  /\ TypeOK
  /\ CheckoutInv
  /\ WebhooksOK
  /\ CreditedIsPaid
  /\ PlanIsPaidFor
  /\ CompletedIsCredited
  /\ LookupsAnswer => AcknowledgedIsCredited

LEMMA InvInit == Init => IInv
  BY TypeInit
  DEF Init, IInv, CheckoutInv, HeldOrders, Holds, RowsAreOpened, HasRow, UrlsHaveRows, At,
      PaymentsUseUrls, Paid, PaidStatuses, WebhooksOK, WebhookOK, Idle, CreditedIsPaid,
      PlanIsPaidFor, CompletedIsCredited, AcknowledgedIsCredited

\* Only the acting worker's request changes.
LEMMA GotoFrame ==
  ASSUME requests \in [Workers -> Requests], NEW w \in Workers, NEW r, Goto(w, r)
  PROVE  /\ requests'[w] = r
         /\ \A v \in Workers : v # w => requests'[v] = requests[v]
  BY DEF Goto

-----------------------------------------------------------------------------
(* Preservation of the checkout side.                                      *)

\* A step that touches neither orders nor rows nor URLs, and leaves its worker
\* at a webhook statement or idle, disturbs nothing on the checkout side.
LEMMA CheckoutFrame ==
  ASSUME TypeOK, CheckoutInv,
         UNCHANGED gateway \/ UNCHANGED <<invoice, notices, urls>>,
         \A o \in OrderIds : (checkoutSessions'[o] = NoRow <=> checkoutSessions[o] = NoRow),
         \A o \in OrderIds : (serviceSessions'[o] = NoRow <=> serviceSessions[o] = NoRow),
         \A v \in Workers :
           \/ requests'[v] = requests[v]
           \/ requests'[v].pc \notin {"createSession", "createServiceSession", "reply"}
  PROVE  CheckoutInv'
<1>1. UNCHANGED <<invoice, notices, urls>>
  BY DEF gateway
<1>2. \A o \in OrderIds : HasRow(o)' <=> HasRow(o)
  BY DEF HasRow
<1>3. \A w \in Workers, o \in OrderIds : Holds(w, o)' => Holds(w, o)
  BY DEF Holds
<1>4. \A w \in Workers : At(w, "reply") => requests[w].order \in OrderIds
  BY RequestShape DEF At, TypeOK, Replies
<1>5. HeldOrders'
  BY <1>1, <1>2, <1>3 DEF CheckoutInv, HeldOrders
<1>6. RowsAreOpened'
  BY <1>1, <1>2 DEF CheckoutInv, RowsAreOpened
<1>7. UrlsHaveRows'
  BY <1>1, <1>2, <1>4 DEF CheckoutInv, UrlsHaveRows, At, TypeOK
<1>8. PaymentsUseUrls'
  BY <1>1 DEF CheckoutInv, PaymentsUseUrls, Paid
<1> QED
  BY <1>5, <1>6, <1>7, <1>8 DEF CheckoutInv

\* The gateway opens a fresh order for worker w, which holds it or gave up.
LEMMA OpenedOrder ==
  ASSUME TypeOK, CheckoutInv, NEW w \in Workers, NEW o \in OrderIds, OpenInvoice(o), UNCHANGED tables,
         requests[w].pc \in {"idle", "createCheckout"},
         \A v \in Workers : v # w => requests'[v] = requests[v],
         \/ requests'[w].pc \in {"createSession", "createServiceSession"} /\ requests'[w].order = o
         \/ requests'[w].pc \in {"idle", "createCheckout"}
  PROVE  CheckoutInv'
<1>1. /\ UNCHANGED <<notices, urls>>
      /\ invoice'[o] = "new" /\ invoice[o] = "none"
      /\ \A q \in OrderIds : q # o => invoice'[q] = invoice[q]
  BY DEF OpenInvoice, TypeOK, OpenStatus
<1>2. \A q \in OrderIds : HasRow(q)' <=> HasRow(q)
  BY DEF HasRow, tables
<1>3. ~HasRow(o) /\ \A v \in Workers : ~Holds(v, o)
  BY <1>1 DEF CheckoutInv, RowsAreOpened, HeldOrders
<1>4. \A v \in Workers, q \in OrderIds : Holds(v, q)' => Holds(v, q) \/ (v = w /\ q = o)
  BY DEF Holds
<1>5. HeldOrders'
  <2> SUFFICES ASSUME NEW v \in Workers, NEW q \in OrderIds, Holds(v, q)'
               PROVE  /\ invoice'[q] # "none" /\ ~HasRow(q)'
                      /\ \A x \in Workers : Holds(x, q)' => x = v
    BY DEF HeldOrders
  <2>1. CASE q = o
    BY <1>1, <1>2, <1>3, <1>4, <2>1
  <2>2. CASE q # o
    BY <1>1, <1>2, <1>4, <2>2 DEF CheckoutInv, HeldOrders
  <2> QED
    BY <2>1, <2>2
<1>6. RowsAreOpened'
  BY <1>1, <1>2 DEF CheckoutInv, RowsAreOpened, tables
<1>7. \A v \in Workers : At(v, "reply")' => At(v, "reply") /\ requests'[v] = requests[v]
  BY DEF At
<1>8. \A v \in Workers : At(v, "reply") => requests[v].order \in OrderIds
  BY RequestShape DEF At, TypeOK, Replies
<1>9. UrlsHaveRows'
  BY <1>1, <1>2, <1>7, <1>8 DEF CheckoutInv, UrlsHaveRows, TypeOK
<1>10. \A q \in OrderIds : Paid(q)' <=> Paid(q)
  BY <1>1 DEF Paid, PaidStatuses
<1>11. PaymentsUseUrls'
  BY <1>1, <1>10 DEF CheckoutInv, PaymentsUseUrls, TypeOK, Notices
<1> QED
  BY <1>5, <1>6, <1>9, <1>11 DEF CheckoutInv

\* The holder of order o writes its row, in one of the two tables, and moves on
\* to the reply or gives up; or it gives up without the row.
LEMMA InsertedRow ==
  ASSUME TypeOK, CheckoutInv, NEW w \in Workers, NEW o \in OrderIds, Holds(w, o), UNCHANGED gateway,
         \A q \in OrderIds : q # o => /\ checkoutSessions'[q] = checkoutSessions[q]
                                      /\ serviceSessions'[q] = serviceSessions[q],
         checkoutSessions'[o] = NoRow \/ serviceSessions'[o] = NoRow,
         \A v \in Workers : v # w => requests'[v] = requests[v],
         \/ requests'[w] = [pc |-> "reply", order |-> o] /\ HasRow(o)'
         \/ requests'[w] = Idle
  PROVE  CheckoutInv'
<1>1. UNCHANGED <<invoice, notices, urls>> /\ o \notin urls /\ invoice[o] # "none"
  BY DEF gateway, CheckoutInv, HeldOrders, UrlsHaveRows
<1>2. \A q \in OrderIds : q # o => (HasRow(q)' <=> HasRow(q))
  BY DEF HasRow
<1>3. \A v \in Workers, q \in OrderIds : Holds(v, q)' => Holds(v, q) /\ v # w
  BY DEF Holds, Idle
<1>4. \A v \in Workers : v # w => ~Holds(v, o)
  BY DEF CheckoutInv, HeldOrders
<1>5. HeldOrders'
  <2> SUFFICES ASSUME NEW v \in Workers, NEW q \in OrderIds, Holds(v, q)'
               PROVE  /\ invoice'[q] # "none" /\ ~HasRow(q)'
                      /\ \A x \in Workers : Holds(x, q)' => x = v
    BY DEF HeldOrders
  <2>1. Holds(v, q) /\ q # o
    BY <1>3, <1>4
  <2> QED
    BY <1>1, <1>2, <1>3, <2>1 DEF CheckoutInv, HeldOrders
<1>6. RowsAreOpened'
  BY <1>1, <1>2 DEF CheckoutInv, RowsAreOpened
<1>7. \A v \in Workers : At(v, "reply") => requests[v].order \in OrderIds
  BY RequestShape DEF At, TypeOK, Replies
<1>8. \A v \in Workers : At(v, "reply")' => HasRow(requests[v].order)'
  <2> SUFFICES ASSUME NEW v \in Workers, At(v, "reply")'
               PROVE  HasRow(requests[v].order)'
    OBVIOUS
  <2>1. CASE v = w
    BY <2>1 DEF At, Idle, HasRow
  <2>2. CASE v # w
    <3>1. At(v, "reply") /\ requests'[v] = requests[v]
      BY <2>2 DEF At
    <3>2. HasRow(requests[v].order) /\ requests[v].order # o
      BY <1>7, <3>1 DEF CheckoutInv, UrlsHaveRows, HeldOrders
    <3> QED
      BY <1>2, <1>7, <3>1, <3>2 DEF HasRow
  <2> QED
    BY <2>1, <2>2
<1>9. UrlsHaveRows'
  BY <1>1, <1>2, <1>8 DEF CheckoutInv, UrlsHaveRows, TypeOK
<1>10. PaymentsUseUrls'
  BY <1>1 DEF CheckoutInv, PaymentsUseUrls, Paid
<1> QED
  BY <1>5, <1>6, <1>9, <1>10 DEF CheckoutInv

LEMMA CheckoutNext == TypeOK /\ CheckoutInv /\ [Next]_vars => CheckoutInv'
<1> SUFFICES ASSUME TypeOK, CheckoutInv, [Next]_vars
             PROVE  CheckoutInv'
  OBVIOUS
<1>0. requests \in [Workers -> Requests]
  BY DEF TypeOK
<1>1. ASSUME NEW w \in Workers, NEW u \in Users, NEW p \in Plans, NEW o \in OrderIds,
             CreateCheckout(w, u, p, o)
      PROVE  CheckoutInv'
  BY <1>0, <1>1, OpenedOrder, GotoFrame DEF CreateCheckout, At
<1>2. ASSUME NEW w \in Workers, CreateCheckoutSession(w)
      PROVE  CheckoutInv'
  <2> DEFINE o == requests[w].order
  <2>1. requests[w] \in PlanCheckouts
    BY <1>0, <1>2, RequestShape DEF CreateCheckoutSession, At
  <2>2. o \in OrderIds /\ Holds(w, o)
    BY <1>2, <2>1 DEF PlanCheckouts, Holds, CreateCheckoutSession, At
  <2>3. serviceSessions[o] = NoRow
    BY <2>2 DEF CheckoutInv, HeldOrders, HasRow
  <2>4. [user |-> requests[w].user, plan |-> requests[w].plan, status |-> "pending"] # NoRow
    BY <2>1, BillingAssumption DEF PlanCheckouts, PlanSessions
  <2>5. \/ requests'[w] = [pc |-> "reply", order |-> o] /\ HasRow(o)'
        \/ requests'[w] = Idle
    BY <1>0, <1>2, <2>2, <2>4, GotoFrame DEF CreateCheckoutSession, Return, HasRow, TypeOK
  <2>6. \A v \in Workers : v # w => requests'[v] = requests[v]
    BY <1>0, <1>2, GotoFrame DEF CreateCheckoutSession, Return
  <2>7. /\ UNCHANGED gateway
        /\ UNCHANGED serviceSessions
        /\ \A q \in OrderIds : q # o => checkoutSessions'[q] = checkoutSessions[q]
    BY <1>2, <2>2 DEF CreateCheckoutSession, TypeOK
  <2> QED
    BY <2>2, <2>3, <2>5, <2>6, <2>7, InsertedRow
<1>3. ASSUME NEW w \in Workers, NEW s \in ServiceIds, CreateServiceOrder(w, s)
      PROVE  CheckoutInv'
  BY <1>0, <1>3, CheckoutFrame, GotoFrame DEF CreateServiceOrder
<1>4. ASSUME NEW w \in Workers, NEW o \in OrderIds, CreateCustomCheckout(w, o)
      PROVE  CheckoutInv'
  <2>1. CASE OpenInvoice(o)
    BY <1>0, <1>4, <2>1, OpenedOrder, GotoFrame DEF CreateCustomCheckout, At, Return, Idle
  <2>2. CASE UNCHANGED gateway
    <3>1. \A v \in Workers : requests'[v] = requests[v] \/ requests'[v].pc = "idle"
      BY <1>0, <1>4, <2>2, GotoFrame DEF CreateCustomCheckout, Return, Idle, OpenInvoice, OpenStatus,
         gateway, TypeOK
    <3> QED
      BY <1>4, <2>2, <3>1, CheckoutFrame DEF CreateCustomCheckout, tables
  <2> QED
    BY <1>4, <2>1, <2>2 DEF CreateCustomCheckout
<1>5. ASSUME NEW w \in Workers, CreateServiceCheckoutSession(w)
      PROVE  CheckoutInv'
  <2> DEFINE o == requests[w].order
  <2>1. requests[w] \in [pc: {"createServiceSession"}, service: ServiceIds, order: OrderIds]
    BY <1>0, <1>5, RequestShape DEF CreateServiceCheckoutSession, At
  <2>2. o \in OrderIds /\ Holds(w, o)
    BY <1>5, <2>1 DEF Holds, CreateServiceCheckoutSession, At
  <2>3. checkoutSessions[o] = NoRow
    BY <2>2 DEF CheckoutInv, HeldOrders, HasRow
  <2>4. [service |-> requests[w].service, status |-> "pending"] # NoRow
    BY <2>1, BillingAssumption DEF ServiceSessions
  <2>5. \/ requests'[w] = [pc |-> "reply", order |-> o] /\ HasRow(o)'
        \/ requests'[w] = Idle
    BY <1>0, <1>5, <2>2, <2>4, GotoFrame DEF CreateServiceCheckoutSession, Return, HasRow, TypeOK
  <2>6. \A v \in Workers : v # w => requests'[v] = requests[v]
    BY <1>0, <1>5, GotoFrame DEF CreateServiceCheckoutSession, Return
  <2>7. /\ UNCHANGED gateway
        /\ UNCHANGED checkoutSessions
        /\ \A q \in OrderIds : q # o => serviceSessions'[q] = serviceSessions[q]
    BY <1>5, <2>2 DEF CreateServiceCheckoutSession, TypeOK
  <2> QED
    BY <2>2, <2>3, <2>5, <2>6, <2>7, InsertedRow
<1>6. ASSUME NEW w \in Workers, Reply(w)
      PROVE  CheckoutInv'
  <2> DEFINE o == requests[w].order
  <2>1. o \in OrderIds /\ HasRow(o)
    BY <1>0, <1>6, RequestShape DEF Reply, At, Replies, CheckoutInv, UrlsHaveRows
  <2>2. /\ UNCHANGED <<invoice, notices, checkoutSessions, serviceSessions>>
        /\ urls' = urls \/ urls' = urls \cup {o}
    BY <1>6 DEF Reply, tables
  <2>3. \A v \in Workers : requests'[v] = requests[v] \/ requests'[v] = Idle
    BY <1>0, <1>6, GotoFrame DEF Reply, Return
  <2>4. \A q \in OrderIds : HasRow(q)' <=> HasRow(q)
    BY <2>2 DEF HasRow
  <2>5. HeldOrders'
    BY <2>2, <2>3, <2>4 DEF CheckoutInv, HeldOrders, Holds, Idle
  <2>6. RowsAreOpened'
    BY <2>2, <2>4 DEF CheckoutInv, RowsAreOpened
  <2>7. UrlsHaveRows'
    BY <2>1, <2>2, <2>3 DEF CheckoutInv, UrlsHaveRows, At, Idle, HasRow
  <2>8. PaymentsUseUrls'
    BY <2>2 DEF CheckoutInv, PaymentsUseUrls, Paid
  <2> QED
    BY <2>5, <2>6, <2>7, <2>8 DEF CheckoutInv
<1>7. ASSUME NEW w \in Workers, NEW n \in notices, HandleWebhook(w, n)
      PROVE  CheckoutInv'
  BY <1>0, <1>7, CheckoutFrame, GotoFrame DEF HandleWebhook, tables
<1>8. ASSUME NEW w \in Workers, GetCheckoutSession(w)
      PROVE  CheckoutInv'
  BY <1>0, <1>8, CheckoutFrame, GotoFrame DEF GetCheckoutSession, tables
<1>9. ASSUME NEW w \in Workers, GetServiceCheckoutSession(w)
      PROVE  CheckoutInv'
  BY <1>0, <1>9, CheckoutFrame, GotoFrame DEF GetServiceCheckoutSession, tables
<1>10. ASSUME NEW w \in Workers, UpsertSubscription(w)
       PROVE  CheckoutInv'
  BY <1>0, <1>10, CheckoutFrame, GotoFrame DEF UpsertSubscription, Return, Idle
<1>11. ASSUME NEW w \in Workers, MarkServiceOrderPaid(w)
       PROVE  CheckoutInv'
  BY <1>0, <1>11, CheckoutFrame, GotoFrame DEF MarkServiceOrderPaid, Return, Idle
<1>12. ASSUME NEW w \in Workers, UpdateCheckoutSessionStatus(w)
       PROVE  CheckoutInv'
  <2>1. requests[w] \in Closings /\ requests[w].notice.order \in OrderIds
    BY <1>0, <1>12, RequestShape DEF UpdateCheckoutSessionStatus, At, Closings, Notices
  <2>2. \A o \in OrderIds : checkoutSessions'[o] = NoRow <=> checkoutSessions[o] = NoRow
    BY <1>12, <2>1, BillingAssumption DEF UpdateCheckoutSessionStatus, TypeOK, PlanSessions
  <2> QED
    BY <1>0, <1>12, <2>2, CheckoutFrame, GotoFrame DEF UpdateCheckoutSessionStatus
<1>13. ASSUME NEW w \in Workers, UpdateServiceCheckoutSessionStatus(w)
       PROVE  CheckoutInv'
  <2>1. requests[w] \in Closings /\ requests[w].notice.order \in OrderIds
    BY <1>0, <1>13, RequestShape DEF UpdateServiceCheckoutSessionStatus, At, Closings, Notices
  <2>2. \A o \in OrderIds : serviceSessions'[o] = NoRow <=> serviceSessions[o] = NoRow
    BY <1>13, <2>1, BillingAssumption DEF UpdateServiceCheckoutSessionStatus, TypeOK, ServiceSessions
  <2> QED
    BY <1>0, <1>13, <2>2, CheckoutFrame, GotoFrame DEF UpdateServiceCheckoutSessionStatus
<1>14. ASSUME NEW w \in Workers, Respond(w)
       PROVE  CheckoutInv'
  BY <1>0, <1>14, CheckoutFrame, GotoFrame DEF Respond, Return, Idle, tables
<1>15. ASSUME NEW o \in OrderIds, NEW status \in InvoiceStatuses, Advance(o, status)
       PROVE  CheckoutInv'
  <2>1. /\ UNCHANGED <<urls, checkoutSessions, serviceSessions, requests>>
        /\ notices' = notices \cup {[order |-> o, status |-> status]}
        /\ invoice' = [invoice EXCEPT ![o] = status]
        /\ status # "expired" => o \in urls
        /\ <<invoice[o], status>> \in Advances
    BY <1>15 DEF Advance, tables
  <2>2. /\ status \in {"confirming", "confirmed", "finished", "paid", "expired"}
        /\ invoice[o] \in PaidStatuses => status \in PaidStatuses
        /\ invoice[o] # "none"
    BY <2>1 DEF Advances, PaidStatuses
  <2>3. /\ invoice'[o] = status
        /\ \A q \in OrderIds : q # o => invoice'[q] = invoice[q]
    BY <2>1 DEF TypeOK
  <2>4. HeldOrders' /\ RowsAreOpened' /\ UrlsHaveRows'
    BY <2>1, <2>2, <2>3 DEF CheckoutInv, HeldOrders, Holds, HasRow, RowsAreOpened, UrlsHaveRows, At
  <2>5. \A q \in OrderIds : Paid(q) => Paid(q)'
    BY <2>2, <2>3 DEF Paid
  <2>6. \A q \in OrderIds : invoice'[q] = "confirming" \/ Paid(q)' => q \in urls'
    BY <2>1, <2>2, <2>3 DEF CheckoutInv, PaymentsUseUrls, Paid, PaidStatuses
  <2>7. \A n \in notices' : n.status \in PaidStatuses => Paid(n.order)'
    BY <2>1, <2>3, <2>5 DEF CheckoutInv, PaymentsUseUrls, Paid, TypeOK, Notices
  <2> QED
    BY <2>4, <2>6, <2>7 DEF CheckoutInv, PaymentsUseUrls
<1>16. ASSUME NEW s \in ServiceIds, NEW status \in ServiceStatuses,
              AdminUpdateServiceOrderStatus(s, status)
       PROVE  CheckoutInv'
  BY <1>16, CheckoutFrame DEF AdminUpdateServiceOrderStatus
<1>17. ASSUME Crash
       PROVE  CheckoutInv'
  BY <1>17, CheckoutFrame DEF Crash, Idle, tables
<1>18. CASE UNCHANGED vars
  BY <1>18, CheckoutFrame DEF vars, tables
<1> QED
  BY <1>1, <1>2, <1>3, <1>4, <1>5, <1>6, <1>7, <1>8, <1>9, <1>10, <1>11, <1>12, <1>13,
     <1>14, <1>15, <1>16, <1>17, <1>18 DEF Next, Step

-----------------------------------------------------------------------------
(* Preservation of the webhook side.                                       *)

\* Money is not taken back, a session row never changes whom or what it pays
\* for, and a credited order stays credited: what one handler has read cannot
\* be undone by another before it is used.
RowsPersist(o) ==
  /\ checkoutSessions[o] # NoRow =>
       /\ checkoutSessions'[o] # NoRow
       /\ checkoutSessions'[o].user = checkoutSessions[o].user
       /\ checkoutSessions'[o].plan = checkoutSessions[o].plan
  /\ serviceSessions[o] # NoRow =>
       /\ serviceSessions'[o] # NoRow
       /\ serviceSessions'[o].service = serviceSessions[o].service

Stable ==
  /\ \A o \in OrderIds : Paid(o) => Paid(o)'
  /\ \A o \in OrderIds : RowsPersist(o)
  /\ credited \subseteq credited'

LEMMA StableNext == TypeOK /\ CheckoutInv /\ [Next]_vars => Stable
<1> SUFFICES ASSUME TypeOK, CheckoutInv, [Next]_vars
             PROVE  Stable
  OBVIOUS
<1>0. requests \in [Workers -> Requests]
  BY DEF TypeOK
<1>1. \A o \in OrderIds : Paid(o) => Paid(o)'
  <2>1. ASSUME NEW o \in OrderIds, OpenInvoice(o)
        PROVE  \A q \in OrderIds : Paid(q) => Paid(q)'
    BY <2>1 DEF OpenInvoice, TypeOK, Paid, PaidStatuses
  <2>2. ASSUME NEW o \in OrderIds, NEW status \in InvoiceStatuses, Advance(o, status)
        PROVE  \A q \in OrderIds : Paid(q) => Paid(q)'
    BY <2>2 DEF Advance, Advances, TypeOK, Paid, PaidStatuses
  <2>3. CASE UNCHANGED invoice
    BY <2>3 DEF Paid
  <2> QED
    BY <2>1, <2>2, <2>3 DEF Next, Step, vars, gateway, CreateCheckout, CreateCheckoutSession,
       CreateServiceOrder, CreateCustomCheckout, CreateServiceCheckoutSession, Reply, HandleWebhook,
       GetCheckoutSession, GetServiceCheckoutSession, UpsertSubscription, MarkServiceOrderPaid,
       UpdateCheckoutSessionStatus, UpdateServiceCheckoutSessionStatus, Respond,
       AdminUpdateServiceOrderStatus, Crash
<1>2. \A o \in OrderIds : RowsPersist(o)
  <2>1. ASSUME NEW w \in Workers, CreateCheckoutSession(w)
        PROVE  \A o \in OrderIds : RowsPersist(o)
    <3>1. requests[w] \in PlanCheckouts
      BY <1>0, <2>1, RequestShape DEF CreateCheckoutSession, At
    <3>2. Holds(w, requests[w].order) /\ requests[w].order \in OrderIds
      BY <2>1, <3>1 DEF Holds, CreateCheckoutSession, At, PlanCheckouts
    <3>3. checkoutSessions[requests[w].order] = NoRow
      BY <3>2 DEF CheckoutInv, HeldOrders, HasRow
    <3> QED
      BY <2>1, <3>3 DEF CreateCheckoutSession, RowsPersist, TypeOK
  <2>2. ASSUME NEW w \in Workers, CreateServiceCheckoutSession(w)
        PROVE  \A o \in OrderIds : RowsPersist(o)
    <3>1. requests[w] \in [pc: {"createServiceSession"}, service: ServiceIds, order: OrderIds]
      BY <1>0, <2>2, RequestShape DEF CreateServiceCheckoutSession, At
    <3>2. Holds(w, requests[w].order) /\ requests[w].order \in OrderIds
      BY <2>2, <3>1 DEF Holds, CreateServiceCheckoutSession, At
    <3>3. serviceSessions[requests[w].order] = NoRow
      BY <3>2 DEF CheckoutInv, HeldOrders, HasRow
    <3> QED
      BY <2>2, <3>3 DEF CreateServiceCheckoutSession, RowsPersist, TypeOK
  <2>3. ASSUME NEW w \in Workers, UpdateCheckoutSessionStatus(w)
        PROVE  \A o \in OrderIds : RowsPersist(o)
    BY <2>3, BillingAssumption DEF UpdateCheckoutSessionStatus, RowsPersist, TypeOK, PlanSessions
  <2>4. ASSUME NEW w \in Workers, UpdateServiceCheckoutSessionStatus(w)
        PROVE  \A o \in OrderIds : RowsPersist(o)
    BY <2>4, BillingAssumption DEF UpdateServiceCheckoutSessionStatus, RowsPersist, TypeOK, ServiceSessions
  <2>5. CASE UNCHANGED <<checkoutSessions, serviceSessions>>
    BY <2>5 DEF RowsPersist
  <2> QED
    BY <2>1, <2>2, <2>3, <2>4, <2>5 DEF Next, Step, vars, tables, CreateCheckout,
       CreateServiceOrder, CreateCustomCheckout, Reply, HandleWebhook,
       GetCheckoutSession, GetServiceCheckoutSession, UpsertSubscription, MarkServiceOrderPaid,
       Respond, Advance, AdminUpdateServiceOrderStatus, Crash
<1>3. credited \subseteq credited'
  BY DEF Next, Step, vars, tables, CreateCheckout, CreateCheckoutSession,
     CreateServiceOrder, CreateCustomCheckout, CreateServiceCheckoutSession, Reply, HandleWebhook,
     GetCheckoutSession, GetServiceCheckoutSession, UpsertSubscription, MarkServiceOrderPaid,
     UpdateCheckoutSessionStatus, UpdateServiceCheckoutSessionStatus, Respond, Advance,
     AdminUpdateServiceOrderStatus, Crash
<1> QED
  BY <1>1, <1>2, <1>3 DEF Stable

\* Another worker's step does not invalidate what a webhook handler relies on.
LEMMA WebhookStable ==
  ASSUME Stable, NEW r \in Requests, WebhookOK(r)
  PROVE  WebhookOK(r)'
<1>1. r.pc \in {"getSession", "getServiceSession", "upsert", "markPaid", "closeSession",
                "closeServiceSession", "respond"} => r.notice.order \in OrderIds
  BY RequestShape DEF Lookups, Upserts, Marks, Closings, Notices
<1> QED
  BY <1>1 DEF WebhookOK, Stable, RowsPersist

\* So it is enough to look at what the acting worker does next.
LEMMA WebhookFrame ==
  ASSUME TypeOK, Stable, WebhooksOK, NEW w \in Workers,
         \A v \in Workers : v # w => requests'[v] = requests[v],
         WebhookOK(requests[w])'
  PROVE  WebhooksOK'
<1>1. SUFFICES ASSUME NEW v \in Workers, v # w
               PROVE  WebhookOK(requests[v])'
  BY DEF WebhooksOK
<1>2. requests[v] \in Requests /\ WebhookOK(requests[v])
  BY DEF TypeOK, WebhooksOK
<1>3. requests[v].pc \in {"getSession", "getServiceSession", "upsert", "markPaid", "closeSession",
                          "closeServiceSession", "respond"} => requests[v].notice.order \in OrderIds
  BY <1>2, RequestShape DEF Lookups, Upserts, Marks, Closings, Notices
<1> QED
  BY <1>1, <1>2, <1>3 DEF WebhookOK, Stable, RowsPersist

LEMMA WebhookNext == TypeOK /\ CheckoutInv /\ WebhooksOK /\ [Next]_vars => WebhooksOK'
<1> SUFFICES ASSUME TypeOK, CheckoutInv, WebhooksOK, [Next]_vars
             PROVE  WebhooksOK'
  OBVIOUS
<1>0. /\ requests \in [Workers -> Requests]
      /\ Stable
  BY StableNext DEF TypeOK
<1> DEFINE Quiet(r) == r.pc \notin {"getSession", "getServiceSession", "upsert", "markPaid",
                                    "closeSession", "closeServiceSession", "respond"}
<1>a. ASSUME NEW w \in Workers, \A v \in Workers : v # w => requests'[v] = requests[v],
             requests'[w] = requests[w] \/ Quiet(requests'[w])
      PROVE  WebhooksOK'
  <2>1. CASE Quiet(requests'[w])
    BY <1>0, <1>a, <2>1, WebhookFrame DEF WebhookOK
  <2>2. CASE requests'[w] = requests[w] /\ ~Quiet(requests[w])
    <3>1. requests[w].notice.order \in OrderIds
      BY <1>0, <2>2, RequestShape DEF Lookups, Upserts, Marks, Closings, Notices
    <3>2. WebhookOK(requests[w])'
      BY <1>0, <2>2, <3>1 DEF WebhooksOK, WebhookOK, Stable, RowsPersist
    <3> QED
      BY <1>0, <1>a, <3>2, WebhookFrame
  <2> QED
    BY <1>a, <2>1, <2>2
<1>1. ASSUME NEW w \in Workers, NEW u \in Users, NEW p \in Plans, NEW o \in OrderIds,
             CreateCheckout(w, u, p, o)
      PROVE  WebhooksOK'
  BY <1>0, <1>1, <1>a, GotoFrame DEF CreateCheckout
<1>2. ASSUME NEW w \in Workers, CreateCheckoutSession(w)
      PROVE  WebhooksOK'
  BY <1>0, <1>2, <1>a, GotoFrame DEF CreateCheckoutSession, Return, Idle
<1>3. ASSUME NEW w \in Workers, NEW s \in ServiceIds, CreateServiceOrder(w, s)
      PROVE  WebhooksOK'
  BY <1>0, <1>3, <1>a, GotoFrame DEF CreateServiceOrder
<1>4. ASSUME NEW w \in Workers, NEW o \in OrderIds, CreateCustomCheckout(w, o)
      PROVE  WebhooksOK'
  BY <1>0, <1>4, <1>a, GotoFrame DEF CreateCustomCheckout, Return, Idle
<1>5. ASSUME NEW w \in Workers, CreateServiceCheckoutSession(w)
      PROVE  WebhooksOK'
  BY <1>0, <1>5, <1>a, GotoFrame DEF CreateServiceCheckoutSession, Return, Idle
<1>6. ASSUME NEW w \in Workers, Reply(w)
      PROVE  WebhooksOK'
  BY <1>0, <1>6, <1>a, GotoFrame DEF Reply, Return, Idle
<1>7. ASSUME NEW w \in Workers, NEW n \in notices, HandleWebhook(w, n)
      PROVE  WebhooksOK'
  <2> DEFINE status == IF Gateway = "nowpayments" THEN n.status ELSE invoice[n.order]
             r == [pc |-> "getSession", notice |-> n, paid |-> status \in PaidStatuses]
  <2>1. requests'[w] = r /\ \A v \in Workers : v # w => requests'[v] = requests[v]
    BY <1>0, <1>7, GotoFrame DEF HandleWebhook
  <2>2. n.status \in PaidStatuses => Paid(n.order)
    BY DEF CheckoutInv, PaymentsUseUrls
  <2>3. /\ status \in PaidStatuses => Paid(n.order)'
        /\ n.status \in PaidStatuses => status \in PaidStatuses
    BY <1>7, <2>2 DEF Paid, HandleWebhook, gateway
  <2>4. requests'[w].pc = "getSession" /\ requests'[w].notice = n
    BY <2>1
  <2>5. requests'[w].paid <=> status \in PaidStatuses
    <3>1. r.paid <=> status \in PaidStatuses
      BY Zenon
    <3>2. requests'[w].paid = r.paid
      BY <2>1, Zenon
    <3> QED
      BY <3>1, <3>2
  <2> HIDE DEF status, r
  <2>6. WebhookOK(requests[w])'
    BY <2>3, <2>4, <2>5 DEF WebhookOK
  <2> QED
    BY <1>0, <2>1, <2>6, WebhookFrame
<1>8. ASSUME NEW w \in Workers, GetCheckoutSession(w)
      PROVE  WebhooksOK'
  <2> DEFINE r == requests[w]
             o == r.notice.order
  <2>1. r \in Lookups /\ o \in OrderIds /\ r.pc = "getSession" /\ WebhookOK(r)
    BY <1>0, <1>8, RequestShape DEF GetCheckoutSession, At, Lookups, Notices, WebhooksOK
  <2>2. UNCHANGED <<gateway, tables>>
    BY <1>8 DEF GetCheckoutSession
  <2>3. \A v \in Workers : v # w => requests'[v] = requests[v]
    BY <1>0, <1>8, GotoFrame DEF GetCheckoutSession
  <2>4. CASE checkoutSessions[o] # NoRow
    <3>1. \/ requests'[w] = [pc |-> "upsert", notice |-> r.notice, user |-> checkoutSessions[o].user,
                             plan |-> checkoutSessions[o].plan] /\ r.paid
          \/ requests'[w] = [pc |-> "respond", notice |-> r.notice] /\ ~r.paid
          \/ requests'[w] = [pc |-> "getServiceSession", notice |-> r.notice, paid |-> r.paid]
             /\ ~LookupsAnswer
      BY <1>0, <1>8, <2>1, <2>4, GotoFrame DEF GetCheckoutSession, Fails, LookupsAnswer, Lookups
    <3>2. WebhookOK(requests[w])'
      BY <2>1, <2>2, <2>4, <3>1 DEF WebhookOK, Paid, gateway, tables
    <3> QED
      BY <1>0, <2>3, <3>2, WebhookFrame
  <2>5. CASE checkoutSessions[o] = NoRow
    <3>1. requests'[w] = [pc |-> "getServiceSession", notice |-> r.notice, paid |-> r.paid]
      BY <1>0, <1>8, <2>5, GotoFrame DEF GetCheckoutSession
    <3>2. r.paid => serviceSessions[o] # NoRow
      BY <2>1, <2>5 DEF WebhookOK, CheckoutInv, PaymentsUseUrls, UrlsHaveRows, HasRow
    <3>3. WebhookOK(requests[w])'
      BY <2>1, <2>2, <3>1, <3>2 DEF WebhookOK, Paid, gateway, tables
    <3> QED
      BY <1>0, <2>3, <3>3, WebhookFrame
  <2> QED
    BY <2>4, <2>5
<1>9. ASSUME NEW w \in Workers, GetServiceCheckoutSession(w)
      PROVE  WebhooksOK'
  <2> DEFINE r == requests[w]
             o == r.notice.order
  <2>1. r \in Lookups /\ o \in OrderIds /\ r.pc = "getServiceSession" /\ WebhookOK(r)
    BY <1>0, <1>9, RequestShape DEF GetServiceCheckoutSession, At, Lookups, Notices, WebhooksOK
  <2>2. UNCHANGED <<gateway, tables>>
    BY <1>9 DEF GetServiceCheckoutSession
  <2>3. \A v \in Workers : v # w => requests'[v] = requests[v]
    BY <1>0, <1>9, GotoFrame DEF GetServiceCheckoutSession
  <2>4. \/ /\ requests'[w] = [pc |-> "markPaid", notice |-> r.notice, service |-> serviceSessions[o].service]
           /\ r.paid /\ serviceSessions[o] # NoRow
        \/ /\ requests'[w] = [pc |-> "respond", notice |-> r.notice]
           /\ ~r.paid \/ serviceSessions[o] = NoRow \/ ~LookupsAnswer
    BY <1>0, <1>9, <2>1, GotoFrame DEF GetServiceCheckoutSession, Fails, LookupsAnswer, Lookups
  <2>5. WebhookOK(requests[w])'
    BY <2>1, <2>2, <2>4 DEF WebhookOK, Paid, gateway, tables
  <2> QED
    BY <1>0, <2>3, <2>5, WebhookFrame
<1>10. ASSUME NEW w \in Workers, UpsertSubscription(w)
       PROVE  WebhooksOK'
  <2> DEFINE r == requests[w]
  <2>1. \A v \in Workers : v # w => requests'[v] = requests[v]
    BY <1>0, <1>10, GotoFrame DEF UpsertSubscription, Return
  <2>2. \/ requests'[w] = Idle
        \/ requests'[w] = [pc |-> "closeSession", notice |-> r.notice] /\ r.notice.order \in credited'
    BY <1>0, <1>10, GotoFrame DEF UpsertSubscription, Return
  <2>3. WebhookOK(requests[w])'
    BY <2>2 DEF WebhookOK, Idle
  <2> QED
    BY <1>0, <2>1, <2>3, WebhookFrame
<1>11. ASSUME NEW w \in Workers, MarkServiceOrderPaid(w)
       PROVE  WebhooksOK'
  <2> DEFINE r == requests[w]
  <2>1. \A v \in Workers : v # w => requests'[v] = requests[v]
    BY <1>0, <1>11, GotoFrame DEF MarkServiceOrderPaid, Return
  <2>2. \/ requests'[w] = Idle
        \/ requests'[w] = [pc |-> "closeServiceSession", notice |-> r.notice]
           /\ r.notice.order \in credited'
    BY <1>0, <1>11, GotoFrame DEF MarkServiceOrderPaid, Return
  <2>3. WebhookOK(requests[w])'
    BY <2>2 DEF WebhookOK, Idle
  <2> QED
    BY <1>0, <2>1, <2>3, WebhookFrame
<1>12. ASSUME NEW w \in Workers, UpdateCheckoutSessionStatus(w) \/ UpdateServiceCheckoutSessionStatus(w)
       PROVE  WebhooksOK'
  <2> DEFINE r == requests[w]
  <2>1. /\ requests'[w] = [pc |-> "respond", notice |-> r.notice]
        /\ \A v \in Workers : v # w => requests'[v] = requests[v]
    BY <1>0, <1>12, GotoFrame DEF UpdateCheckoutSessionStatus, UpdateServiceCheckoutSessionStatus
  <2>2. r.notice.order \in credited /\ credited' = credited
    BY <1>12 DEF WebhooksOK, WebhookOK, UpdateCheckoutSessionStatus, UpdateServiceCheckoutSessionStatus, At
  <2>3. WebhookOK(requests[w])'
    BY <2>1, <2>2 DEF WebhookOK
  <2> QED
    BY <1>0, <2>1, <2>3, WebhookFrame
<1>13. ASSUME NEW w \in Workers, Respond(w)
       PROVE  WebhooksOK'
  BY <1>0, <1>13, <1>a, GotoFrame DEF Respond, Return, Idle
<1>14. ASSUME NEW w \in Workers, UNCHANGED requests
       PROVE  WebhooksOK'
  BY <1>14, <1>a
<1>15. CASE UNCHANGED requests
  BY <1>14, <1>15 DEF WebhooksOK
<1>16. CASE Crash
  BY <1>16 DEF Crash, WebhooksOK, WebhookOK, Idle
<1> QED
  BY <1>1, <1>2, <1>3, <1>4, <1>5, <1>6, <1>7, <1>8, <1>9, <1>10, <1>11, <1>12, <1>13,
     <1>15, <1>16 DEF Next, Step, Advance, AdminUpdateServiceOrderStatus, vars

-----------------------------------------------------------------------------
(* Preservation of what the user sees.                                     *)

\* Of all steps only two credit an order, and only one of them sets a plan.
LEMMA CreditNext ==
  ASSUME IInv, [Next]_vars
  PROVE  \/ UNCHANGED <<credited, subscriptions>>
         \/ \E w \in Workers :
              LET r == requests[w]
                  o == r.notice.order
              IN /\ o \in OrderIds /\ Paid(o)
                 /\ credited' = credited \cup {o}
                 /\ UNCHANGED <<invoice, checkoutSessions, serviceSessions>>
                 /\ \/ /\ r \in Upserts /\ WebhookOK(r) /\ r.pc = "upsert"
                       /\ subscriptions' = [subscriptions EXCEPT ![r.user] = [plan |-> r.plan, order |-> o]]
                    \/ /\ r \in Marks /\ WebhookOK(r) /\ r.pc = "markPaid"
                       /\ UNCHANGED subscriptions
<1>0. requests \in [Workers -> Requests]
  BY DEF IInv, TypeOK
<1>1. ASSUME NEW w \in Workers, UpsertSubscription(w)
      PROVE  \/ UNCHANGED <<credited, subscriptions>>
             \/ /\ requests[w] \in Upserts /\ WebhookOK(requests[w]) /\ requests[w].pc = "upsert"
                /\ requests[w].notice.order \in OrderIds /\ Paid(requests[w].notice.order)
                /\ credited' = credited \cup {requests[w].notice.order}
                /\ UNCHANGED <<invoice, checkoutSessions, serviceSessions>>
                /\ subscriptions' = [subscriptions EXCEPT ![requests[w].user] =
                     [plan |-> requests[w].plan, order |-> requests[w].notice.order]]
  <2>1. requests[w] \in Upserts /\ requests[w].pc = "upsert" /\ WebhookOK(requests[w])
    BY <1>0, <1>1, RequestShape DEF UpsertSubscription, At, IInv, WebhooksOK
  <2>2. requests[w].notice.order \in OrderIds /\ Paid(requests[w].notice.order)
    BY <2>1 DEF Upserts, Notices, WebhookOK
  <2> QED
    BY <1>1, <2>1, <2>2 DEF UpsertSubscription, gateway
<1>2. ASSUME NEW w \in Workers, MarkServiceOrderPaid(w)
      PROVE  \/ UNCHANGED <<credited, subscriptions>>
             \/ /\ requests[w] \in Marks /\ WebhookOK(requests[w]) /\ requests[w].pc = "markPaid"
                /\ requests[w].notice.order \in OrderIds /\ Paid(requests[w].notice.order)
                /\ credited' = credited \cup {requests[w].notice.order}
                /\ UNCHANGED <<invoice, checkoutSessions, serviceSessions, subscriptions>>
  <2>1. requests[w] \in Marks /\ requests[w].pc = "markPaid" /\ WebhookOK(requests[w])
    BY <1>0, <1>2, RequestShape DEF MarkServiceOrderPaid, At, IInv, WebhooksOK
  <2>2. requests[w].notice.order \in OrderIds /\ Paid(requests[w].notice.order)
    BY <2>1 DEF Marks, Notices, WebhookOK
  <2> QED
    BY <1>2, <2>1, <2>2 DEF MarkServiceOrderPaid, gateway
<1>3. \/ \E w \in Workers : UpsertSubscription(w)
      \/ \E w \in Workers : MarkServiceOrderPaid(w)
      \/ UNCHANGED <<credited, subscriptions>>
  BY DEF Next, Step, vars, tables, CreateCheckout, CreateCheckoutSession,
     CreateServiceOrder, CreateCustomCheckout, CreateServiceCheckoutSession, Reply, HandleWebhook,
     GetCheckoutSession, GetServiceCheckoutSession, UpdateCheckoutSessionStatus,
     UpdateServiceCheckoutSessionStatus, Respond, Advance, AdminUpdateServiceOrderStatus, Crash
<1> QED
  BY <1>1, <1>2, <1>3

LEMMA CreditedNext == IInv /\ [Next]_vars => CreditedIsPaid'
<1> SUFFICES ASSUME IInv, [Next]_vars
             PROVE  CreditedIsPaid'
  OBVIOUS
<1>1. Stable /\ credited \subseteq OrderIds
  BY StableNext DEF IInv, TypeOK
<1>2. CASE UNCHANGED credited
  BY <1>1, <1>2 DEF IInv, CreditedIsPaid, Stable
<1>3. ASSUME NEW o \in OrderIds, Paid(o), credited' = credited \cup {o}
      PROVE  CreditedIsPaid'
  BY <1>1, <1>3 DEF IInv, CreditedIsPaid, Stable
<1> QED
  BY <1>2, <1>3, CreditNext

LEMMA PlanNext == IInv /\ [Next]_vars => PlanIsPaidFor'
<1> SUFFICES ASSUME IInv, [Next]_vars, NEW u \in Users, subscriptions'[u] # NoRow
             PROVE  /\ Paid(subscriptions[u].order)'
                    /\ checkoutSessions'[subscriptions'[u].order] # NoRow
                    /\ checkoutSessions'[subscriptions'[u].order].user = u
                    /\ checkoutSessions'[subscriptions'[u].order].plan = subscriptions'[u].plan
  BY DEF PlanIsPaidFor
<1>1. Stable /\ subscriptions \in [Users -> Subscriptions \cup {NoRow}]
  BY StableNext DEF IInv, TypeOK
<1>2. CASE subscriptions'[u] = subscriptions[u]
  <2>1. subscriptions[u].order \in OrderIds
    BY <1>1, <1>2 DEF Subscriptions
  <2> QED
    BY <1>1, <1>2, <2>1 DEF IInv, PlanIsPaidFor, Stable, RowsPersist, Paid
<1>3. ASSUME NEW r \in Upserts, WebhookOK(r), r.pc = "upsert",
             UNCHANGED <<invoice, checkoutSessions>>,
             subscriptions' = [subscriptions EXCEPT ![r.user] = [plan |-> r.plan, order |-> r.notice.order]]
      PROVE  \/ subscriptions'[u] = subscriptions[u]
             \/ /\ Paid(subscriptions[u].order)'
                /\ checkoutSessions'[subscriptions'[u].order] # NoRow
                /\ checkoutSessions'[subscriptions'[u].order].user = u
                /\ checkoutSessions'[subscriptions'[u].order].plan = subscriptions'[u].plan
  <2>1. CASE u = r.user
    BY <1>1, <1>3, <2>1 DEF WebhookOK, Paid
  <2>2. CASE u # r.user
    BY <1>1, <1>3, <2>2
  <2> QED
    BY <2>1, <2>2
<1> QED
  BY <1>2, <1>3, CreditNext

LEMMA CompletedNext == IInv /\ [Next]_vars => CompletedIsCredited'
<1> SUFFICES ASSUME IInv, [Next]_vars
             PROVE  CompletedIsCredited'
  OBVIOUS
<1>0. /\ requests \in [Workers -> Requests]
      /\ checkoutSessions \in [OrderIds -> PlanSessions \cup {NoRow}]
      /\ serviceSessions \in [OrderIds -> ServiceSessions \cup {NoRow}]
      /\ credited \subseteq credited'
  BY StableNext DEF IInv, TypeOK, Stable
<1>1. ASSUME NEW w \in Workers, CreateCheckoutSession(w)
      PROVE  CompletedIsCredited'
  BY <1>0, <1>1 DEF CreateCheckoutSession, IInv, CompletedIsCredited
<1>2. ASSUME NEW w \in Workers, CreateServiceCheckoutSession(w)
      PROVE  CompletedIsCredited'
  BY <1>0, <1>2 DEF CreateServiceCheckoutSession, IInv, CompletedIsCredited
<1>3. ASSUME NEW w \in Workers, UpdateCheckoutSessionStatus(w)
      PROVE  CompletedIsCredited'
  <2>1. requests[w].notice.order \in credited'
    BY <1>3 DEF IInv, WebhooksOK, WebhookOK, UpdateCheckoutSessionStatus, At
  <2> QED
    BY <1>0, <1>3, <2>1 DEF UpdateCheckoutSessionStatus, IInv, CompletedIsCredited
<1>4. ASSUME NEW w \in Workers, UpdateServiceCheckoutSessionStatus(w)
      PROVE  CompletedIsCredited'
  <2>1. requests[w].notice.order \in credited'
    BY <1>4 DEF IInv, WebhooksOK, WebhookOK, UpdateServiceCheckoutSessionStatus, At
  <2> QED
    BY <1>0, <1>4, <2>1 DEF UpdateServiceCheckoutSessionStatus, IInv, CompletedIsCredited
<1>5. CASE UNCHANGED <<checkoutSessions, serviceSessions>>
  BY <1>0, <1>5 DEF IInv, CompletedIsCredited
<1> QED
  BY <1>1, <1>2, <1>3, <1>4, <1>5 DEF Next, Step, vars, tables, CreateCheckout,
     CreateServiceOrder, CreateCustomCheckout, Reply, HandleWebhook,
     GetCheckoutSession, GetServiceCheckoutSession, UpsertSubscription, MarkServiceOrderPaid,
     Respond, Advance, AdminUpdateServiceOrderStatus, Crash

LEMMA AcknowledgedNext ==
  IInv /\ [Next]_vars => (LookupsAnswer => AcknowledgedIsCredited')
<1> SUFFICES ASSUME IInv, [Next]_vars, LookupsAnswer
             PROVE  AcknowledgedIsCredited'
  OBVIOUS
<1>1. credited \subseteq credited' /\ AcknowledgedIsCredited
  BY StableNext DEF IInv, Stable
<1>2. ASSUME NEW w \in Workers, Respond(w)
      PROVE  AcknowledgedIsCredited'
  <2>1. requests[w].notice.status \in PaidStatuses => requests[w].notice.order \in credited
    BY <1>2 DEF IInv, WebhooksOK, WebhookOK, Respond, At
  <2> QED
    BY <1>1, <1>2, <2>1 DEF Respond, AcknowledgedIsCredited
<1>3. CASE UNCHANGED acked
  BY <1>1, <1>3 DEF AcknowledgedIsCredited
<1> QED
  BY <1>2, <1>3 DEF Next, Step, vars, gateway, OpenInvoice, CreateCheckout, CreateCheckoutSession,
     CreateServiceOrder, CreateCustomCheckout, CreateServiceCheckoutSession, Reply, HandleWebhook,
     GetCheckoutSession, GetServiceCheckoutSession, UpsertSubscription, MarkServiceOrderPaid,
     UpdateCheckoutSessionStatus, UpdateServiceCheckoutSessionStatus, Advance,
     AdminUpdateServiceOrderStatus, Crash

-----------------------------------------------------------------------------
(* The theorems.                                                           *)

\* The strengthened invariant holds in every reachable state.
THEOREM Inductive == Spec => []IInv
<1>1. Init => IInv
  BY InvInit
<1>2. IInv /\ [Next]_vars => IInv'
  <2>1. IInv /\ [Next]_vars => TypeOK' /\ CheckoutInv' /\ WebhooksOK'
    BY TypeNext, CheckoutNext, WebhookNext DEF IInv
  <2> QED
    BY <2>1, CreditedNext, PlanNext, CompletedNext, AcknowledgedNext DEF IInv, LookupsAnswer
<1> QED
  BY <1>1, <1>2, PTL DEF Spec

\* Every URL in a buyer's hands is of an order exactly one session row resolves.
THEOREM PayableSafe == Spec => []PayableIsResolvable
<1>1. IInv => PayableIsResolvable
  BY DEF IInv, TypeOK, CheckoutInv, UrlsHaveRows, RowsAreOpened, PayableIsResolvable
<1> QED
  BY <1>1, Inductive, PTL

\* No interleaving, crash, retry or reordering puts a user on a plan that this
\* user did not pay for.
THEOREM PlanSafe == Spec => []PlanIsPaidFor
<1>1. IInv => PlanIsPaidFor
  BY DEF IInv
<1> QED
  BY <1>1, Inductive, PTL

\* A session is never closed before what it sold was delivered.
THEOREM CompletedSafe == Spec => []CompletedIsCredited
<1>1. IInv => CompletedIsCredited
  BY DEF IInv
<1> QED
  BY <1>1, Inductive, PTL

\* If the session lookups always answer, a callback that reports money is not
\* acknowledged before its order is credited, whatever else fails.
THEOREM AcknowledgedSafe ==
  ASSUME LookupsAnswer
  PROVE  Spec => []AcknowledgedIsCredited
<1>1. IInv => AcknowledgedIsCredited
  BY DEF IInv
<1> QED
  BY <1>1, Inductive, PTL

\* Apart from the admin, only a paid service checkout moves an existing service
\* order, and only to "paid".
THEOREM ServiceSafe == Spec => ServiceMovesByPayment
<1>1. IInv /\ [Next]_vars => ServiceMovesOnlyIfPaid
  <2> SUFFICES ASSUME IInv, [Next]_vars, NEW s \in ServiceIds,
                      serviceOrders[s] # NoRow, serviceOrders'[s] # serviceOrders[s], requests' # requests
               PROVE  /\ serviceOrders'[s] = "paid"
                      /\ \E o \in OrderIds : Paid(o) /\ serviceSessions[o] # NoRow
                                                     /\ serviceSessions[o].service = s
    BY DEF ServiceMovesOnlyIfPaid
  <2>0. /\ requests \in [Workers -> Requests]
        /\ serviceOrders \in [ServiceIds -> ServiceStatuses \cup {NoRow}]
    BY DEF IInv, TypeOK
  <2>1. ASSUME NEW w \in Workers, MarkServiceOrderPaid(w)
        PROVE  /\ serviceOrders'[s] = "paid"
               /\ \E o \in OrderIds : Paid(o) /\ serviceSessions[o] # NoRow
                                              /\ serviceSessions[o].service = s
    <3>1. requests[w] \in Marks /\ WebhookOK(requests[w]) /\ requests[w].pc = "markPaid"
      BY <2>0, <2>1, RequestShape DEF MarkServiceOrderPaid, At, IInv, WebhooksOK
    <3>2. requests[w].service = s /\ serviceOrders'[s] = "paid"
      BY <2>0, <2>1 DEF MarkServiceOrderPaid
    <3> QED
      BY <3>1, <3>2 DEF WebhookOK, Marks, Notices
  <2>2. ASSUME NEW w \in Workers, NEW t \in ServiceIds, CreateServiceOrder(w, t)
        PROVE  FALSE
    BY <2>0, <2>2 DEF CreateServiceOrder
  <2>3. CASE UNCHANGED serviceOrders
    BY <2>3
  <2> QED
    BY <2>1, <2>2, <2>3 DEF Next, Step, vars, tables, CreateCheckout, CreateCheckoutSession,
       CreateCustomCheckout, CreateServiceCheckoutSession, Reply, HandleWebhook,
       GetCheckoutSession, GetServiceCheckoutSession, UpsertSubscription,
       UpdateCheckoutSessionStatus, UpdateServiceCheckoutSessionStatus, Respond, Advance,
       AdminUpdateServiceOrderStatus, Crash
<1> QED
  BY <1>1, Inductive, PTL DEF Spec, ServiceMovesByPayment

-----------------------------------------------------------------------------
(* Refinement: Billing implements Purchases.                               *)

\* A paid order was bought for what its session row says, for good.
LEMMA BoughtForGood ==
  ASSUME IInv, [Next]_vars, NEW o \in OrderIds
  PROVE  /\ Paid(o) => PurchaseOf(o)' = PurchaseOf(o) /\ PurchaseOf(o) \in Promise!Items
         /\ ~Paid(o) => PurchaseOf(o) = NoRow
         /\ PurchaseOf(o)' = NoRow \/ PurchaseOf(o)' \in Promise!Items
<1>1. /\ checkoutSessions \in [OrderIds -> PlanSessions \cup {NoRow}]
      /\ serviceSessions \in [OrderIds -> ServiceSessions \cup {NoRow}]
      /\ checkoutSessions' \in [OrderIds -> PlanSessions \cup {NoRow}]
      /\ serviceSessions' \in [OrderIds -> ServiceSessions \cup {NoRow}]
  BY TypeNext DEF IInv, TypeOK
<1>2. Stable /\ CheckoutInv'
  BY StableNext, CheckoutNext DEF IInv
<1>3. Paid(o) => HasRow(o)
  BY DEF IInv, CheckoutInv, PaymentsUseUrls, UrlsHaveRows
<1>4. /\ Paid(o)' => HasRow(o)'
      /\ checkoutSessions'[o] = NoRow \/ serviceSessions'[o] = NoRow
  BY <1>2 DEF CheckoutInv, PaymentsUseUrls, UrlsHaveRows, RowsAreOpened
<1>5. Paid(o) => PurchaseOf(o) \in Promise!Items
  BY <1>1, <1>3 DEF PurchaseOf, HasRow, Promise!Items, PlanSessions, ServiceSessions
<1>6. Paid(o)' => PurchaseOf(o)' \in Promise!Items
  BY <1>1, <1>4 DEF PurchaseOf, HasRow, Promise!Items, PlanSessions, ServiceSessions
<1>7. Paid(o) => PurchaseOf(o)' = PurchaseOf(o)
  BY <1>1, <1>2, <1>3, <1>4 DEF PurchaseOf, HasRow, Stable, RowsPersist
<1>8. (~Paid(o) => PurchaseOf(o) = NoRow) /\ (~Paid(o)' => PurchaseOf(o)' = NoRow)
  BY DEF PurchaseOf
<1> QED
  BY <1>5, <1>6, <1>7, <1>8

LEMMA PromiseInit == Init => Promise!Init
  BY DEF Init, Promise!Init, PurchaseOf, PlanOf, Paid, PaidStatuses

LEMMA PromiseNext == IInv /\ [Next]_vars => [Promise!Next]_(Promise!vars)
<1> SUFFICES ASSUME IInv, [Next]_vars
             PROVE  Promise!Next \/ UNCHANGED Promise!vars
  OBVIOUS
<1> DEFINE bought == [o \in OrderIds |-> PurchaseOf(o)]
           plans == [u \in Users |-> PlanOf(u)]
<1>0. subscriptions \in [Users -> Subscriptions \cup {NoRow}] /\ TypeOK'
  BY TypeNext DEF IInv, TypeOK
<1>1. \A o \in OrderIds : Paid(o) => PurchaseOf(o)' = PurchaseOf(o) /\ PurchaseOf(o) \in Promise!Items
  BY BoughtForGood
<1>2. \A o \in OrderIds : ~Paid(o) => PurchaseOf(o) = NoRow
  BY BoughtForGood
<1>3. CASE UNCHANGED <<credited, subscriptions>> /\ UNCHANGED bought
  BY <1>3 DEF Promise!vars, PlanOf
<1>4. ASSUME UNCHANGED <<credited, subscriptions>>, NEW o \in OrderIds,
             bought' # bought,
             \A q \in OrderIds : q # o => PurchaseOf(q)' = PurchaseOf(q)
      PROVE  Promise!Next
  <2>1. PurchaseOf(o)' # PurchaseOf(o)
    BY <1>4
  <2>2. PurchaseOf(o) = NoRow /\ PurchaseOf(o)' \in Promise!Items
    BY <1>1, <1>2, <2>1, BoughtForGood
  <2>3. Promise!Pay(o, PurchaseOf(o)')
    BY <1>4, <2>2 DEF Promise!Pay, PlanOf
  <2> QED
    BY <2>2, <2>3 DEF Promise!Next
<1>5. \A q \in OrderIds : (Paid(q)' <=> Paid(q)) => PurchaseOf(q)' = PurchaseOf(q)
  BY <1>1, <1>2 DEF PurchaseOf
<1>6. ASSUME NEW o \in OrderIds, NEW status \in InvoiceStatuses, Advance(o, status)
      PROVE  Promise!Next \/ UNCHANGED Promise!vars
  <2>1. UNCHANGED <<credited, subscriptions>>
    BY <1>6 DEF Advance, tables
  <2>2. \A q \in OrderIds : q # o => (Paid(q)' <=> Paid(q))
    BY <1>6 DEF Advance, Paid, IInv, TypeOK
  <2>3. CASE UNCHANGED bought
    BY <1>3, <2>1, <2>3
  <2>4. CASE bought' # bought
    <3>1. \A q \in OrderIds : q # o => PurchaseOf(q)' = PurchaseOf(q)
      BY <1>5, <2>2
    <3> QED
      BY <1>4, <2>1, <2>4, <3>1
  <2> QED
    BY <2>3, <2>4
<1>7. CASE ~\E o \in OrderIds, status \in InvoiceStatuses : Advance(o, status)
  <2>1. ASSUME NEW o \in OrderIds, OpenInvoice(o)
        PROVE  \A q \in OrderIds : Paid(q)' <=> Paid(q)
    BY <2>1 DEF OpenInvoice, OpenStatus, Paid, PaidStatuses, IInv, TypeOK
  <2>2. UNCHANGED invoice => \A q \in OrderIds : Paid(q)' <=> Paid(q)
    BY DEF Paid
  <2>3. (\E o \in OrderIds : OpenInvoice(o)) \/ UNCHANGED invoice
    BY <1>7 DEF Next, Step, vars, gateway, CreateCheckout, CreateCheckoutSession,
       CreateServiceOrder, CreateCustomCheckout, CreateServiceCheckoutSession, Reply, HandleWebhook,
       GetCheckoutSession, GetServiceCheckoutSession, UpsertSubscription, MarkServiceOrderPaid,
       UpdateCheckoutSessionStatus, UpdateServiceCheckoutSessionStatus, Respond,
       AdminUpdateServiceOrderStatus, Crash
  <2>4. UNCHANGED bought
    <3>1. \A q \in OrderIds : PurchaseOf(q)' = PurchaseOf(q)
      BY <1>5, <2>1, <2>2, <2>3
    <3> QED
      BY <3>1
  <2>5. ASSUME NEW r \in Upserts, NEW o \in OrderIds, o = r.notice.order, Paid(o),
               WebhookOK(r), r.pc = "upsert", credited' = credited \cup {o},
               subscriptions' = [subscriptions EXCEPT ![r.user] = [plan |-> r.plan, order |-> o]]
        PROVE  Promise!Next
    <3>1. r.user \in Users /\ r.plan \in Plans /\ [plan |-> r.plan, order |-> o] # NoRow
      BY BillingAssumption DEF Upserts, Subscriptions
    <3>2. PurchaseOf(o) = [user |-> r.user, plan |-> r.plan]
      BY <2>5 DEF WebhookOK, PurchaseOf
    <3>3. plans' = [plans EXCEPT ![r.user] = r.plan]
      BY <1>0, <2>5, <3>1 DEF PlanOf
    <3>4. Promise!FulfilPlan(o, r.user, r.plan)
      BY <2>4, <2>5, <3>2, <3>3 DEF Promise!FulfilPlan
    <3> QED
      BY <3>1, <3>4 DEF Promise!Next
  <2>6. ASSUME NEW r \in Marks, NEW o \in OrderIds, o = r.notice.order, Paid(o),
               WebhookOK(r), r.pc = "markPaid", credited' = credited \cup {o}, UNCHANGED subscriptions
        PROVE  Promise!Next
    <3>1. r.service \in ServiceIds /\ serviceSessions[o] # NoRow /\ serviceSessions[o].service = r.service
      BY <2>6 DEF Marks, WebhookOK
    <3>2. PurchaseOf(o) = [service |-> r.service]
      BY <2>6, <3>1 DEF PurchaseOf, IInv, CheckoutInv, RowsAreOpened
    <3>3. UNCHANGED plans
      BY <2>6 DEF PlanOf
    <3>4. Promise!FulfilService(o, r.service)
      BY <2>4, <2>6, <3>2, <3>3 DEF Promise!FulfilService
    <3> QED
      BY <3>1, <3>4 DEF Promise!Next
  <2> QED
    BY <1>3, <2>4, <2>5, <2>6, CreditNext
<1> QED
  BY <1>6, <1>7

\* Every behaviour of the handlers and the gateway, seen through what is paid,
\* delivered and granted, is one of the abstract specification.
THEOREM Implements == Spec => KeepsPromise
<1>1. Init => Promise!Init
  BY PromiseInit
<1>2. IInv /\ [Next]_vars => [Promise!Next]_(Promise!vars)
  BY PromiseNext
<1> QED
  BY <1>1, <1>2, Inductive, PTL DEF Spec, KeepsPromise, Promise!Spec
=============================================================================
