------------------------------- MODULE Billing -------------------------------
(***************************************************************************)
(* Paid checkouts of the mflint server: a user starts a checkout for a     *)
(* plan or for a service package, the external payment gateway collects    *)
(* the money and reports it through webhooks, and finishWebhook turns a    *)
(* paid order into a subscription or into a "paid" service order.          *)
(*                                                                         *)
(* Every handler runs in its own goroutine (a worker here) and makes       *)
(* several independent statements, each its own transaction, so a handler  *)
(* is one action per statement.  Returns before the first statement or     *)
(* gateway call change no state and are stuttering steps.                  *)
(***************************************************************************)
EXTENDS Naturals, FiniteSets

CONSTANTS
  Users,          \* accounts
  OrderIds,       \* gateway order ids, fresh random values (randomOrderID)
  ServiceIds,     \* service_orders primary keys
  Workers,        \* request goroutines of the server
  Gateway,        \* "nowpayments" or "coingate", fixed at startup (main.go)
  UnreliableSteps,\* the statements that may fail, by the pc they run at
  MaxFaults,      \* bound: crashes, failed statements and lost replies
  NoRow           \* a table has no row under this key

Plans == {"team", "pro"}

\* service_orders.status
ServiceStatuses == {"pending_payment", "paid", "in_progress", "completed", "cancelled"}

(***************************************************************************)
(* The gateway's life of one order, as far as the code tells it apart.     *)
(***************************************************************************)
OpenStatus == "new"
PaidStatuses == IF Gateway = "nowpayments" THEN {"confirmed", "finished"} ELSE {"paid"}
InvoiceStatuses == {"none", "new", "confirming", "confirmed", "finished", "paid", "expired"}

\* The status changes a buyer or the clock brings about.  NOWPayments reports
\* "confirmed" and then "finished", or only one of them, per coin and network.
Advances ==
  {<<"new", "confirming">>, <<"new", "expired">>} \cup
  (IF Gateway = "nowpayments"
   THEN {<<"confirming", "confirmed">>, <<"confirming", "finished">>, <<"confirmed", "finished">>}
   ELSE {<<"confirming", "paid">>})

PlanSessions == [user: Users, plan: Plans, status: {"pending", "completed"}]
ServiceSessions == [service: ServiceIds, status: {"pending", "completed"}]
Subscriptions == [plan: Plans, order: OrderIds]
Notices == [order: OrderIds, status: InvoiceStatuses]

ASSUME BillingAssumption ==
  /\ NoRow \notin PlanSessions \cup ServiceSessions \cup Subscriptions \cup ServiceStatuses
  /\ MaxFaults \in Nat

VARIABLES
  invoice,          \* gateway: status of each order
  notices,          \* gateway: every status change it has a callback for
  acked,            \* gateway: the callbacks it got a 200 for, never sent again
  urls,             \* orders whose payment URL reached the buyer
  checkoutSessions, \* table checkout_sessions by provider_order_id
  serviceSessions,  \* table service_checkout_sessions by provider_order_id
  serviceOrders,    \* table service_orders: status by id
  subscriptions,    \* table subscriptions by user_id
  requests,         \* the handler each worker runs, with its local variables
  credited,         \* history: orders a webhook has turned into what was bought
  faults            \* faults so far

gateway == <<invoice, notices, acked, urls>>
tables == <<checkoutSessions, serviceSessions, serviceOrders, subscriptions, credited>>
vars == <<gateway, tables, requests, faults>>

Paid(o) == invoice[o] \in PaidStatuses

-----------------------------------------------------------------------------
(* The request a worker serves: pc is the next statement of its handler.   *)

Idle == [pc |-> "idle"]

PlanCheckouts == [pc: {"createSession"}, user: Users, plan: Plans, order: OrderIds]
ServiceCheckouts ==
  [pc: {"createCheckout"}, service: ServiceIds] \cup
  [pc: {"createServiceSession"}, service: ServiceIds, order: OrderIds]
Replies == [pc: {"reply"}, order: OrderIds]
Lookups == [pc: {"getSession", "getServiceSession"}, notice: Notices, paid: BOOLEAN]
Upserts == [pc: {"upsert"}, notice: Notices, user: Users, plan: Plans]
Marks == [pc: {"markPaid"}, notice: Notices, service: ServiceIds]
Closings == [pc: {"closeSession", "closeServiceSession", "respond"}, notice: Notices]

Requests == {Idle} \cup PlanCheckouts \cup ServiceCheckouts \cup Replies
              \cup Lookups \cup Upserts \cup Marks \cup Closings

TypeOK ==
  /\ invoice \in [OrderIds -> InvoiceStatuses]
  /\ notices \subseteq Notices
  /\ acked \subseteq Notices
  /\ urls \subseteq OrderIds
  /\ checkoutSessions \in [OrderIds -> PlanSessions \cup {NoRow}]
  /\ serviceSessions \in [OrderIds -> ServiceSessions \cup {NoRow}]
  /\ serviceOrders \in [ServiceIds -> ServiceStatuses \cup {NoRow}]
  /\ subscriptions \in [Users -> Subscriptions \cup {NoRow}]
  /\ requests \in [Workers -> Requests]
  /\ credited \subseteq OrderIds
  /\ faults \in 0..MaxFaults

Init ==
  /\ invoice = [o \in OrderIds |-> "none"]
  /\ notices = {} /\ acked = {} /\ urls = {}
  /\ checkoutSessions = [o \in OrderIds |-> NoRow]
  /\ serviceSessions = [o \in OrderIds |-> NoRow]
  /\ serviceOrders = [s \in ServiceIds |-> NoRow]
  /\ subscriptions = [u \in Users |-> NoRow]
  /\ requests = [w \in Workers |-> Idle]
  /\ credited = {}
  /\ faults = 0

At(w, pc) == requests[w].pc = pc
Goto(w, r) == requests' = [requests EXCEPT ![w] = r]
Return(w) == Goto(w, Idle)
Fault == faults < MaxFaults /\ faults' = faults + 1
Fails(pc) == pc \in UnreliableSteps /\ Fault

-----------------------------------------------------------------------------
(* The gateway and the buyer (external).                                   *)

\* An order changes status and the gateway owes the server a callback for it.
\* A buyer can only pay an order whose URL they were given; any order may expire.
Advance(o, status) ==
  /\ <<invoice[o], status>> \in Advances
  /\ status # "expired" => o \in urls
  /\ invoice' = [invoice EXCEPT ![o] = status]
  /\ notices' = notices \cup {[order |-> o, status |-> status]}
  /\ UNCHANGED <<acked, urls, tables, requests, faults>>

\* The gateway stores a new order under the fresh id the server made up.
OpenInvoice(o) ==
  /\ invoice[o] = "none"
  /\ invoice' = [invoice EXCEPT ![o] = OpenStatus]
  /\ UNCHANGED <<notices, acked, urls>>

-----------------------------------------------------------------------------
(* handleCheckout: gateway order, then session row, then the URL.          *)

\* The order exists at the gateway even when its reply is lost (500).
CreateCheckout(w, u, p, o) ==
  /\ At(w, "idle")
  /\ OpenInvoice(o)
  /\ UNCHANGED tables
  /\ \/ /\ Goto(w, [pc |-> "createSession", user |-> u, plan |-> p, order |-> o])
        /\ UNCHANGED faults
     \/ Fails("createCheckout") /\ UNCHANGED requests

\* A bug: the URL is handed out although the INSERT failed.
CreateCheckoutSessionIgnoringErrors(w) ==
  LET r == requests[w]
      row == [user |-> r.user, plan |-> r.plan, status |-> "pending"]
  IN /\ At(w, "createSession")
     /\ Goto(w, [pc |-> "reply", order |-> r.order])
     /\ UNCHANGED <<gateway, serviceSessions, serviceOrders, subscriptions, credited>>
     /\ \/ checkoutSessions' = [checkoutSessions EXCEPT ![r.order] = row] /\ UNCHANGED faults
        \/ Fails("createSession") /\ UNCHANGED checkoutSessions

\* INSERT INTO checkout_sessions; when it reports an error the row may still
\* have been committed.  Either way the error answers 500 without the URL.
CreateCheckoutSession(w) ==
  LET r == requests[w]
      row == [user |-> r.user, plan |-> r.plan, status |-> "pending"]
      Inserted == checkoutSessions' = [checkoutSessions EXCEPT ![r.order] = row]
  IN /\ At(w, "createSession")
     /\ UNCHANGED <<gateway, serviceSessions, serviceOrders, subscriptions, credited>>
     /\ \/ Inserted /\ Goto(w, [pc |-> "reply", order |-> r.order]) /\ UNCHANGED faults
        \/ Inserted /\ Fails("createSession") /\ Return(w)
        \/ Fails("createSession") /\ Return(w) /\ UNCHANGED checkoutSessions

\* writeJSON with the payment URL; the client may be gone.
Reply(w) ==
  /\ At(w, "reply")
  /\ Return(w)
  /\ UNCHANGED <<invoice, notices, acked, tables>>
  /\ \/ urls' = urls \cup {requests[w].order} /\ UNCHANGED faults
     \/ Fails("reply") /\ UNCHANGED urls

-----------------------------------------------------------------------------
(* handleCreateServiceOrder: order row, gateway order, session row, URL.   *)

CreateServiceOrder(w, s) ==
  /\ At(w, "idle")
  /\ serviceOrders[s] = NoRow
  /\ serviceOrders' = [serviceOrders EXCEPT ![s] = "pending_payment"]
  /\ UNCHANGED <<gateway, checkoutSessions, serviceSessions, subscriptions, credited>>
  /\ \/ Goto(w, [pc |-> "createCheckout", service |-> s]) /\ UNCHANGED faults
     \/ Fails("createServiceOrder") /\ UNCHANGED requests

\* The gateway may refuse, be unreachable or not be configured (501): whether or
\* not it stored an order, on an error the service order's row stays behind.
CreateCustomCheckout(w, o) ==
  LET r == requests[w]
  IN /\ At(w, "createCheckout")
     /\ UNCHANGED tables
     /\ \/ /\ OpenInvoice(o)
           /\ Goto(w, [pc |-> "createServiceSession", service |-> r.service, order |-> o])
           /\ UNCHANGED faults
        \/ OpenInvoice(o) /\ Fails("createCheckout") /\ Return(w)
        \/ Return(w) /\ UNCHANGED <<gateway, faults>>

CreateServiceCheckoutSession(w) ==
  LET r == requests[w]
      row == [service |-> r.service, status |-> "pending"]
      Inserted == serviceSessions' = [serviceSessions EXCEPT ![r.order] = row]
  IN /\ At(w, "createServiceSession")
     /\ UNCHANGED <<gateway, checkoutSessions, serviceOrders, subscriptions, credited>>
     /\ \/ Inserted /\ Goto(w, [pc |-> "reply", order |-> r.order]) /\ UNCHANGED faults
        \/ Inserted /\ Fails("createSession") /\ Return(w)
        \/ Fails("createSession") /\ Return(w) /\ UNCHANGED serviceSessions

-----------------------------------------------------------------------------
(* finishWebhook.                                                          *)

\* HandleWebhook authenticates a callback.  NOWPayments signs the status in the
\* body; CoinGate's callback only names the order, whose status is fetched anew.
\* A rejected callback (400) changes nothing and stays due.
HandleWebhook(w, n) ==
  LET status == IF Gateway = "nowpayments" THEN n.status ELSE invoice[n.order]
  IN /\ At(w, "idle")
     /\ n \in notices \ acked
     /\ Goto(w, [pc |-> "getSession", notice |-> n, paid |-> status \in PaidStatuses])
     /\ UNCHANGED <<gateway, tables, faults>>

\* A bug: any callback of a known plan order counts as a payment.
GetCheckoutSessionUnpaid(w) ==
  LET r == requests[w]
      row == checkoutSessions[r.notice.order]
  IN /\ At(w, "getSession")
     /\ UNCHANGED <<gateway, tables, faults>>
     /\ \/ /\ row # NoRow
           /\ Goto(w, [pc |-> "upsert", notice |-> r.notice, user |-> row.user, plan |-> row.plan])
        \/ row = NoRow /\ Goto(w, [pc |-> "getServiceSession", notice |-> r.notice, paid |-> r.paid])

\* Any error of the lookup, not only ErrNotFound, falls through to the
\* service orders.
GetCheckoutSession(w) ==
  LET r == requests[w]
      row == checkoutSessions[r.notice.order]
      FallThrough == Goto(w, [pc |-> "getServiceSession", notice |-> r.notice, paid |-> r.paid])
  IN /\ At(w, "getSession")
     /\ UNCHANGED <<gateway, tables>>
     /\ \/ /\ row # NoRow /\ r.paid
           /\ Goto(w, [pc |-> "upsert", notice |-> r.notice, user |-> row.user, plan |-> row.plan])
           /\ UNCHANGED faults
        \/ /\ row # NoRow /\ ~r.paid
           /\ Goto(w, [pc |-> "respond", notice |-> r.notice])
           /\ UNCHANGED faults
        \/ row = NoRow /\ FallThrough /\ UNCHANGED faults
        \/ Fails("getSession") /\ FallThrough

\* A bug: any callback of a known service order counts as a payment.
GetServiceCheckoutSessionUnpaid(w) ==
  LET r == requests[w]
      row == serviceSessions[r.notice.order]
  IN /\ At(w, "getServiceSession")
     /\ UNCHANGED <<gateway, tables, faults>>
     /\ \/ row # NoRow /\ Goto(w, [pc |-> "markPaid", notice |-> r.notice, service |-> row.service])
        \/ row = NoRow /\ Goto(w, [pc |-> "respond", notice |-> r.notice])

\* An order no lookup found, for whatever reason, is acknowledged as unknown.
GetServiceCheckoutSession(w) ==
  LET r == requests[w]
      row == serviceSessions[r.notice.order]
      Acknowledge == Goto(w, [pc |-> "respond", notice |-> r.notice])
  IN /\ At(w, "getServiceSession")
     /\ UNCHANGED <<gateway, tables>>
     /\ \/ /\ row # NoRow /\ r.paid
           /\ Goto(w, [pc |-> "markPaid", notice |-> r.notice, service |-> row.service])
           /\ UNCHANGED faults
        \/ row # NoRow /\ ~r.paid /\ Acknowledge /\ UNCHANGED faults
        \/ row = NoRow /\ Acknowledge /\ UNCHANGED faults
        \/ Fails("getServiceSession") /\ Acknowledge

\* A bug: a failed upsert is logged, and the callback handled to its end.
UpsertSubscriptionIgnoringErrors(w) ==
  LET r == requests[w]
  IN /\ At(w, "upsert")
     /\ Goto(w, [pc |-> "closeSession", notice |-> r.notice])
     /\ UNCHANGED <<gateway, checkoutSessions, serviceSessions, serviceOrders>>
     /\ \/ /\ subscriptions' = [subscriptions EXCEPT ![r.user] = [plan |-> r.plan, order |-> r.notice.order]]
           /\ credited' = credited \cup {r.notice.order}
           /\ UNCHANGED faults
        \/ Fails("upsert") /\ UNCHANGED <<subscriptions, credited>>

\* INSERT ... ON CONFLICT (user_id) DO UPDATE, whatever the row held before.
UpsertSubscription(w) ==
  LET r == requests[w]
      Upserted ==
        /\ subscriptions' = [subscriptions EXCEPT ![r.user] = [plan |-> r.plan, order |-> r.notice.order]]
        /\ credited' = credited \cup {r.notice.order}
  IN /\ At(w, "upsert")
     /\ UNCHANGED <<gateway, checkoutSessions, serviceSessions, serviceOrders>>
     /\ \/ Upserted /\ Goto(w, [pc |-> "closeSession", notice |-> r.notice]) /\ UNCHANGED faults
        \/ Upserted /\ Fails("upsert") /\ Return(w)
        \/ Fails("upsert") /\ Return(w) /\ UNCHANGED <<subscriptions, credited>>

\* A bug: a failed update is acknowledged.
MarkServiceOrderPaidIgnoringErrors(w) ==
  LET r == requests[w]
  IN /\ At(w, "markPaid")
     /\ Goto(w, [pc |-> "closeServiceSession", notice |-> r.notice])
     /\ UNCHANGED <<gateway, checkoutSessions, serviceSessions, subscriptions>>
     /\ \/ /\ serviceOrders' = [serviceOrders EXCEPT ![r.service] = "paid"]
           /\ credited' = credited \cup {r.notice.order}
           /\ UNCHANGED faults
        \/ Fails("markPaid") /\ UNCHANGED <<serviceOrders, credited>>

\* UPDATE service_orders SET status = 'paid', whatever the status was before.
MarkServiceOrderPaid(w) ==
  LET r == requests[w]
      Updated ==
        /\ serviceOrders' = [serviceOrders EXCEPT ![r.service] = "paid"]
        /\ credited' = credited \cup {r.notice.order}
  IN /\ At(w, "markPaid")
     /\ UNCHANGED <<gateway, checkoutSessions, serviceSessions, subscriptions>>
     /\ \/ Updated /\ Goto(w, [pc |-> "closeServiceSession", notice |-> r.notice]) /\ UNCHANGED faults
        \/ Updated /\ Fails("markPaid") /\ Return(w)
        \/ Fails("markPaid") /\ Return(w) /\ UNCHANGED <<serviceOrders, credited>>

\* A bug: the session is closed with the service order's status.
UpdateCheckoutSessionStatusPaid(w) ==
  LET r == requests[w]
      row == checkoutSessions[r.notice.order]
  IN /\ At(w, "closeSession")
     /\ Goto(w, [pc |-> "respond", notice |-> r.notice])
     /\ checkoutSessions' =
          [checkoutSessions EXCEPT ![r.notice.order] = [user |-> row.user, plan |-> row.plan, status |-> "paid"]]
     /\ UNCHANGED <<gateway, serviceSessions, serviceOrders, subscriptions, credited, faults>>

\* Both status updates are best effort: their error is discarded.
UpdateCheckoutSessionStatus(w) ==
  LET r == requests[w]
      row == checkoutSessions[r.notice.order]
      completed == IF row = NoRow THEN NoRow
                   ELSE [user |-> row.user, plan |-> row.plan, status |-> "completed"]
  IN /\ At(w, "closeSession")
     /\ Goto(w, [pc |-> "respond", notice |-> r.notice])
     /\ UNCHANGED <<gateway, serviceSessions, serviceOrders, subscriptions, credited>>
     /\ \/ /\ checkoutSessions' = [checkoutSessions EXCEPT ![r.notice.order] = completed]
           /\ UNCHANGED faults
        \/ Fails("closeSession") /\ UNCHANGED checkoutSessions

UpdateServiceCheckoutSessionStatus(w) ==
  LET r == requests[w]
      row == serviceSessions[r.notice.order]
      completed == IF row = NoRow THEN NoRow
                   ELSE [service |-> row.service, status |-> "completed"]
  IN /\ At(w, "closeServiceSession")
     /\ Goto(w, [pc |-> "respond", notice |-> r.notice])
     /\ UNCHANGED <<gateway, checkoutSessions, serviceOrders, subscriptions, credited>>
     /\ \/ /\ serviceSessions' = [serviceSessions EXCEPT ![r.notice.order] = completed]
           /\ UNCHANGED faults
        \/ Fails("closeSession") /\ UNCHANGED serviceSessions

\* 200 OK, which the gateway may not receive in time: it then sends again.
Respond(w) ==
  /\ At(w, "respond")
  /\ Return(w)
  /\ UNCHANGED <<invoice, notices, urls, tables>>
  /\ \/ acked' = acked \cup {requests[w].notice} /\ UNCHANGED faults
     \/ Fails("respond") /\ UNCHANGED acked

-----------------------------------------------------------------------------
\* handleAdminUpdateServiceOrderStatus: any valid status over any other; an
\* UPDATE of an id without a row touches nothing and still answers 200.
AdminUpdateServiceOrderStatus(s, status) ==
  /\ serviceOrders[s] # NoRow
  /\ serviceOrders' = [serviceOrders EXCEPT ![s] = status]
  /\ UNCHANGED <<gateway, checkoutSessions, serviceSessions, subscriptions, credited, requests, faults>>

\* The process dies and is restarted: every request in flight is lost.
Crash ==
  /\ Fails("crash")
  /\ requests' = [w \in Workers |-> Idle]
  /\ UNCHANGED <<gateway, tables>>

Step(w) ==
  \/ \E u \in Users, p \in Plans, o \in OrderIds : CreateCheckout(w, u, p, o)
  \/ CreateCheckoutSession(w)
  \/ \E s \in ServiceIds : CreateServiceOrder(w, s)
  \/ \E o \in OrderIds : CreateCustomCheckout(w, o)
  \/ CreateServiceCheckoutSession(w)
  \/ Reply(w)
  \/ \E n \in notices : HandleWebhook(w, n)
  \/ GetCheckoutSession(w)
  \/ GetServiceCheckoutSession(w)
  \/ UpsertSubscription(w)
  \/ MarkServiceOrderPaid(w)
  \/ UpdateCheckoutSessionStatus(w)
  \/ UpdateServiceCheckoutSessionStatus(w)
  \/ Respond(w)

Next ==
  \/ \E w \in Workers : Step(w)
  \/ \E o \in OrderIds, status \in InvoiceStatuses : Advance(o, status)
  \/ \E s \in ServiceIds, status \in ServiceStatuses : AdminUpdateServiceOrderStatus(s, status)
  \/ Crash

Spec == Init /\ [][Next]_vars

-----------------------------------------------------------------------------
(* Fairness: net/http runs every accepted request to its end (a handler    *)
(* that started keeps taking steps until it returns or the process dies),  *)
(* and the gateway keeps sending a callback until it is acknowledged.      *)

Progress(w) ==
  \/ CreateCheckoutSession(w)
  \/ \E o \in OrderIds : CreateCustomCheckout(w, o)
  \/ CreateServiceCheckoutSession(w)
  \/ Reply(w)
  \/ GetCheckoutSession(w)
  \/ GetServiceCheckoutSession(w)
  \/ UpsertSubscription(w)
  \/ MarkServiceOrderPaid(w)
  \/ UpdateCheckoutSessionStatus(w)
  \/ UpdateServiceCheckoutSessionStatus(w)
  \/ Respond(w)

Redeliver(n) == \E w \in Workers : HandleWebhook(w, n)

FairSpec ==
  /\ Spec
  /\ \A w \in Workers : WF_vars(Progress(w))
  /\ \A n \in Notices : WF_vars(Redeliver(n))

-----------------------------------------------------------------------------
(* Properties.                                                             *)

HasRow(o) == checkoutSessions[o] # NoRow \/ serviceSessions[o] # NoRow

\* A buyer is never given a URL to pay an order the webhook could not resolve:
\* the session row is there first, and it names either a plan or a service
\* order, never both (handleCheckout, handleCreateServiceOrder).
PayableIsResolvable ==
  \A o \in urls : HasRow(o) /\ (checkoutSessions[o] = NoRow \/ serviceSessions[o] = NoRow)

\* Whatever order the callbacks are handled in, and however often, a user is
\* on a plan only through an order that was paid, that this same user placed,
\* for that same plan; buying a service never touches it (finishWebhook).
PlanIsPaidFor ==
  \A u \in Users : subscriptions[u] # NoRow =>
    LET o == subscriptions[u].order
    IN /\ Paid(o)
       /\ checkoutSessions[o] # NoRow
       /\ checkoutSessions[o].user = u
       /\ checkoutSessions[o].plan = subscriptions[u].plan

\* A session is "completed" only after what it paid for was delivered, at
\* every crash point between the two statements (finishWebhook).
CompletedIsCredited ==
  \A o \in OrderIds :
    \/ checkoutSessions[o] # NoRow /\ checkoutSessions[o].status = "completed"
    \/ serviceSessions[o] # NoRow /\ serviceSessions[o].status = "completed"
    => o \in credited

\* A callback that reports money is acknowledged only once the order is
\* credited: an acknowledged callback never comes again (finishWebhook).
AcknowledgedIsCredited ==
  \A n \in acked : n.status \in PaidStatuses => n.order \in credited

\* Some worker took this step, so it was not the admin, and it moved an existing
\* service order only to "paid", for a gateway order that was paid.
ServiceMovesOnlyIfPaid ==
  \A s \in ServiceIds :
    serviceOrders[s] # NoRow /\ serviceOrders'[s] # serviceOrders[s] /\ requests' # requests
    => /\ serviceOrders'[s] = "paid"
       /\ \E o \in OrderIds : Paid(o) /\ serviceSessions[o] # NoRow /\ serviceSessions[o].service = s

\* Outside the admin's hands a service order moves only to "paid", and only
\* when a paid gateway order was opened for it (finishWebhook).
ServiceMovesByPayment == [][ServiceMovesOnlyIfPaid]_vars

\* Every order that is paid is credited in the end, whatever single failures
\* happen on the way, as long as the lookups do not fail.
PaidIsCredited == \A o \in OrderIds : Paid(o) ~> o \in credited

-----------------------------------------------------------------------------
(* Billing implements Purchases: an order is bought when the gateway has   *)
(* the money, for what its session row says.                               *)

PurchaseOf(o) ==
  CASE ~Paid(o) -> NoRow
    [] Paid(o) /\ checkoutSessions[o] # NoRow ->
         [user |-> checkoutSessions[o].user, plan |-> checkoutSessions[o].plan]
    [] OTHER -> [service |-> serviceSessions[o].service]

PlanOf(u) == IF subscriptions[u] = NoRow THEN "free" ELSE subscriptions[u].plan

Promise == INSTANCE Purchases WITH
  Services <- ServiceIds, Unpaid <- NoRow,
  purchase <- [o \in OrderIds |-> PurchaseOf(o)],
  fulfilled <- credited,
  plan <- [u \in Users |-> PlanOf(u)]

\* Crashes, lost replies, failed statements and repeated or reordered callbacks
\* leave nothing visible but payments and deliveries of what was paid for.
KeepsPromise == Promise!Spec
=============================================================================
